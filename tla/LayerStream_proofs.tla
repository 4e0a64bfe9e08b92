------------------------- MODULE LayerStream_proofs -------------------------
(***************************************************************************)
(* A package whose manifest can be read is complete, for every set of      *)
(* models, layers, sizes and directories, and for the scripts that stream  *)
(* the packages as for the packages alone. Each layer computes with the    *)
(* bytes of its own package, in all variants of the two scripts, for every *)
(* number of packages and every interleaving of the main thread and the    *)
(* storage worker, errors included; and the ledger gets the rows of the    *)
(* runs in their order, those of a wrong output last.                      *)
(***************************************************************************)
EXTENDS LayerStream, TLAPS

USE PackageAssumption

Spans == [offset : Nat, nbytes : Nat \ {0}]
Manifests ==
    [status : {"none", "torn", "ok"}, model : Models, layer : Layers,
     specs : Seq(Spans), length : Nat]

\* align_up returns the next multiple of the alignment.
LEMMA AlignUpIsNext ==
    ASSUME NEW v \in Nat
    PROVE  AlignUp(v) \in Nat /\ AlignUp(v) >= v /\ AlignUp(v) % Alignment = 0
PROOF
  <1> DEFINE n == v + Alignment - 1
             q == n \div Alignment
             r == n % Alignment
  <1>1. n \in Nat /\ Alignment \in Nat /\ Alignment > 0
    OBVIOUS
  <1> HIDE DEF n
  <1>2. q \in Nat /\ r \in 0 .. Alignment - 1 /\ n = Alignment * q + r
    BY <1>1, SMTT(60)
  <1> DEFINE m == q * Alignment
             p == m \div Alignment
             d == q - p
  <1>3. m \in Nat /\ m = Alignment * q
    BY <1>1, <1>2, Z3
  <1>4. p \in Nat /\ m % Alignment \in 0 .. Alignment - 1
        /\ m = Alignment * p + (m % Alignment)
    <2>1. m \in Nat
      BY <1>3
    <2> HIDE DEF m
    <2> QED
      BY <1>1, <2>1, SMTT(60)
  <1>5. d \in Int /\ Alignment * d = m % Alignment
    <2> HIDE DEF m, p, q
    <2> QED
      BY <1>1, <1>2, <1>3, <1>4, Z3
  <1>6. Alignment * d < Alignment /\ Alignment * d >= 0
    BY <1>1, <1>4, <1>5
  <1>7. ASSUME NEW e \in Int, e >= 1
        PROVE  Alignment * e >= Alignment /\ Alignment * (0 - e) < 0
    BY <1>1, <1>7, Z3
  <1>8. ~(d >= 1) /\ ~(d <= 0 - 1)
    <2> HIDE DEF d, m
    <2>1. ~(d >= 1)
      BY <1>1, <1>5, <1>6, <1>7, Z3
    <2>2. ASSUME d <= 0 - 1 PROVE FALSE
      <3>1. 0 - d \in Int /\ 0 - d >= 1 /\ 0 - (0 - d) = d
        BY <1>5, <2>2
      <3>2. Alignment * (0 - (0 - d)) < 0
        BY <1>7, <3>1, Z3
      <3> QED
        BY <1>6, <3>1, <3>2
    <2> QED
      BY <2>1, <2>2
  <1>9. m % Alignment = 0
    <2> HIDE DEF d, m
    <2>1. d = 0
      BY <1>5, <1>8
    <2> QED
      BY <1>1, <1>5, <2>1, Z3
  <1>10. m >= v
    <2> HIDE DEF m, q, r
    <2> QED
      BY <1>1, <1>2, <1>3, Z3 DEF n
  <1>11. AlignUp(v) = m
    BY DEF AlignUp, n
  <1> QED
    BY <1>3, <1>9, <1>10, <1>11

------------------------------------------------------------------------------
(* The inductive invariant. *)

Types ==
    /\ DOMAIN data = Dirs \X Layers
    /\ manifest \in [Dirs -> Manifests]
    /\ step \in {"idle", "check", "tensors", "manifest", "write", "load", "loaded"}
    /\ model \in Models /\ todo \in Seq(Todo) /\ at \in Nat
    /\ step # "idle" => at \in 1 .. Len(todo)
    /\ specs \in Seq(Spans) /\ offset \in Nat

\* While a package is written its manifest cannot be read, and its data file
\* has what was packed so far.
Packing ==
    step \in {"tensors", "manifest", "write"} =>
        /\ manifest[Dir].status # "ok"
        /\ Len(specs) <= Len(Nbytes[Layer])
        /\ Holds(data[File], specs, model, Layer)
        /\ \A k \in DOMAIN specs : specs[k].offset + specs[k].nbytes <= offset
        /\ step = "tensors" => DOMAIN data[File] = 0 .. offset - 1
        /\ step # "tensors" =>
            /\ DOMAIN data[File] = 0 .. AlignUp(offset) - 1
            /\ Len(specs) = Len(Nbytes[Layer])

PackageInv == Types /\ Packing /\ ManifestDescribes

\* The package a session is at is one of the packages there can be.
LEMMA PackageAt ==
    ASSUME Types, step # "idle"
    PROVE  Dir \in Dirs /\ Layer \in Layers /\ File \in DOMAIN data
           /\ manifest[Dir] \in Manifests /\ Nbytes[Layer] \in Seq(Nat \ {0})
PROOF
  <1>1. todo[at] \in Todo
    BY DEF Types
  <1>2. Dir \in Dirs /\ Layer \in Layers
    BY <1>1 DEF Todo, Dir, Layer
  <1> QED
    BY <1>2 DEF Types, File

\* A step that leaves the variables of the packages keeps the invariant.
LEMMA StutterKeeps ==
    ASSUME PackageInv, UNCHANGED packageVars
    PROVE  PackageInv'
PROOF
  BY DEF PackageInv, Types, Packing, ManifestDescribes, packageVars, disk, request, packing,
         Dir, Layer, File

\* Steps that write no file, and leave the packing or are not in it.
LEMMA OtherStepsKeep ==
    ASSUME PackageInv, UNCHANGED disk, Types',
           step' \notin {"tensors", "manifest", "write"}
    PROVE  PackageInv'
PROOF
  BY DEF PackageInv, Packing, ManifestDescribes, disk

------------------------------------------------------------------------------
(* Each step keeps it. *)

\* A session begins: nothing is written yet.
LEMMA BeginKeeps ==
    ASSUME PackageInv, NEW m \in Models, NEW packages \in Seq(Todo) \ {<<>>}, Begin(m, packages)
    PROVE  PackageInv'
PROOF
  <1>1. Len(packages) >= 1
    BY DEF Begin
  <1>2. Types'
    BY <1>1 DEF PackageInv, Types, Begin, disk, packing
  <1> QED
    BY <1>2, OtherStepsKeep DEF Begin

\* A manifest is found and not read yet.
LEMMA FindManifestKeeps == ASSUME PackageInv, FindManifest PROVE PackageInv'
PROOF
  <1>1. Types'
    BY DEF PackageInv, Types, FindManifest, disk, request, packing
  <1> QED
    BY <1>1, OtherStepsKeep DEF FindManifest

\* A manifest is read, and the session goes on to its next package.
LEMMA LoadManifestKeeps == ASSUME PackageInv, LoadManifest PROVE PackageInv'
PROOF
  <1>1. Types'
    BY DEF PackageInv, Types, LoadManifest, disk, request, packing
  <1>2. step' \notin {"tensors", "manifest", "write"}
    BY DEF LoadManifest
  <1> QED
    BY <1>1, <1>2, OtherStepsKeep DEF LoadManifest

\* A session ends, in the middle of a package perhaps.
LEMMA LeaveKeeps == ASSUME PackageInv, Leave PROVE PackageInv'
PROOF
  <1>1. Types'
    BY DEF PackageInv, Types, Leave, disk, request
  <1> QED
    BY <1>1, OtherStepsKeep DEF Leave

\* A data file is written only while its directory has no readable manifest, so
\* the packages of the readable ones are as they were.
LEMMA OthersUntouched ==
    ASSUME PackageInv, step # "idle", manifest[Dir].status # "ok",
           NEW bytes, data' = [data EXCEPT ![File] = bytes], UNCHANGED manifest
    PROVE  ManifestDescribes'
PROOF
  <1> SUFFICES ASSUME NEW d \in Dirs, manifest'[d].status = "ok"
               PROVE  LET file == data'[<<d, manifest'[d].layer>>]
                      IN  /\ DOMAIN file = 0 .. manifest'[d].length - 1
                          /\ Len(manifest'[d].specs) = Len(Nbytes[manifest'[d].layer])
                          /\ Holds(file, manifest'[d].specs, manifest'[d].model,
                                   manifest'[d].layer)
    BY DEF ManifestDescribes
  <1>1. manifest[d].layer \in Layers
    BY DEF PackageInv, Types, Manifests
  <1>2. <<d, manifest[d].layer>> \in DOMAIN data /\ d # Dir
    BY <1>1 DEF PackageInv, Types
  <1>3. data'[<<d, manifest[d].layer>>] = data[<<d, manifest[d].layer>>]
    BY <1>2 DEF File
  <1> QED
    BY <1>3 DEF PackageInv, ManifestDescribes

\* The data file is truncated, which had no readable manifest.
LEMMA OpenDataKeeps == ASSUME PackageInv, OpenData PROVE PackageInv'
PROOF
  <1>1. /\ Dir \in Dirs /\ Layer \in Layers /\ File \in DOMAIN data
        /\ Nbytes[Layer] \in Seq(Nat \ {0})
    BY PackageAt DEF PackageInv, OpenData
  <1>2. Types'
    BY <1>1 DEF PackageInv, Types, OpenData, request
  <1>3. /\ Dir' = Dir /\ Layer' = Layer /\ File' = File
        /\ data'[File] = <<>> /\ specs' = <<>> /\ offset' = 0
    BY <1>1 DEF OpenData, request, Dir, Layer, File
  <1>4. Packing'
    <2>1. manifest'[Dir'].status # "ok" /\ Len(specs') <= Len(Nbytes[Layer'])
      BY <1>1, <1>3 DEF OpenData
    <2>2. DOMAIN specs' = {} /\ DOMAIN data'[File'] = 0 .. offset' - 1
      BY <1>3
    <2>3. Holds(data'[File'], specs', model', Layer')
      BY <2>2 DEF Holds
    <2> QED
      BY <2>1, <2>2, <2>3 DEF Packing, OpenData
  <1>5. ManifestDescribes'
    BY OthersUntouched DEF OpenData
  <1> QED
    BY <1>2, <1>4, <1>5 DEF PackageInv

\* A tensor is written behind the ones before it: they keep their bytes.
LEMMA PackTensorKeeps == ASSUME PackageInv, PackTensor PROVE PackageInv'
PROOF
  <1> DEFINE start == AlignUp(offset)
             n == Len(specs) + 1
             count == Nbytes[Layer][n]
             content == <<model, Layer, n>>
             spec == [offset |-> start, nbytes |-> count]
             bytes == Written(data[File], start, count, content)
  <1>1. /\ Dir \in Dirs /\ Layer \in Layers /\ File \in DOMAIN data
        /\ Nbytes[Layer] \in Seq(Nat \ {0})
    BY PackageAt DEF PackageInv, PackTensor, PackTensorAt
  <1>2. start \in Nat /\ start >= offset /\ start % Alignment = 0 /\ offset \in Nat
    BY AlignUpIsNext DEF PackageInv, Types
  <1>3. /\ step = "tensors" /\ specs \in Seq(Spans) /\ n \in 1 .. Len(Nbytes[Layer])
        /\ data' = [data EXCEPT ![File] = bytes]
        /\ specs' = Append(specs, spec) /\ offset' = start + count
        /\ UNCHANGED <<manifest, step, request, at>>
    BY <1>1 DEF PackageInv, Types, PackTensor, PackTensorAt
  <1>4. count \in Nat \ {0} /\ spec \in Spans
    BY <1>1, <1>2, <1>3 DEF Spans
  <1>5. /\ manifest[Dir].status # "ok" /\ DOMAIN data[File] = 0 .. offset - 1
        /\ Holds(data[File], specs, model, Layer)
        /\ \A k \in DOMAIN specs : specs[k].offset + specs[k].nbytes <= offset
    BY <1>3 DEF PackageInv, Packing
  <1>6. /\ Dir' = Dir /\ Layer' = Layer /\ File' = File /\ data'[File] = bytes
        /\ model' = model /\ offset' \in Nat
    <2>1. Dir' = Dir /\ Layer' = Layer /\ File' = File /\ model' = model
      BY <1>3 DEF request, Dir, Layer, File
    <2>2. offset' \in Nat
      <3>1. offset' = start + count
        BY <1>3
      <3> HIDE DEF start, count
      <3> QED
        BY <1>2, <1>4, <3>1
    <2>3. data'[File] = bytes
      <3> HIDE DEF bytes
      <3> QED
        BY <1>1, <1>3
    <2> QED
      BY <2>1, <2>2, <2>3
  <1> HIDE DEF start, count, spec, content, bytes
  <1>7. /\ specs' \in Seq(Spans) /\ Len(specs') = n /\ DOMAIN specs' = 1 .. n
        /\ \A k \in DOMAIN specs : k \in 1 .. n - 1 /\ specs'[k] = specs[k]
        /\ specs'[n] = spec /\ DOMAIN specs = 1 .. n - 1
    BY <1>3, <1>4
  <1>8. Types'
    BY <1>1, <1>3, <1>6, <1>7 DEF PackageInv, Types, request
  <1>9. /\ DOMAIN bytes = 0 .. start + count - 1
        /\ \A b \in start .. start + count - 1 : bytes[b] = content
        /\ \A b \in 0 .. offset - 1 : b \in DOMAIN bytes /\ bytes[b] = data[File][b]
    BY <1>2, <1>4, <1>5 DEF bytes, Written
  <1>10. /\ spec.offset = start /\ spec.nbytes = count
         /\ \A k \in DOMAIN specs : specs[k].offset \in Nat /\ specs[k].nbytes \in Nat
    <2>1. spec.offset = start /\ spec.nbytes = count
      BY DEF spec
    <2>2. ASSUME NEW k \in DOMAIN specs PROVE specs[k] \in Spans
      BY <1>3
    <2> QED
      BY <2>1, <2>2 DEF Spans
  <1>11. offset' = start + count /\ offset' >= offset /\ offset' \in Nat /\ offset \in Nat
    <2>1. offset' = start + count
      BY <1>3
    <2> QED
      BY <1>2, <1>4, <2>1
  <1>12. ASSUME NEW k \in 1 .. n
         PROVE  /\ specs'[k].offset % Alignment = 0
                /\ specs'[k].offset + specs'[k].nbytes <= offset'
                /\ \A b \in Extent(specs'[k]) :
                       b \in DOMAIN bytes /\ bytes[b] = <<model, Layer, k>>
    <2>1. CASE k = n
      <3>1. Extent(specs'[k]) = start .. start + count - 1
        BY <1>7, <1>10, <2>1 DEF Extent
      <3>2. start .. start + count - 1 \subseteq DOMAIN bytes
        BY <1>2, <1>4, <1>9
      <3>3. specs'[k].offset % Alignment = 0 /\ specs'[k].offset + specs'[k].nbytes <= offset'
        BY <1>2, <1>7, <1>10, <1>11, <2>1
      <3> QED
        BY <1>9, <2>1, <3>1, <3>2, <3>3 DEF content
    <2>2. CASE k # n
      <3>1. k \in DOMAIN specs /\ specs'[k] = specs[k]
        BY <1>3, <1>7, <2>2
      <3>2. /\ specs[k].offset % Alignment = 0
            /\ \A b \in Extent(specs[k]) :
                   b \in DOMAIN data[File] /\ data[File][b] = <<model, Layer, k>>
        BY <1>5, <3>1 DEF Holds
      <3>3. specs[k].offset + specs[k].nbytes <= offset'
        <4>1. specs[k].offset + specs[k].nbytes <= offset
          BY <1>5, <3>1
        <4>2. specs[k].offset \in Nat /\ specs[k].nbytes \in Nat
          BY <1>10, <3>1
        <4> QED
          BY <1>11, <4>1, <4>2
      <3>4. \A b \in Extent(specs[k]) : b \in 0 .. offset - 1
        BY <1>5, <3>2
      <3> QED
        BY <1>9, <3>1, <3>2, <3>3, <3>4
    <2> QED
      BY <2>1, <2>2
  <1>13. Packing'
    <2>1. Holds(data'[File'], specs', model', Layer')
      BY <1>6, <1>7, <1>12 DEF Holds
    <2>2. \A k \in DOMAIN specs' : specs'[k].offset + specs'[k].nbytes <= offset'
      BY <1>7, <1>12
    <2>3. DOMAIN data'[File'] = 0 .. offset' - 1
      <3>1. data'[File'] = bytes
        BY <1>6, Zenon
      <3>2. offset' - 1 = start + count - 1
        BY <1>2, <1>3, <1>4
      <3> QED
        BY <3>1, <3>2, <1>9, Zenon
    <2>4. manifest'[Dir'].status # "ok" /\ Len(specs') <= Len(Nbytes[Layer'])
      BY <1>1, <1>3, <1>5, <1>6, <1>7
    <2>5. step' = "tensors"
      BY <1>3
    <2> QED
      BY <2>1, <2>2, <2>3, <2>4, <2>5 DEF Packing
  <1>14. ManifestDescribes'
    BY <1>3, <1>5, OthersUntouched
  <1> QED
    BY <1>8, <1>13, <1>14 DEF PackageInv

\* The file is extended to the aligned length; the tensors keep their bytes.
LEMMA TruncateDataKeeps == ASSUME PackageInv, TruncateData PROVE PackageInv'
PROOF
  <1> DEFINE end == AlignUp(offset)
             bytes == Resized(data[File], end)
  <1>1. Dir \in Dirs /\ Layer \in Layers /\ File \in DOMAIN data
    BY PackageAt DEF PackageInv, TruncateData
  <1>2. end \in Nat /\ end >= offset /\ offset \in Nat
    BY AlignUpIsNext DEF PackageInv, Types
  <1>3. /\ step = "tensors" /\ step' = "manifest" /\ Len(specs) = Len(Nbytes[Layer])
        /\ specs \in Seq(Spans) /\ data' = [data EXCEPT ![File] = bytes]
        /\ UNCHANGED <<manifest, request, at, packing>>
    BY DEF PackageInv, Types, TruncateData
  <1>4. /\ manifest[Dir].status # "ok" /\ DOMAIN data[File] = 0 .. offset - 1
        /\ Holds(data[File], specs, model, Layer)
        /\ \A k \in DOMAIN specs : specs[k].offset + specs[k].nbytes <= offset
    BY <1>3 DEF PackageInv, Packing
  <1>5. Dir' = Dir /\ Layer' = Layer /\ File' = File
        /\ model' = model /\ specs' = specs /\ offset' = offset
    BY <1>3 DEF request, packing, Dir, Layer, File
  <1>6. AlignUp(offset)' = end
    BY <1>5 DEF AlignUp
  <1> HIDE DEF end
  <1>7. DOMAIN bytes = 0 .. end - 1
        /\ \A b \in DOMAIN data[File] : b \in DOMAIN bytes /\ bytes[b] = data[File][b]
    BY <1>2, <1>4 DEF Resized
  <1> HIDE DEF bytes
  <1>8. data'[File] = bytes
    BY <1>1, <1>3
  <1>9. Types'
    BY <1>1, <1>3 DEF PackageInv, Types, request, packing
  <1>10. Packing'
    <2>1. Holds(bytes, specs, model, Layer)
      BY <1>4, <1>7 DEF Holds
    <2>2. data'[File'] = bytes
      BY <1>5, <1>8, Zenon
    <2>3. Holds(data'[File'], specs', model', Layer')
      BY <1>5, <2>1, <2>2, Zenon
    <2>4. DOMAIN data'[File'] = 0 .. AlignUp(offset)' - 1
      BY <1>6, <1>7, <2>2, Zenon
    <2>5. /\ manifest'[Dir'].status # "ok" /\ Len(specs') = Len(Nbytes[Layer'])
          /\ Len(specs') <= Len(Nbytes[Layer'])
      BY <1>1, <1>3, <1>4, <1>5
    <2>6. \A k \in DOMAIN specs' : specs'[k].offset + specs'[k].nbytes <= offset'
      BY <1>4, <1>5
    <2> QED
      BY <1>3, <2>3, <2>4, <2>5, <2>6 DEF Packing
  <1>11. ManifestDescribes'
    BY <1>3, <1>4, OthersUntouched
  <1> QED
    BY <1>9, <1>10, <1>11 DEF PackageInv

\* The manifest is truncated: it was not readable, and is not.
LEMMA OpenManifestKeeps == ASSUME PackageInv, OpenManifest PROVE PackageInv'
PROOF
  <1>1. Dir \in Dirs /\ manifest[Dir] \in Manifests
    BY PackageAt DEF PackageInv, OpenManifest
  <1>2. /\ step = "manifest" /\ step' = "write" /\ UNCHANGED <<data, request, at, packing>>
        /\ manifest' = [manifest EXCEPT ![Dir].status = "torn"]
    BY DEF OpenManifest
  <1>3. manifest' \in [Dirs -> Manifests] /\ manifest'[Dir].status # "ok"
    BY <1>1, <1>2 DEF PackageInv, Types, Manifests
  <1>4. Dir' = Dir /\ Layer' = Layer /\ File' = File
    BY <1>2 DEF request, Dir, Layer, File
  <1>5. Types'
    BY <1>2, <1>3 DEF PackageInv, Types, request, packing
  <1>6. Packing'
    <2>1. AlignUp(offset)' = AlignUp(offset)
      BY <1>2 DEF AlignUp, packing
    <2>2. manifest'[Dir'].status # "ok"
      BY <1>3, <1>4
    <2> QED
      BY <1>2, <1>4, <2>1, <2>2 DEF PackageInv, Packing, request, packing
  <1>7. ManifestDescribes'
    <2> SUFFICES ASSUME NEW d \in Dirs, manifest'[d].status = "ok"
                 PROVE  manifest'[d] = manifest[d]
      BY <1>2 DEF PackageInv, ManifestDescribes
    <2>1. d # Dir
      BY <1>3
    <2> QED
      BY <1>2, <2>1 DEF PackageInv, Types
  <1> QED
    BY <1>5, <1>6, <1>7 DEF PackageInv

\* The manifest tells what was packed.
LEMMA WriteManifestKeeps == ASSUME PackageInv, WriteManifest PROVE PackageInv'
PROOF
  <1> DEFINE new == [status |-> "ok", model |-> model, layer |-> Layer, specs |-> specs,
                     length |-> AlignUp(offset)]
  <1>1. Dir \in Dirs /\ Layer \in Layers
    BY PackageAt DEF PackageInv, WriteManifest
  <1>2. /\ step = "write" /\ step' = "load" /\ UNCHANGED <<data, request, at, packing>>
        /\ manifest' = [manifest EXCEPT ![Dir] = new]
    BY DEF WriteManifest
  <1>3. new \in Manifests
    BY <1>1, AlignUpIsNext DEF PackageInv, Types, Manifests
  <1>4. /\ new.status = "ok" /\ new.model = model /\ new.layer = Layer
        /\ new.specs = specs /\ new.length = AlignUp(offset)
    OBVIOUS
  <1> HIDE DEF new
  <1>5. Types'
    BY <1>2, <1>3 DEF PackageInv, Types, request, packing
  <1>6. Packing'
    BY <1>2 DEF Packing
  <1>7. /\ DOMAIN data[File] = 0 .. AlignUp(offset) - 1
        /\ Len(specs) = Len(Nbytes[Layer]) /\ Holds(data[File], specs, model, Layer)
    BY <1>2 DEF PackageInv, Packing
  <1>8. ManifestDescribes'
    <2> SUFFICES ASSUME NEW d \in Dirs, manifest'[d].status = "ok"
                 PROVE  LET file == data[<<d, manifest'[d].layer>>]
                        IN  /\ DOMAIN file = 0 .. manifest'[d].length - 1
                            /\ Len(manifest'[d].specs) = Len(Nbytes[manifest'[d].layer])
                            /\ Holds(file, manifest'[d].specs, manifest'[d].model,
                                     manifest'[d].layer)
      BY <1>2 DEF ManifestDescribes
    <2>1. CASE d = Dir
      <3>1. manifest'[d] = new
        BY <1>1, <1>2, <2>1 DEF PackageInv, Types
      <3>2. <<d, new.layer>> = File
        BY <1>4, <2>1 DEF File
      <3> QED
        BY <1>4, <1>7, <3>1, <3>2
    <2>2. CASE d # Dir
      <3>1. manifest'[d] = manifest[d]
        BY <1>2, <2>2 DEF PackageInv, Types
      <3> QED
        BY <3>1 DEF PackageInv, ManifestDescribes
    <2> QED
      BY <2>1, <2>2
  <1> QED
    BY <1>5, <1>6, <1>8 DEF PackageInv

------------------------------------------------------------------------------
(* The packages of all sessions, and of the scripts that stream them. *)

\* The invariant holds throughout.
LEMMA PackageInvHolds == PackageSpec => []PackageInv
PROOF
  <1>1. PackageInit => PackageInv
    <2> SUFFICES ASSUME PackageInit PROVE PackageInv
      OBVIOUS
    <2>1. NoManifest \in Manifests /\ NoManifest.status = "none"
      BY DEF NoManifest, Manifests
    <2>2. Types
      BY <2>1 DEF PackageInit, Types
    <2>3. ManifestDescribes
      BY <2>1 DEF PackageInit, ManifestDescribes
    <2> QED
      BY <2>2, <2>3 DEF PackageInit, PackageInv, Packing
  <1>2. PackageInv /\ [PackageNext]_packageVars => PackageInv'
    <2> SUFFICES ASSUME PackageInv, [PackageNext]_packageVars PROVE PackageInv'
      OBVIOUS
    <2>1. CASE UNCHANGED packageVars
      BY <2>1, StutterKeeps
    <2>2. CASE \E m \in Models, packages \in Seq(Todo) \ {<<>>} : Begin(m, packages)
      BY <2>2, BeginKeeps
    <2>3. CASE PackageStep
      BY <2>3, FindManifestKeeps, OpenDataKeeps, PackTensorKeeps, TruncateDataKeeps,
         OpenManifestKeeps, WriteManifestKeeps, LoadManifestKeeps DEF PackageStep
    <2>4. CASE Leave
      BY <2>4, LeaveKeeps
    <2> QED
      BY <2>1, <2>2, <2>3, <2>4 DEF PackageNext
  <1> QED
    BY <1>1, <1>2, PTL DEF PackageSpec

\* Whatever errors and interrupts cut the sessions short, a manifest that can be
\* read describes the data file (pack_layer writes it last, over nothing).
THEOREM PackagesDescribed == PackageSpec => []ManifestDescribes
PROOF
  <1>1. PackageInv => ManifestDescribes
    BY DEF PackageInv
  <1> QED
    BY <1>1, PackageInvHolds, PTL

\* The scripts write packages as the package module says and in no other way:
\* the threads, the retries and the ends of their sessions are steps of it.
THEOREM StreamsPackages == Spec => PackageSpec
PROOF
  <1>1. Init => PackageInit
    BY DEF Init
  <1>2. [Next]_vars => [PackageNext]_packageVars
    <2> SUFFICES ASSUME [Next]_vars PROVE PackageNext \/ UNCHANGED packageVars
      OBVIOUS
    <2>1. CASE StartSession
      <3>1. PICK m \in Models, packages \in Requests : Begin(m, packages)
        BY <2>1 DEF StartSession
      <3>2. packages \in Seq(Todo) \ {<<>>}
        <4>1. CASE script = "three"
          BY <4>1, StreamAssumption DEF Requests
        <4>2. CASE script # "three"
          <5>1. PICK package \in OnePackage : packages = <<package>>
            BY <4>2 DEF Requests
          <5>2. package \in Todo
            BY StreamAssumption
          <5> QED
            BY <5>1, <5>2
        <4> QED
          BY <4>1, <4>2
      <3> QED
        BY <3>1, <3>2 DEF PackageNext
    <2>2. CASE Ensure
      BY <2>2 DEF Ensure, PackageNext
    <2>3. CASE Finally \/ Interrupt
      BY <2>3 DEF Finally, Interrupt, End, Unwind, PackageNext
    <2>4. CASE \/ EnsureRaises \/ PackOnly \/ Ensured \/ StartRun \/ Read \/ Stage \/ WaitReady
               \/ StorageFailed \/ H2d \/ Compute \/ Join \/ Keep \/ Report \/ ReadRaises
      BY <2>4 DEF EnsureRaises, PackOnly, Ensured, StartRun, Read, Stage, WaitReady, StorageFailed,
                  H2d, Compute, Join, Keep, Report, ReadRaises, Unwind, Rest
    <2>5. CASE Worker
      BY <2>5 DEF Worker, WorkerReads, WorkerStages, WorkerStaged, WorkerAnnounces, WorkerFails,
                  WorkerReleases, WorkerEnds, WorkerRest
    <2>6. CASE UNCHANGED vars
      BY <2>6 DEF vars
    <2> QED
      BY <2>1, <2>2, <2>3, <2>4, <2>5, <2>6 DEF Next, Main
  <1> QED
    BY <1>1, <1>2, PTL DEF Spec, PackageSpec

\* So what a session of either script finds is complete, or is not read at all.
THEOREM StreamManifestsDescribe == Spec => []ManifestDescribes
PROOF
  BY PackagesDescribed, StreamsPackages, PTL

------------------------------------------------------------------------------
(* The threads of a session. *)

Active == {"start", "read", "stage", "h2d", "compute", "wait", "join", "keep", "report"}
AtPackage == {"read", "stage", "h2d", "compute", "wait"}
WorkerLives == wpc \notin {"off", "done"}
Outputs == {WeightsOf(m, l) : m \in Models, l \in Layers}

\* A buffer has the bytes of a package, whatever else it has.
Agrees(buffer, p) ==
    \A b \in DOMAIN Bytes(p) : b \in DOMAIN buffer /\ buffer[b] = Bytes(p)[b]

StreamTypes ==
    /\ i \in Nat \ {0} /\ wi \in Nat \ {0}
    /\ DOMAIN pinned = 0 .. Len(Packages) /\ DOMAIN device = 0 .. Len(Packages)
    /\ output \in Seq(Outputs)
    /\ pc \in Active \cup {"off", "ensure", "finally"}
    /\ wpc \in {"off", "read", "stage", "staging", "close", "failed", "done"}
    /\ pc # "off" => Len(todo) <= Len(Packages)

\* The packages that were passed have a manifest; nothing is written while a
\* thread reads.
LoadedInv ==
    /\ pc = "off" <=> step = "idle"
    /\ pc \in Active \/ WorkerLives \/ output # <<>> => step = "loaded"
    /\ pc \in {"off", "ensure"} => output = <<>>
    /\ step # "idle" => \A p \in 1 .. at - 1 : Manifest(p).status = "ok"
    /\ step = "loaded" => \A p \in DOMAIN todo : Manifest(p).status = "ok"

\* The main thread is at a package when it has computed those before.
MainInv ==
    /\ pc \in AtPackage => Len(output) = i - 1 /\ i <= Len(todo)
    /\ pc = "wait" => Overlapped
    /\ pc \in {"read", "stage"} => ~Overlapped
    /\ pc = "stage" => host = Bytes(i)
    /\ pc = "h2d" => Agrees(pinned[PinnedSlot], i)
    /\ pc = "compute" => Agrees(device[DeviceSlot], i)

\* The worker is the one of this run, or nobody waits for it any more. It is
\* behind what it has announced, unless it failed.
WorkerInv ==
    /\ WorkerLives => pc = "finally" \/ (Overlapped /\ pc \in {"wait", "h2d", "compute", "join"})
    /\ wpc \in {"stage", "staging", "close"} => wi <= Len(todo)
    /\ wpc \in {"stage", "staging"} => whost = Bytes(wi)
    /\ wpc = "close" => Agrees(pinned[wi], wi)
    /\ wpc = "failed" => errors
    /\ pc \in {"h2d"} /\ Overlapped => i < wi
    /\ pc \in {"wait", "h2d", "compute"} /\ Overlapped /\ ~errors =>
        \A p \in ready : p \in 1 .. wi - 1 /\ Agrees(pinned[p], p)

StreamInv == StreamTypes /\ LoadedInv /\ MainInv /\ WorkerInv /\ ComputedOwn

------------------------------------------------------------------------------
(* Buffers and weights. *)

\* A copy into a buffer leaves all of its source there.
LEMMA CopyAgrees ==
    ASSUME NEW source, NEW old
    PROVE  \A b \in DOMAIN source :
               b \in DOMAIN CopiedInto(old, source) /\ CopiedInto(old, source)[b] = source[b]
PROOF
  BY DEF CopiedInto

\* A buffer with the bytes of a package gives the weights of its layer: all the
\* tensors, each of its own bytes (assign_buffer_views).
LEMMA WeightsRight ==
    ASSUME PackageInv, NEW p \in DOMAIN todo, step # "idle", Manifest(p).status = "ok",
           NEW buffer, Agrees(buffer, p)
    PROVE  /\ Weights(buffer, Manifest(p).specs)
                  = WeightsOf(Manifest(p).model, Manifest(p).layer)
           /\ WeightsOf(Manifest(p).model, Manifest(p).layer) \in Outputs
PROOF
  <1> DEFINE found == Manifest(p)
             list == found.specs
             file == data[<<todo[p].dir, found.layer>>]
  <1>1. todo[p] \in Todo
    BY DEF PackageInv, Types
  <1>2. todo[p].dir \in Dirs /\ found \in Manifests
    BY <1>1 DEF PackageInv, Types, Todo, Manifest
  <1>3. /\ found.model \in Models /\ found.layer \in Layers /\ list \in Seq(Spans)
        /\ Nbytes[found.layer] \in Seq(Nat \ {0})
    <2>1. ASSUME NEW x \in Manifests
          PROVE  x.model \in Models /\ x.layer \in Layers /\ x.specs \in Seq(Spans)
      BY DEF Manifests
    <2> QED
      BY <1>2, <2>1
  <1>4. Len(list) = Len(Nbytes[found.layer]) /\ Holds(file, list, found.model, found.layer)
    BY <1>2 DEF PackageInv, ManifestDescribes, Manifest
  <1>5. DOMAIN list = DOMAIN Nbytes[found.layer]
    BY <1>3, <1>4
  <1>6. file = Bytes(p)
    BY DEF Bytes
  <1> HIDE DEF list, file, found
  <1>7. ASSUME NEW k \in DOMAIN list
        PROVE  {IF b \in DOMAIN buffer THEN buffer[b] ELSE Zero : b \in Extent(list[k])}
                   = {<<found.model, found.layer, k>>}
    <2>1. list[k] \in Spans
      BY <1>3
    <2>2. list[k].offset \in Extent(list[k])
      BY <2>1 DEF Extent, Spans
    <2>3. ASSUME NEW b \in Extent(list[k])
          PROVE  b \in DOMAIN buffer /\ buffer[b] = <<found.model, found.layer, k>>
      BY <1>4, <1>6 DEF Holds, Agrees
    <2> QED
      BY <2>2, <2>3
  <1>8. Weights(buffer, list) = WeightsOf(found.model, found.layer)
    BY <1>5, <1>7 DEF Weights, WeightsOf
  <1>9. WeightsOf(found.model, found.layer) \in Outputs
    BY <1>3 DEF Outputs
  <1> QED
    BY <1>8, <1>9 DEF list, found

------------------------------------------------------------------------------
(* Sessions and packages. *)

\* A session starts with nothing computed and no worker.
LEMMA StartSessionKeeps == ASSUME StreamInv, PackageInv', StartSession PROVE StreamInv'
PROOF
  <1>1. /\ pc = "off" /\ pc' = "ensure" /\ step' = "check" /\ at' = 1
        /\ UNCHANGED <<script, i, host, pinned, device, output, wpc, wi, whost, errors, ready>>
    BY DEF StartSession, Begin, memory, workerVars
  <1>2. Len(todo') <= Len(Packages)
    <2>1. PICK m \in Models, packages \in Requests : todo' = packages
      BY DEF StartSession, Begin
    <2>2. Packages \in Seq(Todo) /\ Len(Packages) >= 1
      BY StreamAssumption
    <2>3. CASE script = "three"
      BY <2>1, <2>2, <2>3 DEF Requests
    <2>4. CASE script # "three"
      <3>1. PICK package \in OnePackage : todo' = <<package>>
        BY <2>1, <2>4 DEF Requests
      <3> QED
        BY <2>2, <3>1
    <2> QED
      BY <2>3, <2>4
  <1>3. StreamTypes'
    BY <1>1, <1>2 DEF StreamInv, StreamTypes
  <1>4. LoadedInv'
    BY <1>1 DEF StreamInv, LoadedInv, WorkerLives, Active
  <1>5. MainInv' /\ WorkerInv'
    BY <1>1 DEF StreamInv, LoadedInv, MainInv, WorkerInv, WorkerLives, AtPackage
  <1>6. ComputedOwn'
    BY <1>1 DEF StreamInv, LoadedInv, ComputedOwn
  <1> QED
    BY <1>3, <1>4, <1>5, <1>6 DEF StreamInv

\* A manifest that could be read is not written again.
LEMMA EnsureKeeps == ASSUME StreamInv, PackageInv, PackageInv', Ensure PROVE StreamInv'
PROOF
  <1>1. /\ pc = "ensure" /\ PackageStep
        /\ UNCHANGED <<script, pc, i, host, pinned, device, output, wpc, wi, whost, errors, ready>>
    BY DEF Ensure, mainVars, workerVars
  <1>2. output = <<>> /\ ~WorkerLives /\ step # "idle"
    BY <1>1 DEF StreamInv, LoadedInv, WorkerInv, WorkerLives, Active
  <1>3. todo' = todo /\ step' # "idle"
    BY <1>1 DEF PackageStep, FindManifest, OpenData, PackTensor, PackTensorAt, TruncateData,
       OpenManifest, WriteManifest, LoadManifest, request
  <1>4. \A d \in Dirs : manifest[d].status = "ok" => manifest'[d].status = "ok"
    <2>1. CASE UNCHANGED manifest
      BY <2>1
    <2>2. CASE OpenManifest
      <3>1. manifest[Dir].status # "ok"
        BY <2>2 DEF PackageInv, Packing, OpenManifest
      <3> QED
        BY <2>2, <3>1 DEF PackageInv, Types, OpenManifest
    <2>3. CASE WriteManifest
      BY <2>3 DEF PackageInv, Types, WriteManifest
    <2> QED
      BY <1>1, <2>1, <2>2, <2>3 DEF PackageStep, FindManifest, OpenData, PackTensor, PackTensorAt,
         TruncateData, LoadManifest, disk
  <1>5. \A p \in DOMAIN todo : todo[p].dir \in Dirs
    <2>1. ASSUME NEW p \in DOMAIN todo PROVE todo[p] \in Todo
      BY DEF PackageInv, Types
    <2> QED
      BY <2>1 DEF Todo
  <1>6. \A p \in DOMAIN todo : Manifest(p).status = "ok" => Manifest(p)'.status = "ok"
    BY <1>3, <1>4, <1>5 DEF Manifest
  <1>7. at \in 1 .. Len(todo) /\ todo \in Seq(Todo) /\ DOMAIN todo = 1 .. Len(todo)
    BY <1>2 DEF PackageInv, Types
  <1>8. \A p \in 1 .. at - 1 : Manifest(p)'.status = "ok"
    BY <1>2, <1>6, <1>7 DEF StreamInv, LoadedInv
  <1>9. CASE LoadManifest
    <2>1. manifest[Dir].status = "ok" /\ manifest' = manifest
      BY <1>9 DEF LoadManifest, Accepted, disk
    <2>2. ASSUME NEW p \in 1 .. at, p = at PROVE Manifest(p)'.status = "ok"
      BY <1>3, <2>1, <2>2 DEF Manifest, Dir
    <2>3. ASSUME NEW p \in 1 .. at PROVE Manifest(p)'.status = "ok"
      <3>1. CASE p = at
        BY <2>2, <3>1
      <3>2. CASE p # at
        BY <1>7, <1>8, <3>2
      <3> QED
        BY <3>1, <3>2
    <2>4. \/ step' = "loaded" /\ at' = at /\ at = Len(todo)
          \/ step' = "check" /\ at' = at + 1
      BY <1>9 DEF LoadManifest
    <2>5. \A p \in 1 .. at' - 1 : Manifest(p)'.status = "ok"
      <3>1. at \in Nat
        BY <1>7
      <3>2. at' = at \/ at' = at + 1
        BY <2>4
      <3>3. \A p \in 1 .. at' - 1 : p \in 1 .. at
        BY <3>1, <3>2
      <3> QED
        BY <2>3, <3>3
    <2>6. step' = "loaded" => \A p \in DOMAIN todo' : Manifest(p)'.status = "ok"
      BY <1>3, <1>7, <2>3, <2>4
    <2> QED
      BY <1>1, <1>2, <1>3, <2>5, <2>6 DEF StreamInv, StreamTypes, LoadedInv, MainInv, WorkerInv,
         ComputedOwn, WorkerLives, Active, AtPackage
  <1>10. CASE ~LoadManifest
    <2>1. at' = at /\ step' # "loaded"
      BY <1>1, <1>10 DEF PackageStep, FindManifest, OpenData, PackTensor, PackTensorAt,
         TruncateData, OpenManifest, WriteManifest
    <2> QED
      BY <1>1, <1>2, <1>3, <1>8, <2>1 DEF StreamInv, StreamTypes, LoadedInv, MainInv, WorkerInv,
         ComputedOwn, WorkerLives, Active, AtPackage
  <1> QED
    BY <1>9, <1>10

\* Leaving the try: nothing but the place of the main thread changes.
LEMMA UnwindKeeps ==
    ASSUME StreamInv, pc \notin {"off", "finally"}, NEW reason, Unwind(reason),
           UNCHANGED workerVars
    PROVE  StreamInv'
PROOF
  <1>1. /\ pc' = "finally"
        /\ UNCHANGED <<data, manifest, step, todo, at, i, host, pinned, device, output,
                       wpc, wi, whost, errors, ready>>
    BY DEF Unwind, workerVars, packageVars, disk, request
  <1>2. StreamTypes' /\ LoadedInv'
    BY <1>1 DEF StreamInv, StreamTypes, LoadedInv, WorkerLives, Active, Manifest
  <1>3. MainInv' /\ WorkerInv'
    BY <1>1 DEF StreamInv, MainInv, WorkerInv, WorkerLives, AtPackage, Agrees, Bytes, Manifest
  <1>4. ComputedOwn'
    BY <1>1 DEF StreamInv, ComputedOwn, Manifest
  <1> QED
    BY <1>2, <1>3, <1>4 DEF StreamInv

\* The end of the process.
LEMMA EndKeeps == ASSUME StreamInv, PackageInv, NEW written, End(written) PROVE StreamInv'
PROOF
  <1>1. /\ pc' = "off" /\ step' = "idle" /\ i' = 1 /\ wi' = 1 /\ output' = <<>>
        /\ wpc' = "off" /\ pinned' = Fresh /\ device' = Fresh
    BY DEF End, Leave
  <1>2. StreamTypes'
    BY <1>1 DEF StreamTypes, Fresh
  <1>3. LoadedInv' /\ MainInv' /\ WorkerInv' /\ ComputedOwn'
    BY <1>1 DEF LoadedInv, MainInv, WorkerInv, ComputedOwn, WorkerLives, Active, AtPackage
  <1> QED
    BY <1>2, <1>3 DEF StreamInv

------------------------------------------------------------------------------
(* The main thread. *)

\* What a step leaves that writes no file and begins no run.
Settled == UNCHANGED <<data, manifest, step, todo, at, script, run>>

\* Such a step changes neither the packages nor the variant of the run.
LEMMA SettledKeeps ==
    ASSUME Settled
    PROVE  /\ Overlapped' = Overlapped
           /\ ComputedOwn /\ output' = output /\ (pc # "off" \/ pc' = "off") => ComputedOwn'
PROOF
  BY DEF Settled, Overlapped, Variant, Variants, Runs, ComputedOwn, Manifest

\* A step of the main thread leaves the worker's promises, if it stays where the
\* worker may be.
LEMMA WorkerUntouched ==
    ASSUME WorkerInv, Settled, UNCHANGED <<pinned, wpc, wi, whost, errors, ready>>,
           WorkerLives => \/ pc' = "finally"
                          \/ Overlapped /\ pc' \in {"wait", "h2d", "compute", "join"},
           pc' = "h2d" /\ Overlapped => i' < wi,
           pc' \in {"wait", "h2d", "compute"} /\ Overlapped => pc \in {"wait", "h2d", "compute"}
    PROVE  WorkerInv'
PROOF
  <1>1. Overlapped' = Overlapped
    BY SettledKeeps
  <1>2. ASSUME NEW p PROVE Bytes(p)' = Bytes(p)
    BY DEF Bytes, Manifest, Settled
  <1>3. ASSUME NEW p PROVE Agrees(pinned[p], p)' <=> Agrees(pinned[p], p)
    BY <1>2 DEF Agrees
  <1>4. Agrees(pinned[wi], wi)' <=> Agrees(pinned[wi], wi)
    BY <1>2 DEF Agrees
  <1>5. whost = Bytes(wi) => whost' = Bytes(wi)'
    BY <1>2
  <1> QED
    BY <1>1, <1>3, <1>4, <1>5 DEF WorkerInv, WorkerLives, Settled

\* The packages are ready: every one has a manifest.
LEMMA EnsuredKeeps == ASSUME StreamInv, Ensured PROVE StreamInv'
PROOF
  <1>1. /\ pc = "ensure" /\ step = "loaded" /\ pc' = "start" /\ Settled
        /\ UNCHANGED <<i, pinned, device, output, workerVars>>
    BY DEF Ensured, Settled, packageVars, disk, request
  <1>2. StreamTypes' /\ LoadedInv'
    BY <1>1 DEF StreamInv, StreamTypes, LoadedInv, WorkerLives, Active, Manifest, Settled,
       workerVars
  <1>3. MainInv' /\ WorkerInv'
    BY <1>1 DEF StreamInv, MainInv, WorkerInv, LoadedInv, WorkerLives, AtPackage, workerVars
  <1> QED
    BY <1>1, <1>2, <1>3, SettledKeeps DEF StreamInv

\* A run starts at the first package, with a worker of its own if any.
LEMMA StartRunKeeps == ASSUME StreamInv, PackageInv, StartRun PROVE StreamInv'
PROOF
  <1>1. /\ pc = "start" /\ i' = 1 /\ output' = <<>> /\ Settled /\ UNCHANGED whost
        /\ pc' = IF Overlapped THEN "wait" ELSE "read"
    BY DEF StartRun, Settled, packageVars, disk, request
  <1>2. /\ pinned' = pinned \/ pinned' = Fresh
        /\ device' = device \/ device' = Fresh
    BY DEF StartRun
  <1>3. /\ Overlapped => wpc' = "read" /\ wi' = 1 /\ ready' = {}
        /\ ~Overlapped => UNCHANGED <<wpc, wi, ready>>
    BY DEF StartRun
  <1>4. step = "loaded" /\ ~WorkerLives /\ Len(todo) >= 1
    BY <1>1 DEF StreamInv, LoadedInv, WorkerInv, PackageInv, Types, Active
  <1>5. Overlapped' = Overlapped
    BY <1>1, SettledKeeps
  <1>6. StreamTypes'
    BY <1>1, <1>2, <1>3 DEF StreamInv, StreamTypes, Active, Fresh, Settled
  <1>7. LoadedInv'
    BY <1>1, <1>4 DEF StreamInv, LoadedInv, Active, Manifest, Settled
  <1>8. MainInv'
    BY <1>1, <1>4, <1>5 DEF MainInv, Settled
  <1>9. WorkerInv'
    BY <1>1, <1>3, <1>4, <1>5 DEF WorkerInv, WorkerLives
  <1>10. ComputedOwn'
    BY <1>1 DEF ComputedOwn
  <1> QED
    BY <1>6, <1>7, <1>8, <1>9, <1>10 DEF StreamInv

\* The slots of a package are in the lists of buffers.
LEMMA SlotsExist ==
    ASSUME StreamInv, PackageInv, pc \in AtPackage
    PROVE  /\ i \in 1 .. Len(todo) /\ PinnedSlot \in DOMAIN pinned /\ DeviceSlot \in DOMAIN device
           /\ i \in DOMAIN todo /\ Len(todo) \in Nat /\ step = "loaded"
PROOF
  <1>1. i \in Nat \ {0} /\ i <= Len(todo) /\ Len(todo) <= Len(Packages) /\ todo \in Seq(Todo)
    BY DEF StreamInv, StreamTypes, MainInv, AtPackage, PackageInv, Types
  <1>2. Packages \in Seq(Todo)
    BY StreamAssumption
  <1>3. i \in 1 .. Len(todo) /\ i \in DOMAIN todo /\ Len(todo) \in Nat /\ Len(Packages) \in Nat
    BY <1>1, <1>2
  <1>4. i % 2 \in {0, 1}
    BY <1>1
  <1>5. PinnedSlot \in 0 .. Len(Packages) /\ DeviceSlot \in 0 .. Len(Packages)
    BY <1>1, <1>3, <1>4 DEF PinnedSlot, DeviceSlot
  <1> QED
    BY <1>3, <1>5 DEF StreamInv, StreamTypes, LoadedInv, AtPackage, Active

\* The inline read, and the copy of what was read to the staging buffer.
LEMMA ReadKeeps == ASSUME StreamInv, Read PROVE StreamInv'
PROOF
  <1>1. /\ pc = "read" /\ pc' = "stage" /\ host' = Bytes(i) /\ Settled
        /\ UNCHANGED <<i, pinned, device, output, workerVars>>
    BY DEF Read, Rest, Settled, packageVars, disk, request
  <1>2. Overlapped' = Overlapped /\ ~Overlapped
    BY <1>1, SettledKeeps DEF StreamInv, MainInv
  <1>3. StreamTypes' /\ LoadedInv'
    BY <1>1 DEF StreamInv, StreamTypes, LoadedInv, WorkerLives, Active, Manifest, Settled,
       workerVars
  <1>4. MainInv'
    BY <1>1, <1>2 DEF StreamInv, MainInv, AtPackage, Bytes, Manifest, Settled
  <1>5. WorkerInv'
    BY <1>1, <1>2 DEF StreamInv, WorkerInv, WorkerLives, workerVars
  <1> QED
    BY <1>1, <1>3, <1>4, <1>5, SettledKeeps DEF StreamInv

\* The staging buffer then has the package, whatever was there before.
LEMMA StageKeeps == ASSUME StreamInv, PackageInv, Stage PROVE StreamInv'
PROOF
  <1>1. /\ pc = "stage" /\ pc' = "h2d" /\ Settled
        /\ pinned' = [pinned EXCEPT ![PinnedSlot] = CopiedInto(@, host)]
        /\ UNCHANGED <<i, host, device, output, workerVars>>
    BY DEF Stage, Rest, Settled, packageVars, disk, request
  <1>2. Overlapped' = Overlapped /\ ~Overlapped /\ host = Bytes(i)
    BY <1>1, SettledKeeps DEF StreamInv, MainInv
  <1>3. PinnedSlot \in DOMAIN pinned /\ PinnedSlot' = PinnedSlot
    BY <1>1, <1>2, SlotsExist DEF AtPackage, PinnedSlot
  <1>4. pinned'[PinnedSlot] = CopiedInto(pinned[PinnedSlot], Bytes(i))
    BY <1>1, <1>2, <1>3
  <1>5. Agrees(pinned[PinnedSlot], i)'
    <2>1. \A b \in DOMAIN Bytes(i) :
              b \in DOMAIN pinned'[PinnedSlot] /\ pinned'[PinnedSlot][b] = Bytes(i)[b]
      BY <1>4, CopyAgrees
    <2>2. Bytes(i)' = Bytes(i)
      BY <1>1 DEF Bytes, Manifest, Settled
    <2> QED
      BY <1>3, <2>1, <2>2 DEF Agrees
  <1>6. StreamTypes' /\ LoadedInv'
    BY <1>1 DEF StreamInv, StreamTypes, LoadedInv, WorkerLives, Active, Manifest, Settled,
       workerVars
  <1>7. MainInv'
    BY <1>1, <1>2, <1>5 DEF StreamInv, MainInv, AtPackage, Settled
  <1>8. WorkerInv'
    BY <1>1, <1>2 DEF StreamInv, WorkerInv, WorkerLives, workerVars
  <1> QED
    BY <1>1, <1>6, <1>7, <1>8, SettledKeeps DEF StreamInv

\* A package that was announced before an error is there (wait_for_storage).
LEMMA WaitReadyKeeps == ASSUME StreamInv, WaitReady PROVE StreamInv'
PROOF
  <1>1. /\ pc = "wait" /\ pc' = "h2d" /\ i \in ready /\ ~errors /\ Settled
        /\ UNCHANGED <<i, host, pinned, device, output, workerVars>>
    BY DEF WaitReady, Rest, Settled, packageVars, disk, request
  <1>2. Overlapped' = Overlapped /\ Overlapped
    BY <1>1, SettledKeeps DEF StreamInv, MainInv
  <1>3. i < wi /\ Agrees(pinned[i], i)
    <2>1. i \in 1 .. wi - 1 /\ Agrees(pinned[i], i)
      BY <1>1, <1>2 DEF StreamInv, WorkerInv
    <2>2. wi \in Nat
      BY DEF StreamInv, StreamTypes
    <2> QED
      BY <2>1, <2>2
  <1>4. Agrees(pinned[PinnedSlot], i)'
    BY <1>1, <1>2, <1>3 DEF Agrees, Bytes, Manifest, PinnedSlot, Settled
  <1>5. StreamTypes' /\ LoadedInv'
    BY <1>1 DEF StreamInv, StreamTypes, LoadedInv, WorkerLives, Active, Manifest, Settled,
       workerVars
  <1>6. MainInv'
    BY <1>1, <1>2, <1>4 DEF StreamInv, MainInv, AtPackage, Settled
  <1>7. WorkerInv'
    BY <1>1, <1>2, <1>3, WorkerUntouched DEF StreamInv, workerVars
  <1> QED
    BY <1>1, <1>5, <1>6, <1>7, SettledKeeps DEF StreamInv

\* The copy to the device takes the package that was staged.
LEMMA H2dKeeps == ASSUME StreamInv, PackageInv, H2d PROVE StreamInv'
PROOF
  <1>1. /\ pc = "h2d" /\ pc' = "compute" /\ Settled
        /\ device' = [device EXCEPT ![DeviceSlot] = CopiedInto(@, pinned[PinnedSlot])]
        /\ UNCHANGED <<i, host, pinned, output, workerVars>>
    BY DEF H2d, Rest, Settled, packageVars, disk, request
  <1>2. Overlapped' = Overlapped
    BY <1>1, SettledKeeps
  <1>3. DeviceSlot \in DOMAIN device /\ DeviceSlot' = DeviceSlot
    BY <1>1, <1>2, SlotsExist DEF AtPackage, DeviceSlot
  <1>4. Agrees(pinned[PinnedSlot], i)
    BY <1>1 DEF StreamInv, MainInv
  <1>5. device'[DeviceSlot] = CopiedInto(device[DeviceSlot], pinned[PinnedSlot])
    BY <1>1, <1>3
  <1>6. Agrees(device[DeviceSlot], i)'
    <2>1. \A b \in DOMAIN Bytes(i) :
              b \in DOMAIN device'[DeviceSlot] /\ device'[DeviceSlot][b] = Bytes(i)[b]
      BY <1>4, <1>5, CopyAgrees DEF Agrees
    <2>2. Bytes(i)' = Bytes(i)
      BY <1>1 DEF Bytes, Manifest, Settled
    <2> QED
      BY <1>3, <2>1, <2>2 DEF Agrees
  <1>7. StreamTypes' /\ LoadedInv'
    BY <1>1 DEF StreamInv, StreamTypes, LoadedInv, WorkerLives, Active, Manifest, Settled,
       workerVars
  <1>8. MainInv'
    BY <1>1, <1>2, <1>6 DEF StreamInv, MainInv, AtPackage, Settled
  <1>9. WorkerInv'
    <2>1. WorkerLives => Overlapped
      BY <1>1 DEF StreamInv, WorkerInv
    <2> QED
      BY <1>1, <2>1, WorkerUntouched DEF StreamInv, workerVars
  <1> QED
    BY <1>1, <1>7, <1>8, <1>9, SettledKeeps DEF StreamInv

\* The computation sees the weights of the package it is at.
LEMMA ComputeKeeps == ASSUME StreamInv, PackageInv, Compute PROVE StreamInv'
PROOF
  <1> DEFINE computed == Weights(device[DeviceSlot], Manifest(i).specs)
             own == WeightsOf(Manifest(i).model, Manifest(i).layer)
  <1>1. /\ pc = "compute" /\ i' = i + 1 /\ Settled /\ output' = Append(output, computed)
        /\ UNCHANGED <<host, pinned, device, workerVars>>
    BY DEF Compute, Rest, Settled, packageVars, disk, request
  <1>2. /\ i \in DOMAIN todo /\ i \in 1 .. Len(todo) /\ Len(todo) \in Nat /\ step = "loaded"
    BY <1>1, SlotsExist DEF AtPackage
  <1>3. Agrees(device[DeviceSlot], i) /\ Manifest(i).status = "ok"
    BY <1>1, <1>2 DEF StreamInv, MainInv, LoadedInv
  <1>4. computed = own /\ own \in Outputs
    BY <1>2, <1>3, WeightsRight
  <1>5. output \in Seq(Outputs) /\ Len(output) = i - 1
    BY <1>1 DEF StreamInv, StreamTypes, MainInv, AtPackage
  <1>6. /\ i < Len(todo) => pc' = IF Overlapped THEN "wait" ELSE "read"
        /\ i = Len(todo) => pc' = IF Overlapped THEN "join" ELSE "keep"
    BY <1>2 DEF Compute
  <1>7. i < Len(todo) \/ i = Len(todo)
    BY <1>2
  <1>8. Overlapped' = Overlapped
    BY <1>1, SettledKeeps
  <1>9. pc' \in {"wait", "read", "join", "keep"}
    BY <1>6, <1>7
  <1> HIDE DEF computed, own
  <1>10. /\ output' \in Seq(Outputs) /\ Len(output') = i
         /\ \A p \in DOMAIN output' : \/ p \in DOMAIN output /\ output'[p] = output[p]
                                      \/ p = i /\ output'[p] = own
    BY <1>1, <1>2, <1>4, <1>5
  <1>11. StreamTypes'
    BY <1>1, <1>2, <1>9, <1>10 DEF StreamInv, StreamTypes, Active, Settled, workerVars
  <1>12. LoadedInv'
    BY <1>1, <1>2, <1>9 DEF StreamInv, LoadedInv, Active, Manifest, Settled
  <1>13. MainInv'
    BY <1>1, <1>2, <1>6, <1>7, <1>8, <1>10 DEF MainInv, AtPackage, Settled
  <1>14. WorkerInv'
    <2>1. WorkerLives => Overlapped /\ pc' \in {"wait", "join"}
      BY <1>1, <1>6, <1>7 DEF StreamInv, WorkerInv
    <2>2. pc' = "wait" => Overlapped
      BY <1>6, <1>7
    <2> QED
      BY <1>1, <1>9, <2>1, <2>2, WorkerUntouched DEF StreamInv, workerVars
  <1>15. ComputedOwn'
    <2>1. ASSUME NEW p \in DOMAIN output'
          PROVE  output'[p] = WeightsOf(Manifest(p).model, Manifest(p).layer)
      BY <1>1, <1>10 DEF StreamInv, ComputedOwn, own
    <2>2. ASSUME NEW p PROVE Manifest(p)' = Manifest(p)
      BY <1>1 DEF Manifest, Settled
    <2> QED
      BY <2>1, <2>2 DEF ComputedOwn
  <1> QED
    BY <1>11, <1>12, <1>13, <1>14, <1>15 DEF StreamInv

\* The worker of a run that was joined is over.
LEMMA JoinKeeps == ASSUME StreamInv, Join PROVE StreamInv'
PROOF
  <1>1. /\ pc = "join" /\ pc' = "keep" /\ wpc = "done" /\ Settled
        /\ UNCHANGED <<i, host, pinned, device, output, workerVars>>
    BY DEF Join, Rest, Settled, packageVars, disk, request
  <1>2. StreamTypes' /\ LoadedInv'
    BY <1>1 DEF StreamInv, StreamTypes, LoadedInv, WorkerLives, Active, Manifest, Settled,
       workerVars
  <1>3. MainInv' /\ WorkerInv'
    BY <1>1 DEF StreamInv, MainInv, WorkerInv, WorkerLives, AtPackage, workerVars
  <1> QED
    BY <1>1, <1>2, <1>3, SettledKeeps DEF StreamInv

\* The rows are kept and judged when the run's worker is over; the next run, of
\* another variant perhaps, has none to begin with.
LEMMA KeepReportKeeps == ASSUME StreamInv, Keep \/ Report PROVE StreamInv'
PROOF
  <1>1. /\ pc \in {"keep", "report"} /\ pc' \in {"keep", "report", "start", "finally"}
        /\ pc' \in {"keep", "report"} => UNCHANGED <<script, run>>
        /\ UNCHANGED <<data, manifest, step, todo, at, i, host, pinned, device, output,
                       wpc, wi, whost, errors, ready>>
    BY DEF Keep, Report, NextRun, packageVars, disk, request, workerVars
  <1>2. ~WorkerLives
    BY <1>1 DEF StreamInv, WorkerInv
  <1>3. StreamTypes' /\ LoadedInv'
    BY <1>1 DEF StreamInv, StreamTypes, LoadedInv, WorkerLives, Active, Manifest
  <1>4. MainInv' /\ WorkerInv'
    BY <1>1, <1>2 DEF StreamInv, MainInv, WorkerInv, WorkerLives, AtPackage
  <1>5. ComputedOwn'
    BY <1>1 DEF StreamInv, ComputedOwn, Manifest
  <1> QED
    BY <1>3, <1>4, <1>5 DEF StreamInv

------------------------------------------------------------------------------
(* The storage worker. *)

\* What every step of the worker leaves.
WorkerStep ==
    /\ WorkerLives /\ wpc' # "off" /\ WorkerRest' = WorkerRest
    /\ wi' \in Nat \ {0} /\ DOMAIN pinned' = 0 .. Len(Packages)
    /\ wpc' \in {"off", "read", "stage", "staging", "close", "failed", "done"}

\* The main thread sees of the worker's step only the buffers, of which the one
\* it may copy from, or was told of, stays as it is.
LEMMA WorkerStepKeeps ==
    ASSUME StreamInv, PackageInv, WorkerStep,
           wi' >= wi,
           \A p \in 0 .. Len(Packages) : p # wi => pinned'[p] = pinned[p],
           wpc' \in {"stage", "staging", "close"} => wi' <= Len(todo),
           wpc' \in {"stage", "staging"} => whost' = Bytes(wi'),
           wpc' = "close" => Agrees(pinned'[wi'], wi'),
           wpc' = "failed" => errors',
           pc \in {"wait", "h2d", "compute"} /\ Overlapped /\ ~errors' =>
               \A p \in ready' : p \in 1 .. wi' - 1 /\ Agrees(pinned'[p], p)
    PROVE  StreamInv'
PROOF
  <1>1. /\ Settled /\ UNCHANGED <<pc, i, host, device, output>>
    BY DEF WorkerStep, WorkerRest, Settled, packageVars, disk, request
  <1>2. Overlapped' = Overlapped
    BY <1>1, SettledKeeps
  <1>3. pc = "finally" \/ (Overlapped /\ pc \in {"wait", "h2d", "compute", "join"})
    BY DEF StreamInv, WorkerInv, WorkerStep
  <1>4. ASSUME NEW p, NEW buffer
        PROVE  /\ Bytes(p)' = Bytes(p) /\ Manifest(p)' = Manifest(p)
               /\ Agrees(buffer, p) <=> \A b \in DOMAIN Bytes(p)' :
                                          b \in DOMAIN buffer /\ buffer[b] = Bytes(p)'[b]
    BY <1>1 DEF Bytes, Manifest, Agrees, Settled
  <1>5. StreamTypes'
    BY <1>1 DEF StreamInv, StreamTypes, WorkerStep, Settled
  <1>6. LoadedInv'
    BY <1>1, <1>4 DEF StreamInv, LoadedInv, WorkerStep, Settled
  <1>7. MainInv'
    <2>1. pc = "h2d" => pinned'[PinnedSlot] = pinned[PinnedSlot] /\ PinnedSlot = i
      <3>1. SUFFICES ASSUME pc = "h2d"
                     PROVE  pinned'[PinnedSlot] = pinned[PinnedSlot] /\ PinnedSlot = i
        OBVIOUS
      <3>2. i < wi /\ PinnedSlot = i
        BY <1>3, <3>1 DEF StreamInv, WorkerInv, PinnedSlot
      <3>3. /\ i <= Len(todo) /\ Len(todo) <= Len(Packages)
            /\ i \in Nat \ {0} /\ wi \in Nat \ {0}
        BY <3>1 DEF StreamInv, MainInv, StreamTypes, AtPackage
      <3>4. todo \in Seq(Todo) /\ Packages \in Seq(Todo)
        BY StreamAssumption DEF PackageInv, Types
      <3>5. i \in 0 .. Len(Packages) /\ i # wi
        BY <3>2, <3>3, <3>4
      <3> QED
        BY <3>2, <3>5
    <2>2. pc = "h2d" => Agrees(pinned[PinnedSlot], i)'
      <3>1. PinnedSlot' = PinnedSlot
        BY <1>1, <1>2 DEF PinnedSlot
      <3>2. pc = "h2d" => Agrees(pinned'[PinnedSlot], i)
        BY <2>1 DEF StreamInv, MainInv
      <3> QED
        BY <1>1, <1>4, <3>1, <3>2 DEF Agrees
    <2>3. pc = "compute" => Agrees(device[DeviceSlot], i)'
      <3>1. DeviceSlot' = DeviceSlot
        BY <1>1, <1>2 DEF DeviceSlot
      <3>2. pc = "compute" => Agrees(device[DeviceSlot], i)
        BY DEF StreamInv, MainInv
      <3> QED
        BY <1>1, <1>4, <3>1, <3>2 DEF Agrees
    <2> QED
      BY <1>1, <1>2, <1>3, <2>2, <2>3 DEF StreamInv, MainInv, AtPackage, Settled
  <1>8. WorkerInv'
    <2>1. wpc' = "close" => Agrees(pinned[wi], wi)'
      BY <1>4 DEF Agrees
    <2>2. pc \in {"wait", "h2d", "compute"} /\ Overlapped /\ ~errors' =>
              \A p \in ready' : p \in 1 .. wi' - 1 /\ \A b \in DOMAIN Bytes(p)' :
                  b \in DOMAIN pinned'[p] /\ pinned'[p][b] = Bytes(p)'[b]
      BY <1>4
    <2>3. pc = "h2d" => i < wi'
      <3>1. pc = "h2d" => i < wi
        BY <1>3 DEF StreamInv, WorkerInv
      <3> QED
        BY <3>1 DEF StreamInv, StreamTypes, WorkerStep
    <2>4. wpc' \in {"stage", "staging"} => whost' = Bytes(wi)'
      BY <1>1 DEF Bytes, Manifest, Settled
    <2> QED
      BY <1>1, <1>2, <1>3, <2>1, <2>2, <2>3, <2>4 DEF WorkerInv, WorkerLives, Agrees, Settled
  <1>9. ComputedOwn'
    BY <1>1, SettledKeeps DEF StreamInv
  <1> QED
    BY <1>5, <1>6, <1>7, <1>8, <1>9 DEF StreamInv

\* The worker's place in the packages and in the pinned buffers.
LEMMA WorkerPlace ==
    ASSUME StreamInv, PackageInv
    PROVE  /\ wi \in Nat \ {0} /\ DOMAIN pinned = 0 .. Len(Packages)
           /\ wi <= Len(todo) /\ pc # "off" => wi \in DOMAIN pinned
           /\ Len(todo) \in Nat /\ Len(Packages) \in Nat
PROOF
  <1>1. todo \in Seq(Todo) /\ Packages \in Seq(Todo)
    BY StreamAssumption DEF PackageInv, Types
  <1>2. /\ wi \in Nat \ {0} /\ DOMAIN pinned = 0 .. Len(Packages)
        /\ pc # "off" => Len(todo) <= Len(Packages)
    BY DEF StreamInv, StreamTypes
  <1> QED
    BY <1>1, <1>2

\* Reading, leaving the read, failing and ending do not touch the buffers.
LEMMA WorkerKeepsBuffers ==
    ASSUME StreamInv, PackageInv, WorkerReads \/ WorkerFails \/ WorkerReleases \/ WorkerEnds
    PROVE  StreamInv'
PROOF
  <1>1. /\ wi \in Nat \ {0} /\ DOMAIN pinned = 0 .. Len(Packages) /\ wi >= wi
        /\ wpc = "failed" => errors
        /\ pc \in {"wait", "h2d", "compute"} /\ Overlapped /\ ~errors =>
               \A p \in ready : p \in 1 .. wi - 1 /\ Agrees(pinned[p], p)
    BY WorkerPlace DEF StreamInv, WorkerInv
  <1>2. CASE WorkerReads
    <2>1. /\ WorkerStep /\ wi' = wi /\ pinned' = pinned /\ ready' = ready /\ errors' = errors
          /\ wpc' = "stage" /\ wi' <= Len(todo) /\ whost' = Bytes(wi)
      BY <1>1, <1>2 DEF WorkerReads, WorkerStep, WorkerLives
    <2> QED
      BY <1>1, <2>1, WorkerStepKeeps
  <1>3. CASE WorkerFails
    <2>1. /\ WorkerStep /\ wi' = wi /\ pinned' = pinned /\ errors' /\ wpc' = "failed"
      BY <1>1, <1>3 DEF WorkerFails, WorkerStep, WorkerLives
    <2> QED
      BY <1>1, <2>1, WorkerStepKeeps
  <1>4. CASE WorkerReleases
    <2>1. /\ WorkerStep /\ wi' = wi /\ pinned' = pinned /\ errors' = errors /\ errors
          /\ wpc' = "done"
      BY <1>1, <1>4 DEF WorkerReleases, WorkerStep, WorkerLives
    <2> QED
      BY <1>1, <2>1, WorkerStepKeeps
  <1>5. CASE WorkerEnds
    <2>1. /\ WorkerStep /\ wi' = wi /\ pinned' = pinned /\ ready' = ready /\ errors' = errors
          /\ wpc' = "done"
      BY <1>1, <1>5 DEF WorkerEnds, WorkerStep, WorkerLives
    <2> QED
      BY <1>1, <2>1, WorkerStepKeeps
  <1> QED
    BY <1>2, <1>3, <1>4, <1>5

\* The worker writes only the buffer of the package it is at, which nobody was
\* told of.
LEMMA WorkerCopiesKeep ==
    ASSUME StreamInv, PackageInv, WorkerStages \/ WorkerStaged PROVE StreamInv'
PROOF
  <1>1. WorkerLives
    BY DEF WorkerStages, WorkerStaged, WorkerLives
  <1>2. pc # "off" /\ wi <= Len(todo)
    BY <1>1 DEF StreamInv, WorkerInv, WorkerStages, WorkerStaged
  <1>3. /\ wi \in DOMAIN pinned /\ wi \in Nat \ {0} /\ wi >= wi
        /\ DOMAIN pinned = 0 .. Len(Packages)
    BY <1>2, WorkerPlace
  <1>4. /\ WorkerRest' = WorkerRest /\ UNCHANGED <<wi, whost, errors, ready>>
        /\ whost = Bytes(wi)
        /\ \/ wpc' = "staging" /\ pinned' = [pinned EXCEPT ![wi] = Garbage]
           \/ wpc' = "close" /\ pinned' = [pinned EXCEPT ![wi] = CopiedInto(@, Bytes(wi))]
    BY DEF WorkerStages, WorkerStaged, StreamInv, WorkerInv
  <1>5. /\ DOMAIN pinned' = 0 .. Len(Packages)
        /\ \A p \in 0 .. Len(Packages) : p # wi => pinned'[p] = pinned[p]
    BY <1>3, <1>4
  <1>6. WorkerStep
    BY <1>1, <1>3, <1>4, <1>5 DEF WorkerStep
  <1>7. wpc' = "close" => Agrees(pinned'[wi], wi)
    <2>1. SUFFICES ASSUME wpc' = "close" PROVE Agrees(pinned'[wi], wi)
      OBVIOUS
    <2>2. pinned'[wi] = CopiedInto(pinned[wi], Bytes(wi))
      BY <1>3, <1>4, <2>1
    <2> QED
      BY <2>2, CopyAgrees DEF Agrees
  <1>8. ASSUME pc \in {"wait", "h2d", "compute"}, Overlapped, ~errors, NEW p \in ready
        PROVE  p \in 1 .. wi - 1 /\ Agrees(pinned'[p], p)
    <2>1. p \in 1 .. wi - 1 /\ Agrees(pinned[p], p)
      BY <1>8 DEF StreamInv, WorkerInv
    <2>2. p \in 0 .. Len(Packages) /\ p # wi
      BY <1>2, <1>3, <2>1, WorkerPlace
    <2>3. pinned'[p] = pinned[p]
      BY <1>5, <2>2
    <2> QED
      BY <2>1, <2>3
  <1> QED
    BY <1>2, <1>3, <1>4, <1>5, <1>6, <1>7, <1>8, WorkerStepKeeps

\* What is announced is complete.
LEMMA WorkerAnnouncesKeeps ==
    ASSUME StreamInv, PackageInv, WorkerAnnounces PROVE StreamInv'
PROOF
  <1>1. /\ WorkerLives /\ WorkerRest' = WorkerRest /\ wpc = "close" /\ wpc' = "read"
        /\ pinned' = pinned /\ wi' = wi + 1 /\ ready' = ready \cup {wi} /\ errors' = errors
    BY DEF WorkerAnnounces, WorkerLives
  <1>2. wi \in Nat \ {0} /\ DOMAIN pinned = 0 .. Len(Packages)
    BY WorkerPlace
  <1>3. WorkerStep /\ wi' >= wi
    BY <1>1, <1>2 DEF WorkerStep
  <1>4. Agrees(pinned[wi], wi)
    BY <1>1 DEF StreamInv, WorkerInv
  <1>5. ASSUME pc \in {"wait", "h2d", "compute"}, Overlapped, ~errors, NEW p \in ready'
        PROVE  p \in 1 .. wi' - 1 /\ Agrees(pinned'[p], p)
    <2>1. CASE p = wi
      BY <1>1, <1>2, <1>4, <2>1
    <2>2. CASE p \in ready
      <3>1. p \in 1 .. wi - 1 /\ Agrees(pinned[p], p)
        BY <1>5, <2>2 DEF StreamInv, WorkerInv
      <3>2. p \in 1 .. (wi + 1) - 1
        BY <1>2, <3>1
      <3> QED
        BY <1>1, <3>1, <3>2
    <2> QED
      BY <1>1, <2>1, <2>2
  <1> QED
    BY <1>1, <1>3, <1>5, WorkerStepKeeps

------------------------------------------------------------------------------
(* The theorem. *)

\* Nothing is computed before a session starts.
LEMMA InitKeeps == Init => StreamInv
PROOF
  <1> SUFFICES ASSUME Init PROVE StreamInv
    OBVIOUS
  <1>1. /\ pc = "off" /\ i = 1 /\ wi = 1 /\ wpc = "off" /\ output = <<>>
        /\ pinned = Fresh /\ device = Fresh /\ step = "idle"
    BY DEF Init, PackageInit
  <1>2. StreamTypes
    BY <1>1 DEF StreamTypes, Fresh
  <1>3. LoadedInv /\ MainInv /\ WorkerInv /\ ComputedOwn
    BY <1>1 DEF LoadedInv, MainInv, WorkerInv, ComputedOwn, WorkerLives, Active, AtPackage
  <1> QED
    BY <1>2, <1>3 DEF StreamInv

\* Every step of every thread keeps the invariant.
LEMMA NextKeeps ==
    ASSUME StreamInv, PackageInv, PackageInv', [Next]_vars PROVE StreamInv'
PROOF
  <1>1. CASE StartSession
    BY <1>1, StartSessionKeeps
  <1>2. CASE Ensure
    BY <1>2, EnsureKeeps
  <1>3. CASE EnsureRaises \/ PackOnly \/ StorageFailed \/ ReadRaises
    <2>1. PICK reason \in {"traceback", "complete"} : Unwind(reason)
      BY <1>3 DEF EnsureRaises, PackOnly, StorageFailed, ReadRaises
    <2>2. pc \notin {"off", "finally"} /\ UNCHANGED workerVars
      BY <1>3 DEF EnsureRaises, PackOnly, StorageFailed, ReadRaises
    <2> QED
      BY <2>1, <2>2, UnwindKeeps
  <1>4. CASE Ensured
    BY <1>4, EnsuredKeeps
  <1>5. CASE StartRun
    BY <1>5, StartRunKeeps
  <1>6. CASE Read \/ Stage \/ WaitReady \/ H2d
    BY <1>6, ReadKeeps, StageKeeps, WaitReadyKeeps, H2dKeeps
  <1>7. CASE Compute \/ Join \/ Keep \/ Report
    BY <1>7, ComputeKeeps, JoinKeeps, KeepReportKeeps
  <1>8. CASE Finally
    BY <1>8, EndKeeps DEF Finally
  <1>9. CASE Worker
    BY <1>9, WorkerKeepsBuffers, WorkerCopiesKeep, WorkerAnnouncesKeeps DEF Worker
  <1>10. CASE Interrupt
    <2>1. CASE pc \notin {"off", "finally"} /\ Unwind("interrupted") /\ UNCHANGED workerVars
      BY <2>1, UnwindKeeps
    <2>2. CASE \E n \in 0 .. Len(rows) : End(SubSeq(rows, 1, n))
      BY <2>2, EndKeeps
    <2> QED
      BY <1>10, <2>1, <2>2 DEF Interrupt
  <1>11. CASE UNCHANGED vars
    <2>1. UNCHANGED <<data, manifest, step, todo, at, script, run, pc, i, host, pinned, device,
                      output, wpc, wi, whost, errors, ready>>
      BY <1>11 DEF vars, packageVars, disk, request, mainVars, workerVars
    <2>2. StreamTypes' /\ LoadedInv'
      BY <2>1 DEF StreamInv, StreamTypes, LoadedInv, WorkerLives, Manifest
    <2>3. Settled /\ Overlapped' = Overlapped
      BY <2>1, SettledKeeps DEF Settled
    <2>4. PinnedSlot' = PinnedSlot /\ DeviceSlot' = DeviceSlot
      BY <2>1, <2>3 DEF PinnedSlot, DeviceSlot
    <2>5. MainInv'
      BY <2>1, <2>3, <2>4 DEF StreamInv, MainInv, Agrees, Bytes, Manifest
    <2>6. WorkerInv'
      <3>1. /\ WorkerLives => \/ pc = "finally"
                              \/ Overlapped /\ pc \in {"wait", "h2d", "compute", "join"}
            /\ pc = "h2d" /\ Overlapped => i < wi
        BY DEF StreamInv, WorkerInv
      <3> QED
        BY <2>1, <2>3, <3>1, WorkerUntouched DEF StreamInv
    <2>7. ComputedOwn'
      BY <2>1 DEF StreamInv, ComputedOwn, Manifest
    <2> QED
      BY <2>2, <2>5, <2>6, <2>7 DEF StreamInv
  <1> QED
    BY <1>1, <1>2, <1>3, <1>4, <1>5, <1>6, <1>7, <1>8, <1>9, <1>10, <1>11 DEF Next, Main

\* Whatever the threads' interleaving and whatever is interrupted, each layer
\* computes with the bytes of its own package (run_serial, run_storage_overlap
\* and the loop of qwen_layer_stream.py), for all packages, layers and sizes.
THEOREM LayersComputeTheirOwn == Spec => []ComputedOwn
PROOF
  <1>1. Spec => []PackageInv
    BY StreamsPackages, PackageInvHolds, PTL
  <1>2. Init => StreamInv
    BY InitKeeps
  <1>3. StreamInv /\ PackageInv /\ PackageInv' /\ [Next]_vars => StreamInv'
    BY NextKeeps
  <1>4. StreamInv => ComputedOwn
    BY DEF StreamInv
  <1> QED
    BY <1>1, <1>2, <1>3, <1>4, PTL DEF Spec

------------------------------------------------------------------------------
(* The ledger. *)

Expected == [p \in DOMAIN todo |-> WeightsOf(model, todo[p].layer)]
Kinds(s) == {s[n] : n \in DOMAIN s}
Early == Active \ {"keep", "report"}

\* Where the rows of a run begin, and the place of a row.
Before(r) == (r - 1) * Len(Parts)
InPlace(s, n) == \E k \in DOMAIN Parts : n = Before(s[n].run) + k /\ s[n].part = Parts[k]

\* The rows are those of the runs in their order, all of each finished one. Only
\* those of the run whose error is not looked at yet may be wrong, and they are
\* the last ones of a session that does not complete.
RowsInv ==
    /\ rows \in Seq(Kinds(rows)) /\ run \in Nat
    /\ \A n \in DOMAIN rows : InPlace(rows, n)
    /\ pc \in {"off", "ensure"} => run = 1
    /\ pc = "ensure" => rows = <<>>
    /\ pc \in Active => run <= Runs
    /\ pc \in Early => Len(rows) = Before(run)
    /\ pc = "keep" => Before(run) <= Len(rows) /\ Len(rows) < Before(run) + Len(Parts)
    /\ pc = "report" => Len(rows) = Before(run) + Len(Parts)
    /\ pc \in Early => \A n \in DOMAIN rows : rows[n].of = Expected
    /\ pc \in {"keep", "report"} =>
        \A n \in DOMAIN rows :
            \/ rows[n].of = Expected
            \/ rows[n].of = output /\ rows[n].run = run /\ rows[Len(rows)].run = run
    /\ pc = "finally" =>
        /\ exit \in {"complete", "traceback", "interrupted"}
        /\ exit = "complete" => rows = <<>> \/ Len(rows) = Runs * Len(Parts)
        /\ \A n \in DOMAIN rows :
            rows[n].of = Expected \/ (rows[n].run = rows[Len(rows)].run /\ exit # "complete")

LedgerInv == RowsInv /\ LedgerSound

\* LedgerSound in these terms.
LedgerOk ==
    pc = "off" /\ exit # "none" =>
        /\ exit # "cut" => ledger = rows
        /\ exit = "complete" => ledger = <<>> \/ Len(ledger) = Runs * Len(Parts)
        /\ \A n \in DOMAIN ledger :
            /\ InPlace(ledger, n)
            /\ \/ ledger[n].of = Expected
               \/ ledger[n].run = rows[Len(rows)].run /\ exit # "complete"

LEMMA LedgerSays == (LedgerSound <=> LedgerOk) /\ (LedgerSound' <=> LedgerOk')
PROOF
  <1>1. LedgerSound <=> LedgerOk
    BY DEF LedgerSound, LedgerOk, InPlace, Before, Expected
  <1>2. LedgerSound' <=> LedgerOk'
    BY DEF LedgerSound, LedgerOk, InPlace, Before, Expected
  <1> QED
    BY <1>1, <1>2

\* The rows of a run come behind those of the run before.
LEMMA NextBefore ==
    /\ Len(Parts) \in Nat \ {0} /\ DOMAIN Parts = 1 .. Len(Parts) /\ Before(1) = 0
    /\ \A r \in Nat : /\ Before(r) \in Int /\ Before(r + 1) = Before(r) + Len(Parts)
                      /\ r * Len(Parts) = Before(r) + Len(Parts)
PROOF
  <1>1. CASE script = "one"
    <2>1. Len(Parts) = 1 /\ DOMAIN Parts = 1 .. 1
      BY <1>1 DEF Parts
    <2>2. \A r \in Nat : Before(r) = r - 1
      BY <2>1 DEF Before
    <2> QED
      BY <2>1, <2>2
  <1>2. CASE script # "one"
    <2>1. Len(Parts) = 5 /\ DOMAIN Parts = 1 .. 5
      BY <1>2 DEF Parts
    <2>2. \A r \in Nat : Before(r) = 5 * r - 5
      BY <2>1 DEF Before
    <2> QED
      BY <2>1, <2>2
  <1> QED
    BY <1>1, <1>2

\* A sequence with one more element.
LEMMA AppendIsSeq ==
    ASSUME NEW s, s \in Seq(Kinds(s)), NEW x
    PROVE  /\ Append(s, x) \in Seq(Kinds(Append(s, x)))
           /\ Len(s) \in Nat /\ Len(Append(s, x)) = Len(s) + 1
           /\ \A n \in DOMAIN Append(s, x) :
                  \/ n \in DOMAIN s /\ Append(s, x)[n] = s[n]
                  \/ n = Len(s) + 1 /\ Append(s, x)[n] = x
PROOF
  <1> DEFINE S == Kinds(s) \cup {x}
             t == Append(s, x)
  <1>1. s \in Seq(S) /\ x \in S
    BY DEF Kinds
  <1> HIDE DEF S
  <1>2. /\ t \in Seq(S) /\ Len(s) \in Nat /\ Len(t) = Len(s) + 1
        /\ \A n \in DOMAIN t :
               (n \in DOMAIN s /\ t[n] = s[n]) \/ (n = Len(s) + 1 /\ t[n] = x)
    BY <1>1
  <1> HIDE DEF t
  <1>3. t \in Seq(Kinds(t))
    <2> DEFINE K == Kinds(t)
    <2>1. t = [n \in 1 .. Len(t) |-> t[n]] /\ Len(t) \in Nat
      BY <1>2
    <2>2. \A n \in 1 .. Len(t) : t[n] \in K
      <3>1. DOMAIN t = 1 .. Len(t)
        BY <1>2
      <3> QED
        BY <3>1, Zenon DEF Kinds
    <2> HIDE DEF K
    <2>3. [n \in 1 .. Len(t) |-> t[n]] \in Seq(K)
      BY <2>1, <2>2
    <2> QED
      BY <2>1, <2>3 DEF K
  <1> QED
    BY <1>2, <1>3 DEF t

\* There is at least one run.
LEMMA RunsPositive == Runs \in Nat /\ Runs >= 1
PROOF
  <1>1. Repetitions \in Nat /\ Repetitions >= 1
    BY StreamAssumption
  <1>2. Len(Variants) = 1 \/ Len(Variants) = 2
    BY DEF Variants
  <1>3. CASE Len(Variants) = 1
    <2>1. Runs = 1 * Repetitions
      BY <1>3 DEF Runs
    <2> QED
      BY <1>1, <2>1
  <1>4. CASE Len(Variants) = 2
    <2>1. Runs = 2 * Repetitions
      BY <1>4 DEF Runs
    <2> QED
      BY <1>1, <2>1
  <1> QED
    BY <1>2, <1>3, <1>4

\* What only the request and the rows decide.
LEMMA SameRequest ==
    ASSUME UNCHANGED <<model, todo, script>>
    PROVE  /\ Expected' = Expected /\ Runs' = Runs /\ Parts' = Parts
           /\ \A r : Before(r)' = Before(r)
           /\ rows' = rows => \A n : InPlace(rows, n)' = InPlace(rows, n)
           /\ ledger' = ledger => \A n : InPlace(ledger, n)' = InPlace(ledger, n)
PROOF
  BY DEF Expected, WeightsOf, Runs, Variants, Parts, Before, InPlace

\* A step that is not about rows.
LEMMA QuietKeeps ==
    ASSUME LedgerInv, UNCHANGED <<model, todo, script, rows, run, ledger, exit>>,
           \/ pc' = pc /\ (pc \in {"keep", "report"} => output' = output)
           \/ pc \in Early /\ pc' \in Early \cup {"keep"}
    PROVE  LedgerInv'
PROOF
  <1>1. RowsInv'
    <2>1. CASE pc' = pc /\ (pc \in {"keep", "report"} => output' = output)
      BY <2>1, SameRequest DEF LedgerInv, RowsInv, Active, Early
    <2>2. CASE pc \in Early /\ pc' \in Early \cup {"keep"}
      <3>1. /\ rows \in Seq(Kinds(rows)) /\ run \in Nat /\ run <= Runs
            /\ Len(rows) = Before(run) /\ \A n \in DOMAIN rows : rows[n].of = Expected
            /\ \A n \in DOMAIN rows : InPlace(rows, n)
        BY <2>2 DEF LedgerInv, RowsInv, Early
      <3>2. Before(run) <= Len(rows) /\ Len(rows) < Before(run) + Len(Parts)
        <4>1. Before(run) \in Int /\ Len(Parts) \in Nat /\ Len(Parts) # 0
          BY <3>1, NextBefore
        <4> QED
          BY <3>1, <4>1
      <3>3. Before(run)' = Before(run)
        BY DEF Before, Parts
      <3>4. /\ Expected' = Expected /\ Runs' = Runs /\ Parts' = Parts
            /\ rows' = rows /\ run' = run
            /\ \A n \in DOMAIN rows' : InPlace(rows, n)'
        BY <3>1, SameRequest
      <3>5. /\ pc' \in Active /\ pc' \notin {"off", "ensure", "report", "finally"}
            /\ pc' = "keep" \/ pc' \in Early
        BY <2>2 DEF Active, Early
      <3>6. Kinds(rows)' = Kinds(rows)
        BY <3>4 DEF Kinds
      <3> HIDE DEF Active, Early
      <3>7. pc' = "keep" =>
                Before(run)' <= Len(rows') /\ Len(rows') < Before(run)' + Len(Parts')
        BY <3>2, <3>3, <3>4
      <3>8. /\ pc' \in Early' => Len(rows') = Before(run)'
            /\ \A n \in DOMAIN rows' : rows'[n].of = Expected'
        BY <3>1, <3>3, <3>4
      <3> QED
        BY <3>1, <3>4, <3>5, <3>6, <3>7, <3>8 DEF RowsInv
    <2> QED
      BY <2>1, <2>2
  <1>2. pc' = "off" <=> pc = "off"
    BY DEF Active, Early
  <1>3. LedgerSound'
    BY <1>2, SameRequest, LedgerSays DEF LedgerInv, LedgerOk
  <1> QED
    BY <1>1, <1>3 DEF LedgerInv

\* The try of main is left with the rows that were kept.
LEMMA UnwindRows ==
    ASSUME LedgerInv, pc \in Active \cup {"ensure"}, NEW reason, Unwind(reason),
           reason \in {"traceback", "interrupted"} \/ (reason = "complete" /\ pc = "ensure")
    PROVE  LedgerInv'
PROOF
  <1>1. /\ pc' = "finally" /\ exit' = reason
        /\ UNCHANGED <<model, todo, script, rows, run>>
    BY DEF Unwind, packageVars, request
  <1>2. \A n \in DOMAIN rows :
            rows[n].of = Expected \/ (rows[n].run = rows[Len(rows)].run /\ pc # "ensure")
    BY DEF LedgerInv, RowsInv, Active, Early
  <1>3. RowsInv'
    BY <1>1, <1>2, SameRequest DEF LedgerInv, RowsInv, Active, Early
  <1> QED
    BY <1>1, <1>3 DEF LedgerInv, LedgerSound

\* What the finally clause writes: all the rows, or a part if it is interrupted.
LEMMA EndRows ==
    ASSUME LedgerInv, pc = "finally", NEW n \in 0 .. Len(rows), NEW written, End(written),
           \/ written = rows /\ exit' = exit
           \/ written = SubSeq(rows, 1, n) /\ exit' = "cut"
    PROVE  LedgerInv'
PROOF
  <1>1. /\ pc' = "off" /\ run' = 1 /\ ledger' = written
        /\ UNCHANGED <<model, todo, script, rows>>
    BY DEF End, Leave, request
  <1>2. /\ rows \in Seq(Kinds(rows)) /\ exit \in {"complete", "traceback", "interrupted"}
        /\ exit = "complete" => rows = <<>> \/ Len(rows) = Runs * Len(Parts)
        /\ \A k \in DOMAIN rows :
            /\ InPlace(rows, k)
            /\ rows[k].of = Expected \/ (rows[k].run = rows[Len(rows)].run /\ exit # "complete")
    BY DEF LedgerInv, RowsInv
  <1>3. RowsInv'
    BY <1>1, <1>2, SameRequest DEF RowsInv, Active, Early
  <1>4. \A k \in DOMAIN written : k \in DOMAIN rows /\ written[k] = rows[k]
    BY <1>2
  <1>5. \A k \in DOMAIN written :
            /\ InPlace(written, k)
            /\ \/ written[k].of = Expected
               \/ written[k].run = rows[Len(rows)].run /\ exit' # "complete"
    BY <1>2, <1>4 DEF InPlace
  <1>6. \A k \in DOMAIN written : InPlace(ledger, k)' = InPlace(written, k)
    BY <1>1, SameRequest DEF InPlace
  <1>7. LedgerSound'
    <2>1. /\ exit' # "cut" => ledger' = rows'
          /\ exit' = "complete" => ledger' = <<>> \/ Len(ledger') = Runs' * Len(Parts')
      BY <1>1, <1>2, SameRequest
    <2>2. ASSUME NEW k \in DOMAIN ledger'
          PROVE  /\ InPlace(ledger, k)'
                 /\ \/ ledger'[k].of = Expected'
                    \/ ledger'[k].run = rows'[Len(rows')].run /\ exit' # "complete"
      BY <1>1, <1>5, <1>6, SameRequest
    <2> QED
      BY <2>1, <2>2, LedgerSays DEF LedgerOk
  <1> QED
    BY <1>3, <1>7 DEF LedgerInv

\* A row of the run goes behind the rows there are, in its place.
LEMMA KeepRows == ASSUME LedgerInv, Keep PROVE LedgerInv'
PROOF
  <1> DEFINE part == Len(rows) - Before(run) + 1
             row == [run |-> run, part |-> Parts[part], of |-> output]
  <1>1. /\ pc = "keep" /\ rows' = Append(rows, row)
        /\ pc' = IF part = Len(Parts) THEN "report" ELSE "keep"
        /\ UNCHANGED <<model, todo, script, run, output>>
    BY DEF Keep, Before, packageVars, request
  <1>2. row.of = output /\ row.run = run /\ row.part = Parts[part]
    OBVIOUS
  <1>3. /\ rows \in Seq(Kinds(rows)) /\ run \in Nat /\ run <= Runs
        /\ Before(run) <= Len(rows) /\ Len(rows) < Before(run) + Len(Parts)
        /\ \A n \in DOMAIN rows :
            /\ InPlace(rows, n)
            /\ rows[n].of = Expected \/ (rows[n].of = output /\ rows[n].run = run)
    BY <1>1 DEF LedgerInv, RowsInv, Active
  <1>4. /\ Len(Parts) \in Nat /\ DOMAIN Parts = 1 .. Len(Parts) /\ Before(run) \in Int
    BY <1>3, NextBefore
  <1>5. /\ Len(rows) \in Nat /\ part \in 1 .. Len(Parts) /\ Len(rows) + 1 = Before(run) + part
    BY <1>3, <1>4
  <1> HIDE DEF row
  <1>6. /\ rows' \in Seq(Kinds(rows')) /\ Len(rows') = Len(rows) + 1
        /\ DOMAIN rows' = 1 .. Len(rows')
        /\ \A n \in DOMAIN rows' :
               (n \in DOMAIN rows /\ rows'[n] = rows[n]) \/ (n = Len(rows') /\ rows'[n] = row)
    BY <1>1, <1>3, AppendIsSeq
  <1>7. rows'[Len(rows')] = row
    BY <1>1, <1>3, <1>5
  <1>8. pc' \in {"keep", "report"} /\ (pc' = "report" <=> part = Len(Parts))
    BY <1>1
  <1> HIDE DEF part
  <1>9. \A n \in DOMAIN rows' :
            /\ InPlace(rows', n)
            /\ \/ rows'[n].of = Expected
               \/ rows'[n].of = output /\ rows'[n].run = run /\ rows'[Len(rows')].run = run
    <2> SUFFICES ASSUME NEW n \in DOMAIN rows'
                 PROVE  /\ InPlace(rows', n)
                        /\ \/ rows'[n].of = Expected
                           \/ /\ rows'[n].of = output /\ rows'[n].run = run
                              /\ rows'[Len(rows')].run = run
      OBVIOUS
    <2>1. CASE n \in DOMAIN rows /\ rows'[n] = rows[n]
      BY <1>2, <1>3, <1>7, <2>1 DEF InPlace
    <2>2. CASE n = Len(rows') /\ rows'[n] = row
      BY <1>2, <1>4, <1>5, <1>6, <1>7, <2>2 DEF InPlace
    <2> QED
      BY <1>6, <2>1, <2>2
  <1>10. /\ Expected' = Expected /\ Runs' = Runs /\ Parts' = Parts
         /\ Before(run)' = Before(run) /\ \A n : InPlace(rows, n)' = InPlace(rows', n)
    BY <1>1, SameRequest DEF InPlace, Before
  <1>11. /\ pc' \in Active /\ pc' \notin Early /\ pc' \notin {"off", "ensure", "finally"}
    BY <1>8 DEF Active, Early
  <1>12. /\ pc' = "keep" =>
                Before(run) <= Len(rows') /\ Len(rows') < Before(run) + Len(Parts)
         /\ pc' = "report" => Len(rows') = Before(run) + Len(Parts)
    <2>1. /\ Len(rows') = Before(run) + part /\ part \in Nat
          /\ 1 <= part /\ part <= Len(Parts)
      BY <1>4, <1>5, <1>6
    <2>2. /\ pc' = "report" => part = Len(Parts)
          /\ pc' = "keep" => part # Len(Parts)
      BY <1>8
    <2>3. Before(run) \in Int /\ Len(Parts) \in Nat
      BY <1>4
    <2>4. part # Len(Parts) => part < Len(Parts)
      BY <2>1, <2>3
    <2>5. pc' = "keep" => Before(run) <= Len(rows') /\ Len(rows') < Before(run) + Len(Parts)
      BY <2>1, <2>2, <2>3, <2>4
    <2> QED
      BY <2>1, <2>2, <2>5
  <1>13. RowsInv'
    <2>1. rows' \in Seq(Kinds(rows))' /\ run' \in Nat /\ run' <= Runs'
      BY <1>1, <1>3, <1>6, <1>10 DEF Kinds
    <2>2. /\ \A n \in DOMAIN rows' : InPlace(rows, n)'
          /\ \A n \in DOMAIN rows' :
              \/ rows'[n].of = Expected'
              \/ /\ rows'[n].of = output' /\ rows'[n].run = run'
                 /\ rows'[Len(rows')].run = run'
      BY <1>1, <1>9, <1>10
    <2>3. /\ pc' = "keep" =>
                Before(run)' <= Len(rows') /\ Len(rows') < Before(run)' + Len(Parts')
          /\ pc' = "report" => Len(rows') = Before(run)' + Len(Parts')
      BY <1>10, <1>12
    <2> QED
      BY <1>11, <2>1, <2>2, <2>3 DEF RowsInv
  <1> QED
    BY <1>11, <1>13 DEF LedgerInv, LedgerSound

\* The error is looked at: what goes on, or completes, was right.
LEMMA ReportRows == ASSUME LedgerInv, Report PROVE LedgerInv'
PROOF
  <1>1. /\ pc = "report"
        /\ UNCHANGED <<model, todo, script, rows, output>>
        /\ Matches => NextRun
        /\ ~Matches => pc' = "finally" /\ exit' = "traceback" /\ UNCHANGED run
    BY DEF Report, packageVars, request
  <1>2. Matches => output = Expected
    BY DEF Matches, Expected
  <1>3. /\ rows \in Seq(Kinds(rows)) /\ run \in Nat /\ run <= Runs
        /\ Len(rows) = Before(run) + Len(Parts)
        /\ \A n \in DOMAIN rows :
            /\ InPlace(rows, n)
            /\ \/ rows[n].of = Expected
               \/ rows[n].of = output /\ rows[n].run = rows[Len(rows)].run
    BY <1>1 DEF LedgerInv, RowsInv, Active
  <1>4. /\ Before(run + 1) = Before(run) + Len(Parts)
        /\ run * Len(Parts) = Before(run) + Len(Parts)
    BY <1>3, NextBefore
  <1>5. CASE Matches /\ run < Runs
    <2>1. pc' = "start" /\ run' = run + 1 /\ run' \in Nat /\ run' <= Runs
      BY <1>1, <1>3, <1>5, RunsPositive DEF NextRun
    <2>2. \A n \in DOMAIN rows : rows[n].of = Expected
      BY <1>2, <1>3, <1>5
    <2>3. Before(run)' = Before(run + 1)
      BY <1>1, <2>1, SameRequest DEF Before
    <2>4. RowsInv'
      BY <1>1, <1>3, <1>4, <2>1, <2>2, <2>3, SameRequest DEF RowsInv, Active, Early
    <2> QED
      BY <2>1, <2>4 DEF LedgerInv, LedgerSound
  <1>6. CASE Matches /\ ~(run < Runs)
    <2>1. pc' = "finally" /\ exit' = "complete" /\ run' = run /\ run = Runs
      BY <1>1, <1>3, <1>6, RunsPositive DEF NextRun
    <2>2. \A n \in DOMAIN rows : rows[n].of = Expected
      BY <1>2, <1>3, <1>6
    <2>3. RowsInv'
      BY <1>1, <1>3, <1>4, <2>1, <2>2, SameRequest DEF RowsInv, Active, Early
    <2> QED
      BY <2>1, <2>3 DEF LedgerInv, LedgerSound
  <1>7. CASE ~Matches
    <2>1. RowsInv'
      BY <1>1, <1>3, <1>7, SameRequest DEF RowsInv, Active, Early
    <2> QED
      BY <1>1, <1>7, <2>1 DEF LedgerInv, LedgerSound
  <1> QED
    BY <1>5, <1>6, <1>7

\* Every step keeps the rows and the ledger right.
LEMMA LedgerKeeps ==
    ASSUME LedgerInv, StreamInv, [Next]_vars PROVE LedgerInv'
PROOF
  <1>1. CASE StartSession
    <2>1. pc' = "ensure" /\ rows' = <<>> /\ run' = run /\ pc = "off"
      BY <1>1 DEF StartSession, memory
    <2>2. RowsInv'
      BY <2>1 DEF LedgerInv, RowsInv, Active, Early, Kinds
    <2> QED
      BY <2>1, <2>2 DEF LedgerInv, LedgerSound
  <1>2. CASE Ensure
    <2>1. pc' = pc /\ pc = "ensure" /\ UNCHANGED <<model, todo, script, rows, run, ledger, exit>>
      BY <1>2 DEF Ensure, mainVars, PackageStep, FindManifest, OpenData, PackTensor, PackTensorAt,
         TruncateData, OpenManifest, WriteManifest, LoadManifest, request
    <2> QED
      BY <2>1, QuietKeeps
  <1>3. CASE Ensured
    <2>1. /\ pc = "ensure" /\ pc' = "start"
          /\ UNCHANGED <<model, todo, script, rows, run>>
      BY <1>3 DEF Ensured, packageVars, request
    <2>2. run = 1 /\ rows = <<>> /\ Before(1) = 0
      BY <2>1, NextBefore DEF LedgerInv, RowsInv
    <2>3. RowsInv'
      BY <2>1, <2>2, SameRequest, RunsPositive DEF LedgerInv, RowsInv, Active, Early, Kinds
    <2> QED
      BY <2>1, <2>3 DEF LedgerInv, LedgerSound
  <1>4. CASE EnsureRaises \/ PackOnly \/ StorageFailed \/ ReadRaises
    BY <1>4, UnwindRows DEF EnsureRaises, PackOnly, StorageFailed, ReadRaises, Active
  <1>5. CASE StartRun \/ Read \/ Stage \/ WaitReady \/ H2d \/ Join
    BY <1>5, QuietKeeps DEF StartRun, Read, Stage, WaitReady, H2d, Join, Rest, packageVars,
       request, Active, Early
  <1>6. CASE Compute
    <2>1. pc \in Early /\ UNCHANGED <<model, todo, script, rows, run, ledger, exit>>
      BY <1>6 DEF Compute, Rest, packageVars, request, Active, Early
    <2>2. i <= Len(todo) /\ i \in Nat
      BY <1>6 DEF StreamInv, MainInv, StreamTypes, Compute, AtPackage
    <2> QED
      BY <1>6, <2>1, <2>2, QuietKeeps DEF Compute, Active, Early
  <1>7. CASE Keep \/ Report
    BY <1>7, KeepRows, ReportRows
  <1>8. CASE Finally
    BY <1>8, EndRows, AppendIsSeq DEF Finally, LedgerInv, RowsInv
  <1>9. CASE Worker
    <2>1. WorkerRest' = WorkerRest
      BY <1>9 DEF Worker, WorkerReads, WorkerStages, WorkerStaged, WorkerAnnounces, WorkerFails,
         WorkerReleases, WorkerEnds
    <2> QED
      BY <2>1, QuietKeeps DEF WorkerRest, packageVars, request
  <1>10. CASE Interrupt
    <2>1. CASE pc \notin {"off", "finally"} /\ Unwind("interrupted")
      BY <2>1, UnwindRows DEF StreamInv, StreamTypes
    <2>2. CASE pc = "finally" /\ exit' = "cut" /\ \E n \in 0 .. Len(rows) : End(SubSeq(rows, 1, n))
      BY <2>2, EndRows
    <2> QED
      BY <1>10, <2>1, <2>2 DEF Interrupt
  <1>11. CASE UNCHANGED vars
    BY <1>11, QuietKeeps DEF vars, mainVars, packageVars, request
  <1> QED
    BY <1>1, <1>2, <1>3, <1>4, <1>5, <1>6, <1>7, <1>8, <1>9, <1>10, <1>11 DEF Next, Main

\* The ledger gets the rows of the session's runs in their order, each of an
\* output equal to the model's, but for those of the last run of a session that
\* does not complete: it raises, or Ctrl+C strikes before the error is looked at
\* (the finally clauses of both mains), for all repetitions.
THEOREM LedgerGetsEveryRow == Spec => []LedgerSound
PROOF
  <1>1. Spec => []PackageInv
    BY StreamsPackages, PackageInvHolds, PTL
  <1>2. Init => StreamInv /\ LedgerInv
    <2> SUFFICES ASSUME Init PROVE LedgerInv
      BY InitKeeps
    <2>1. pc = "off" /\ run = 1 /\ rows = <<>> /\ ledger = <<>> /\ exit = "none"
      BY DEF Init
    <2> QED
      BY <2>1 DEF LedgerInv, RowsInv, LedgerSound, Active, Early, Kinds
  <1>3. StreamInv /\ LedgerInv /\ PackageInv /\ PackageInv' /\ [Next]_vars
            => StreamInv' /\ LedgerInv'
    BY NextKeeps, LedgerKeeps
  <1>4. LedgerInv => LedgerSound
    BY DEF LedgerInv
  <1> QED
    BY <1>1, <1>2, <1>3, <1>4, PTL DEF Spec

=============================================================================
