--------------------------- MODULE MCLayerStream ---------------------------
(* Three packages, so that a device buffer is used twice; tensors whose      *)
(* sizes are and are not multiples of the alignment; layer 1 larger.         *)
EXTENDS LayerStream

MCNbytes == [l \in Layers |-> IF l = 1 THEN <<3, 2, 1>> ELSE <<1, 2>>]
MCPackages == [p \in 1 .. 3 |-> [dir |-> p, layer |-> p - 1]]
MCOnePackage == {[dir |-> 1, layer |-> l] : l \in {0, 1}}
MCLayers == 0 .. 2
MCDirs == 1 .. 3
=============================================================================
