---------------------------- MODULE MCStorageConfig ----------------------------
(* Streams with one part each on this node (the parts of a stream are always     *)
(* added and removed together).                                                  *)
EXTENDS StorageConfig, TLC

MCStreamParts == [s \in Stream |-> {s}]

StreamSymmetry == Permutations(Stream)
=============================================================================
