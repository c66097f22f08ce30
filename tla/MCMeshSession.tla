---------------------------- MODULE MCMeshSession ----------------------------
(* Two messages of up to two fragments, one control frame, every cut.        *)
EXTENDS MeshSession

=============================================================================
