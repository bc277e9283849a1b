------------------------------ MODULE MCLinkedImage ------------------------------
(* Two output paths; a prefix like any other and one so long that both its  *)
(* names are cut to the same; containers that end on a 16-byte boundary and *)
(* one byte behind one; objects of two or three blocks, so that a file may  *)
(* end in the container or in the section header table.                     *)
EXTENDS LinkedImage, TLC

MCPrefixes == {[name |-> "app", length |-> 3], [name |-> "longest", length |-> 240]}

PathSymmetry == Permutations(Paths)

=============================================================================
