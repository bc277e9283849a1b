------------------------------ MODULE MCErfReader ------------------------------
(* ErfReader on the containers of up to two resources, built from files that *)
(* stay as they are.  A damaged field holds nothing, a number of entries, an *)
(* address inside every container or one far beyond.  The two names are      *)
(* alike.                                                                    *)
EXTENDS ErfReader, TLC

CONSTANTS k1, k2

MCMetadata == {<<>>, <<<<k1, k2>>, <<k2, k2>>>>}
NameSymmetry == Permutations(Names)

=============================================================================
