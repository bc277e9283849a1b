---------------------------- MODULE MCContainerBuild ----------------------------
(* ContainerBuild on manifests of up to two resources, with no, one or two   *)
(* metadata pairs each; every file may change once at any moment.  One of    *)
(* the texts is spelled like one of the names.                               *)
EXTENDS ContainerBuild

CONSTANTS k1, k2

MCMetadata == {<<>>, <<<<k1, k2>>>>, <<<<k1, k1>>, <<k2, k1>>>>}

=============================================================================
