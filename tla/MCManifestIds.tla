----------------------------- MODULE MCManifestIds -----------------------------
(* ManifestIds with 8 in the place of 2^32 and 15 in that of LONG_MAX: of    *)
(* the written ids, 9 is truncated to 1, and 16 saturates and is truncated   *)
(* to 7.                                                                     *)
EXTENDS ManifestIds

=============================================================================
