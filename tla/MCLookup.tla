-------------------------------- MODULE MCLookup --------------------------------
(* Every directory of up to three entries and every hash function into      *)
(* {0, 3, 7} is an initial state: in tables of 2, 4 and 8 buckets those     *)
(* values collide, are adjacent, or start at the last bucket.  elfrc builds *)
(* the table, then one thread looks things up in it, or without it.         *)
EXTENDS Lookup

=============================================================================
