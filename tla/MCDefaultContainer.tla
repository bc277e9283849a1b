--------------------------- MODULE MCDefaultContainer ---------------------------
(* DefaultContainer for three threads that behave alike.  Nothing else needs  *)
(* a bound: the globals are written once.                                     *)
EXTENDS DefaultContainer

=============================================================================
