------------------------------- MODULE MCVmem -------------------------------
(***************************************************************************)
(* A pool of four pages of four bytes, as large as KeyHi, and an unaligned *)
(* one of seven pages, of which mm.c keeps six: more than KeyHi, so that   *)
(* its pages 0 and 4, and 1 and 5, have one key.  The addresses lie above  *)
(* KeyHi and MAKE_KEY cuts them.  Requests from one byte to six pages, and *)
(* of none.                                                                *)
(***************************************************************************)
EXTENDS Vmem

MCPools == {<<64, 16>>, <<61, 31>>}
MCSizes == {0, 3, 7, 12, 24}
=============================================================================
