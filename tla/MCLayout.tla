------------------------------ MODULE MCLayout ------------------------------
(* No VF, the 14 that the memory map has room for, and the 60 of this      *)
(* tree; six pages where the index wraps after four.                       *)
EXTENDS Layout
=============================================================================
