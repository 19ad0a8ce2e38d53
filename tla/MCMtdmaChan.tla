---------------------------- MODULE MCMtdmaChan ----------------------------
(***************************************************************************)
(* One thread, calls of three rounds in all, of three bursts: two chunks   *)
(* of at most two.  The engine stops with DONE or with an error, or never. *)
(***************************************************************************)
EXTENDS MtdmaChan

MCOutcomes == {{"DONE"}, {"ERR"}}
=============================================================================
