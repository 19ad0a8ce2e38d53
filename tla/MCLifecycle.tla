---------------------------- MODULE MCLifecycle ----------------------------
(***************************************************************************)
(* A GPU that is probed twice, so that what the first probe lost meets the *)
(* second, with one probe of a VF; a GPU whose SR-IOV is switched between  *)
(* two probes of its VF; an APU that is probed twice.                      *)
(***************************************************************************)
EXTENDS Lifecycle

MCMachines == {[gpu |-> 2, vgpu |-> 1, apu |-> 0], [gpu |-> 1, vgpu |-> 2, apu |-> 0],
               [gpu |-> 0, vgpu |-> 0, apu |-> 2]}
=============================================================================
