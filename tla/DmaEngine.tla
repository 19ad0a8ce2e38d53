----------------------------- MODULE DmaEngine -----------------------------
(***************************************************************************)
(* What a dmaengine channel promises the client that submits descriptors   *)
(* to it: descriptors are issued, finished and called back in the order of *)
(* their cookies, each of them at most once, and none is called back that  *)
(* was not issued.  mt-emu-mtdma-core.c with virt-dma.c (module MtdmaChan) *)
(* is shown to implement it.                                               *)
(***************************************************************************)
EXTENDS Integers, Sequences

VARIABLES queued,     \* submitted, not yet issued
          active,     \* issued to the engine
          finished,   \* finished, the callback still to come
          called      \* called back

vars == <<queued, active, finished, called>>

Init == queued = <<>> /\ active = <<>> /\ finished = <<>> /\ called = <<>>

Submit ==
  /\ queued' = Append(queued,
                      Len(queued) + Len(active) + Len(finished) + Len(called) + 1)
  /\ UNCHANGED <<active, finished, called>>

Issue ==
  /\ active' = active \o queued /\ queued' = <<>>
  /\ UNCHANGED <<finished, called>>

Finish ==
  /\ active # <<>>
  /\ finished' = Append(finished, Head(active)) /\ active' = Tail(active)
  /\ UNCHANGED <<queued, called>>

Call ==
  /\ finished # <<>>
  /\ called' = Append(called, Head(finished)) /\ finished' = Tail(finished)
  /\ UNCHANGED <<queued, active>>

Next == Submit \/ Issue \/ Finish \/ Call

Spec == Init /\ [][Next]_vars
=============================================================================
