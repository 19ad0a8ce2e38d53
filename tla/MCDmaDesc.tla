----------------------------- MODULE MCDmaDesc -----------------------------
(* Instances of DmaDesc for TLC. *)
EXTENDS DmaDesc

CONSTANTS MaxSize, MaxCnt, MaxBlocks

\* Calls whose sizes are fixed by desc_cnt.
Even == [size : 1 .. MaxSize, cnt : 1 .. MaxCnt, rnd : {FALSE},
         blocks : 0 .. MaxBlocks, host : BOOLEAN]

\* Calls with random sizes.
Random == [size : 1 .. MaxSize, cnt : {0}, rnd : {TRUE},
           blocks : 0 .. MaxBlocks, host : BOOLEAN]

All == Even \cup Random
=============================================================================
