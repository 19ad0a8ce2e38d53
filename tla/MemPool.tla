------------------------------ MODULE MemPool ------------------------------
(***************************************************************************)
(* What a range allocator promises its caller, with no word about how it   *)
(* finds a range: pages are handed out in contiguous runs that do not      *)
(* overlap, a request fails only when no run of free pages is long enough, *)
(* and a run is given back by an address that stands for it, once.         *)
(* driver/mm.c (module Vmem) is shown to implement it.                     *)
(***************************************************************************)
EXTENDS Integers

VARIABLES pool,     \* the pages of the pool, as addresses; {} when there is none
          held,     \* the runs the callers hold: [at, len]
          answer    \* the last call, its argument and what it returned

vars == <<pool, held, answer>>

\* The pages of a run that starts at page address a
RunOf(a, n, page) == {a + i * page : i \in 0..(n - 1)}

HeldPages(page) == UNION {RunOf(b.at, b.len, page) : b \in held}

FreePages(page) == pool \ HeldPages(page)

Init == pool = {} /\ held = {} /\ answer = <<"none", 0, 0>>

\* A pool is opened on some pages, or closed with everything in it
Open(n, pages) ==
  pool = {} /\ pool' = pages /\ held' = {} /\ answer' = <<"init", n, 0>>

Close == pool # {} /\ pool' = {} /\ held' = {} /\ answer' = <<"exit", 0, 0>>

Grant(n, page) ==
  \E a \in FreePages(page) :
     /\ n > 0 /\ RunOf(a, n, page) \subseteq FreePages(page)
     /\ held' = held \cup {[at |-> a, len |-> n]}
     /\ answer' = <<"alloc", n, a>>
     /\ UNCHANGED pool

Refuse(n, page) ==
  /\ \A a \in FreePages(page) :
       ~(n > 0 /\ RunOf(a, n, page) \subseteq FreePages(page))
  /\ answer' = <<"alloc", n, -1>>
  /\ UNCHANGED <<pool, held>>

\* ptr stands for the addresses alike, and for one run that starts at one of them
GiveBack(ptr, alike) ==
  \E b \in held : /\ b.at \in alike
                  /\ held' = held \ {b}
                  /\ answer' = <<"free", ptr, 0>>
                  /\ UNCHANGED pool

NotHeld(ptr, alike) ==
  /\ \A b \in held : b.at \notin alike
  /\ answer' = <<"free", ptr, -1>>
  /\ UNCHANGED <<pool, held>>
=============================================================================
