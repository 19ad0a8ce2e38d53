----------------------------- MODULE MCBareDma -----------------------------
(* Instances of BareDma for TLC. *)
EXTENDS BareDma, TLC

CONSTANTS t1, t2

TwoThreads == {t1, t2}

Rd(n)     == <<"MEM_TO_DEV", n, TRUE>>
Wr(n)     == <<"DEV_TO_MEM", n, TRUE>>
Single(n) == <<"MEM_TO_MEM", n, FALSE>>

\* Two threads on one channel, one of them in single mode too.
SharedRequests == (t1 :> {Rd(0), Single(0)}) @@ (t2 :> {Rd(0)})

\* Two threads on one channel, chain mode.
ContendRequests == (t1 :> {Rd(0)}) @@ (t2 :> {Rd(0)})

\* One thread that uses both directions in turn.
OneThread == {t1}
AlternateRequests == (t1 :> {Rd(0), Wr(0)})
=============================================================================
