----------------------------- MODULE MCIrqPath -----------------------------
(* Instances of IrqPath for TLC. *)
EXTENDS IrqPath, TLC

CONSTANTS t1, t2

TwoThreads == {t1, t2}

Trig(s)  == <<"trig", s>>
Wait(q)  == <<"wait", q>>
Power    == <<"power">>
Set(k, m) == <<"init", k, m>>

Conf(k, m, a, b) == [kind |-> k, mode |-> m, ops |-> (t1 :> a) @@ (t2 :> b)]

\* A PF in test mode: two threads trigger the same source and one more, and
\* wait; one of them withdraws it.
TrigPf == Conf("GPU", TRUE, {Trig(0), Wait(0), <<"clear", 0>>},
                            {Trig(0), Trig(1), Wait(0), Power})

\* A VF in test mode whose user also writes the registers.
BarVf == Conf("VGPU", TRUE, {Trig(0), Trig(1), Wait(1), <<"clear", 1>>},
                            {Trig(1), Wait(0), <<"soft", 0>>})

\* Two threads initialise the interrupts of a PF in work mode.
WorkPf == Conf("GPU", FALSE, {Set("LEGACY", FALSE), Set("DISABLE", FALSE), Trig(0)},
                             {Set("MSI", FALSE), Set("OTHER", FALSE), Wait(0)})

\* Mode switches of a VF beside a thread that raises a target by its soft bit.
SwitchVf == Conf("VGPU", FALSE, {Set("MSIX", TRUE), Set("MSIX", FALSE)},
                                {Set("MSI", TRUE), <<"soft", 1>>, Wait(1)})

\* An APU in test mode, whose interrupts are raised through the BAR only.
BarApu == Conf("APU", TRUE, {<<"raise", 0>>, <<"raise", 1>>, <<"clear", 1>>},
                            {Wait(0), <<"soft", 0>>, Trig(0), Power})

\* Two threads initialise the interrupts of an APU in work mode.
WorkApu == Conf("APU", FALSE, {Set("MSI", FALSE), <<"raise", 0>>},
                              {Set("LEGACY", FALSE), <<"clear", 0>>, Wait(0)})

SafeConfs == {TrigPf, BarVf, WorkPf, SwitchVf, BarApu, WorkApu}

\* A VF in test mode: a source per thread, and both wait for both.
TrigVf == Conf("VGPU", TRUE, {Trig(0), Wait(0), Wait(1)}, {Trig(1), Wait(1), Power})

\* A VF in work mode is initialised while sources are raised.
WorkVf == Conf("VGPU", FALSE, {Set("MSIX", FALSE), Set("DISABLE", FALSE)},
                              {Set("LEGACY", FALSE), Trig(0), Wait(1)})

LiveConfs == {TrigVf, WorkVf}

\* A PF in test mode: an initialiser beside a thread that triggers.
HangConfs == {Conf("GPU", TRUE, {Set("MSI", TRUE)}, {Trig(0), Wait(0)})}
=============================================================================
