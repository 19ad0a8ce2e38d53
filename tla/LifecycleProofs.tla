-------------------------- MODULE LifecycleProofs --------------------------
(***************************************************************************)
(* Proofs about Lifecycle, for every machine, any number of probes and of  *)
(* open files.                                                             *)
(***************************************************************************)
EXTENDS Lifecycle, TLAPS

\* What each driver acquires, and what it holds after a probe in which only
\* steps failed whose result is ignored
Own == [gpu  |-> {"enable", "bars", "aer", "data", "irq", "misc", "comm", "dbdata", "dbregion",
                  "dbmap", "dbmisc", "bare", "mtdma", "sriov"},
        vgpu |-> {"enable", "bars", "data", "irq", "misc", "bare", "mtdma", "dmadev"},
        apu  |-> {"enable", "bars", "aer", "data", "irq", "misc"}]

Kept == [gpu  |-> {"enable", "bars", "data", "irq", "misc", "comm", "dbdata", "dbregion",
                   "dbmap", "dbmisc", "bare", "mtdma"},
         vgpu |-> {"enable", "bars", "data", "irq", "misc", "bare", "mtdma", "dmadev"},
         apu  |-> {"enable", "bars", "data", "irq", "misc"}]

Resources == {"enable", "bars", "aer", "data", "irq", "misc", "comm", "dbdata", "dbregion",
              "dbmap", "dbmisc", "bare", "mtdma", "sriov", "drvdata", "dmadev"}

StepType == [res : Resources, fail : {"return", "error", "zero", "go", "none"}]

TypeOK ==
  /\ phase \in [Fns -> {"unbound", "probe", "error", "bound", "remove", "sysfs"}]
  /\ todo \in [Fns -> Seq(StepType) \cup Seq(Resources)]
  /\ held \in [Fns -> SUBSET Resources] /\ \A f \in Fns : held[f] \subseteq Own[f]
  /\ drvdata \in [Fns -> BOOLEAN] /\ ret \in [Fns -> {0, -1}]
  /\ fds \in [Fns -> 0 .. MaxFds] /\ binds \in [Fns -> Nat]
  /\ link \in [Fns -> {"normal", "frozen", "recovering", "lost"}]
  /\ failed \in [Fns -> SUBSET Resources] /\ stray \in [Fns -> SUBSET Resources]

\* What NothingLeft lets a function keep
Lost(f) ==
  {r \in Resources :
     \/ r = "aer"
     \/ r = "dmadev" /\ f = "vgpu"
     \/ r = "dbregion" /\ "dbmap" \in failed[f]
     \/ r = "enable" /\ f = "apu" /\ failed[f] \cap {"bars", "data"} # {}
     \/ r = "bars" /\ f = "apu" /\ "data" \in failed[f]}

Clean(f) == failed[f] \subseteq {"aer", "sriov"}

Unbound(f) == ~drvdata[f] /\ held[f] \subseteq Lost(f) /\ (f = "gpu" /\ Clean(f) => fds[f] = 0)

\* The probe has done its first n steps.
Rest(s, n) == SubSeq(s, n + 1, Len(s))
DataAt == [gpu |-> 5, vgpu |-> 4, apu |-> 5]

DidSteps(f, n) ==
  /\ drvdata[f] <=> n >= DataAt[f]
  /\ \A k \in 1 .. n : \/ Probe[f][k].res \in held[f]
                       \/ Probe[f][k].res = "drvdata"
                       \/ Probe[f][k].fail = "go"
  /\ \A r \in held[f] : r \in Lost(f) \/ \E k \in 1 .. n : r = Probe[f][k].res

Probing(f) ==
  \E n \in 0 .. Len(Probe[f]) : todo[f] = Rest(Probe[f], n) /\ DidSteps(f, n)

\* No file of the GPU is open before its misc device is registered, unless an
\* earlier probe has failed.
Closed(f) == f = "gpu" /\ Clean(f) /\ ~drvdata[f] => fds[f] = 0

\* A bound function is completely set up, or its probe has failed silently.
Broken(f) == ~drvdata[f] /\ failed[f] \cap Silent # {}

Settled(f) ==
  IF drvdata[f] THEN Kept[f] \subseteq held[f]
  ELSE /\ held[f] \subseteq Devres[f] \cup Lost(f) \cup {"sriov"}
       /\ failed[f] \cap Silent # {}

\* A free function, or what is left of one: what is held is still to be
\* released here or by devres; the interrupts go first, the PF's SR-IOV before
\* them.
Left(t) == {t[k] : k \in 1 .. Len(t)}

Ordered(t) ==
  \A k, l \in 1 .. Len(t) :
     k < l => t[k] # t[l] /\ t[l] # "sriov" /\ (t[l] = "irq" => t[k] = "sriov")

Releasing(f) ==
  /\ todo[f] \in Seq(Resources) /\ Ordered(todo[f])
  /\ held[f] \subseteq Left(todo[f]) \cup Devres[f] \cup Lost(f)
  /\ drvdata[f] <=> "drvdata" \in Left(todo[f])
  /\ "irq" \in held[f] => {"data", "bars", "enable"} \subseteq held[f]
  /\ "misc" \in Left(todo[f]) =>
       /\ "misc" \in held[f] \/ failed[f] \cap {"irq", "misc"} # {}
       /\ f # "apu" => "data" \in held[f]
  /\ f # "apu" => "data" \notin Left(todo[f])
  /\ "sriov" \in Left(todo[f]) => f = "gpu" /\ phase[f] = "remove"
  /\ phase[f] = "error" /\ ret[f] = 0 => failed[f] \cap Silent # {}
  /\ f = "gpu" /\ Clean(f) => phase[f] = "remove" /\ fds[f] = 0

Switching(f) == f = "gpu" /\ Settled(f) /\ todo[f] \in {<<"sriov">>, <<>>}

FnInv(f) ==
  /\ phase[f] = "unbound" => Unbound(f)
  /\ phase[f] = "probe" => Probing(f) /\ Closed(f)
  /\ phase[f] = "bound" => Settled(f)
  /\ phase[f] = "sysfs" => Switching(f)
  /\ phase[f] \in {"error", "remove"} => Releasing(f)

SriovInv ==
  /\ "sriov" \in held["gpu"] => Kept["gpu"] \subseteq held["gpu"] \/ Broken("gpu")
  /\ phase["vgpu"] # "unbound" => "sriov" \in held["gpu"]

LInv == TypeOK /\ StraysKnown /\ (\A f \in Fns : FnInv(f)) /\ SriovInv
-----------------------------------------------------------------------------
(* The tables of the probes and of the free functions *)

LEMMA ProbeFacts ==
  ASSUME NEW f \in Fns
  PROVE  /\ Probe[f] \in Seq(StepType)
         /\ Len(Probe[f]) = (IF f = "gpu" THEN 15 ELSE IF f = "vgpu" THEN 9 ELSE 7)
<1>1. CASE f = "gpu"
  <2>1. Probe[f] = gpu_probe
    BY <1>1 DEF Probe
  <2>2. gpu_probe \in Seq(StepType) /\ Len(gpu_probe) = 15
    BY DEF gpu_probe, dmabuf_probe, emu_mtdma_init, mt_emu_vf_enable, Step, StepType, Resources
  <2> QED
    BY <1>1, <2>1, <2>2
<1>2. CASE f = "vgpu"
  <2>1. Probe[f] = vgpu_probe
    BY <1>2 DEF Probe
  <2>2. vgpu_probe \in Seq(StepType) /\ Len(vgpu_probe) = 9
    BY DEF vgpu_probe, mtdma_probe, emu_mtdma_init, Step, StepType, Resources
  <2> QED
    BY <1>2, <2>1, <2>2
<1>3. CASE f = "apu"
  <2>1. Probe[f] = apu_probe
    BY <1>3 DEF Probe
  <2>2. apu_probe \in Seq(StepType) /\ Len(apu_probe) = 7
    BY DEF apu_probe, Step, StepType, Resources
  <2> QED
    BY <1>3, <2>1, <2>2
<1> QED
  BY <1>1, <1>2, <1>3 DEF Fns

LEMMA RestFacts ==
  ASSUME NEW S, NEW s \in Seq(S), NEW n \in 0 .. Len(s)
  PROVE  /\ Rest(s, 0) = s /\ Rest(s, n) \in Seq(S)
         /\ Rest(s, n) = <<>> <=> n = Len(s)
         /\ n < Len(s) => /\ Head(Rest(s, n)) = s[n + 1]
                          /\ Tail(Rest(s, n)) = Rest(s, n + 1)
  BY DEF Rest

\* What gpu_free and the others release, in the order of the code
LEMMA FreeFacts ==
  ASSUME NEW f \in Fns, NEW h
  PROVE  /\ Free(f, h) \in Seq(Resources) /\ Ordered(Free(f, h))
         /\ Left(Free(f, h)) = CASE f = "gpu" -> {"irq", "drvdata", "misc", "bars", "enable"}
                                   \cup (IF "dbmisc" \in h THEN {"dbmisc", "dbmap", "dbregion"}
                                         ELSE {})
                                 [] f = "vgpu" -> {"irq", "drvdata", "misc"}
                                 [] OTHER -> {"irq", "data", "drvdata", "misc", "bars", "enable"}
<1>1. CASE f = "gpu" /\ "dbmisc" \in h
  <2> DEFINE s == <<"irq">> \o dmabuf_remove \o <<"drvdata", "misc", "bars", "enable">>
  <2>1. Free(f, h) = s
    BY <1>1 DEF Free, gpu_free
  <2>a. /\ s \in Seq(Resources) /\ Len(s) = 8 /\ s[1] = "irq"
        /\ s[2] = "dbmisc" /\ s[3] = "dbmap" /\ s[4] = "dbregion"
        /\ s[5] = "drvdata" /\ s[6] = "misc" /\ s[7] = "bars" /\ s[8] = "enable"
    BY DEF dmabuf_remove, Resources
  <2> HIDE DEF s
  <2>2. s \in Seq(Resources) /\ Ordered(s)
    BY <2>a DEF Ordered
  <2>3. Left(s) = {"irq", "dbmisc", "dbmap", "dbregion", "drvdata", "misc", "bars", "enable"}
    BY <2>a DEF Left
  <2> QED
    BY <1>1, <2>1, <2>2, <2>3
<1>2. CASE f = "gpu" /\ "dbmisc" \notin h
  <2> DEFINE s == <<"irq", "drvdata", "misc", "bars", "enable">>
  <2>1. Free(f, h) = s
    BY <1>2 DEF Free, gpu_free
  <2>2. s \in Seq(Resources) /\ Ordered(s)
    BY DEF Resources, Ordered
  <2>3. Left(s) = {"irq", "drvdata", "misc", "bars", "enable"}
    BY DEF Left
  <2> QED
    BY <1>2, <2>1, <2>2, <2>3
<1>3. CASE f = "vgpu"
  <2>1. Free(f, h) = vgpu_free
    BY <1>3 DEF Free
  <2>2. vgpu_free \in Seq(Resources) /\ Ordered(vgpu_free)
    BY DEF Resources, Ordered, vgpu_free
  <2>3. Left(vgpu_free) = {"irq", "drvdata", "misc"}
    BY DEF Left, vgpu_free
  <2> QED
    BY <1>3, <2>1, <2>2, <2>3
<1>4. CASE f = "apu"
  <2>1. Free(f, h) = apu_free
    BY <1>4 DEF Free
  <2>2. apu_free \in Seq(Resources) /\ Ordered(apu_free)
    BY DEF Resources, Ordered, apu_free
  <2>3. Left(apu_free) = {"irq", "data", "drvdata", "misc", "bars", "enable"}
    BY DEF Left, apu_free
  <2> QED
    BY <1>4, <2>1, <2>2, <2>3
<1> QED
  BY <1>1, <1>2, <1>3, <1>4 DEF Fns

LEMMA TailFacts ==
  ASSUME NEW t \in Seq(Resources), t # <<>>
  PROVE  /\ Head(t) \in Resources /\ Tail(t) \in Seq(Resources)
         /\ Left(t) = {Head(t)} \cup Left(Tail(t))
         /\ Ordered(t) => /\ Ordered(Tail(t))
                          /\ Head(t) \notin Left(Tail(t)) /\ "sriov" \notin Left(Tail(t))
                          /\ "irq" \in Left(Tail(t)) => Head(t) = "sriov"
<1>1. /\ Len(t) \in Nat /\ Len(t) > 0 /\ Len(Tail(t)) = Len(t) - 1 /\ Head(t) = t[1]
      /\ \A k \in 1 .. Len(t) - 1 : Tail(t)[k] = t[k + 1]
      /\ Tail(t) \in Seq(Resources) /\ t[1] \in Resources
  OBVIOUS
<1>2. Left(t) = {Head(t)} \cup Left(Tail(t))
  <2>1. ASSUME NEW k \in 1 .. Len(t) PROVE t[k] \in {Head(t)} \cup Left(Tail(t))
    <3>1. CASE k = 1
      BY <1>1, <3>1
    <3>2. CASE k # 1
      <4>1. k - 1 \in 1 .. Len(Tail(t)) /\ Tail(t)[k - 1] = t[k]
        BY <1>1, <3>2
      <4> QED
        BY <4>1 DEF Left
    <3> QED
      BY <3>1, <3>2
  <2>2. ASSUME NEW k \in 1 .. Len(Tail(t)) PROVE Tail(t)[k] \in Left(t)
    BY <1>1 DEF Left
  <2>3. Head(t) \in Left(t)
    BY <1>1 DEF Left
  <2> QED
    BY <2>1, <2>2, <2>3 DEF Left
<1>3. ASSUME Ordered(t) PROVE Ordered(Tail(t))
  <2> SUFFICES ASSUME NEW k \in 1 .. Len(Tail(t)), NEW l \in 1 .. Len(Tail(t)), k < l
               PROVE  /\ Tail(t)[k] # Tail(t)[l] /\ Tail(t)[l] # "sriov"
                      /\ Tail(t)[l] = "irq" => Tail(t)[k] = "sriov"
    BY DEF Ordered
  <2>1. k + 1 \in 1 .. Len(t) /\ l + 1 \in 1 .. Len(t) /\ k + 1 < l + 1
    BY <1>1
  <2>2. Tail(t)[k] = t[k + 1] /\ Tail(t)[l] = t[l + 1]
    BY <1>1
  <2> QED
    BY <1>3, <2>1, <2>2 DEF Ordered
<1>4. ASSUME Ordered(t), NEW k \in 1 .. Len(Tail(t))
      PROVE  Tail(t)[k] # Head(t) /\ Tail(t)[k] # "sriov" /\ (Tail(t)[k] = "irq" => Head(t) = "sriov")
  <2>1. 1 \in 1 .. Len(t) /\ k + 1 \in 1 .. Len(t) /\ 1 < k + 1
    BY <1>1
  <2> QED
    BY <1>1, <1>4, <2>1 DEF Ordered
<1> QED
  BY <1>1, <1>2, <1>3, <1>4 DEF Left

LEMMA SriovFirst ==
  ASSUME NEW s \in Seq(Resources), Ordered(s), "sriov" \notin Left(s)
  PROVE  /\ <<"sriov">> \o s \in Seq(Resources) /\ Ordered(<<"sriov">> \o s)
         /\ Left(<<"sriov">> \o s) = {"sriov"} \cup Left(s)
<1> DEFINE t == <<"sriov">> \o s
<1>1. /\ Len(s) \in Nat /\ Len(t) = Len(s) + 1 /\ t[1] = "sriov"
      /\ \A k \in 1 .. Len(s) : t[k + 1] = s[k]
  OBVIOUS
<1>2. t \in Seq(Resources)
  BY DEF Resources
<1> HIDE DEF t
<1>3. ASSUME NEW k \in 1 .. Len(t), k # 1
      PROVE  k - 1 \in 1 .. Len(s) /\ t[k] = s[k - 1]
  <2>1. k - 1 \in 1 .. Len(s) /\ (k - 1) + 1 = k
    BY <1>1, <1>3
  <2> QED
    BY <1>1, <2>1
<1>4. Ordered(t)
  <2> SUFFICES ASSUME NEW k \in 1 .. Len(t), NEW l \in 1 .. Len(t), k < l
               PROVE  t[k] # t[l] /\ t[l] # "sriov" /\ (t[l] = "irq" => t[k] = "sriov")
    BY DEF Ordered
  <2>1. l - 1 \in 1 .. Len(s) /\ t[l] = s[l - 1] /\ t[l] # "sriov"
    BY <1>3 DEF Left
  <2>2. CASE k = 1
    BY <1>1, <2>1, <2>2
  <2>3. CASE k # 1
    <3>1. k - 1 \in 1 .. Len(s) /\ t[k] = s[k - 1] /\ k - 1 < l - 1
      BY <1>3, <2>3
    <3> QED
      BY <2>1, <3>1 DEF Ordered
  <2> QED
    BY <2>2, <2>3
<1>5. Left(t) = {"sriov"} \cup Left(s)
  <2>1. ASSUME NEW k \in 1 .. Len(t) PROVE t[k] \in {"sriov"} \cup Left(s)
    BY <1>1, <1>3 DEF Left
  <2>2. ASSUME NEW k \in 1 .. Len(s) PROVE s[k] \in Left(t)
    <3>1. k + 1 \in 1 .. Len(t) /\ t[k + 1] = s[k]
      BY <1>1
    <3> QED
      BY <3>1 DEF Left
  <2>3. "sriov" \in Left(t)
    <3>1. 1 \in 1 .. Len(t)
      BY <1>1
    <3> QED
      BY <1>1, <3>1 DEF Left
  <2> QED
    BY <2>1, <2>2, <2>3 DEF Left
<1> QED
  BY <1>2, <1>4, <1>5 DEF t

LEMMA BeforeData ==
  ASSUME NEW f \in Fns, NEW r \in {"data", "bars", "enable"}
  PROVE  \E k \in 1 .. DataAt[f] : Probe[f][k].res = r /\ Probe[f][k].fail # "go"
<1>1. CASE f = "gpu"
  <2>1. /\ gpu_probe[1] = Step("enable", "return") /\ gpu_probe[2] = Step("bars", "return")
        /\ gpu_probe[4] = Step("data", "error")
    BY DEF gpu_probe, dmabuf_probe, emu_mtdma_init, mt_emu_vf_enable
  <2>2. Probe[f] = gpu_probe /\ DataAt[f] = 5
    BY <1>1 DEF Probe, DataAt
  <2> QED
    BY <2>1, <2>2 DEF Step
<1>2. CASE f = "vgpu"
  <2>1. /\ vgpu_probe[1] = Step("enable", "return") /\ vgpu_probe[2] = Step("bars", "return")
        /\ vgpu_probe[3] = Step("data", "return")
    BY DEF vgpu_probe, emu_mtdma_init, mtdma_probe
  <2>2. Probe[f] = vgpu_probe /\ DataAt[f] = 4
    BY <1>2 DEF Probe, DataAt
  <2> QED
    BY <2>1, <2>2 DEF Step
<1>3. CASE f = "apu"
  <2>1. /\ apu_probe[1] = Step("enable", "error") /\ apu_probe[2] = Step("bars", "error")
        /\ apu_probe[4] = Step("data", "error")
    BY DEF apu_probe
  <2>2. Probe[f] = apu_probe /\ DataAt[f] = 5
    BY <1>3 DEF Probe, DataAt
  <2> QED
    BY <2>1, <2>2 DEF Step
<1> QED
  BY <1>1, <1>2, <1>3 DEF Fns

\* Which steps fail with which effect, and what was acquired before them
LEMMA FailFacts ==
  ASSUME NEW f \in Fns, NEW n \in 0 .. Len(Probe[f]) - 1,
         Probe[f][n + 1].fail \in {"return", "error", "zero"}
  PROVE  LET s == Probe[f][n + 1]
         IN  /\ s.res \notin {"aer", "sriov", "drvdata"}
             /\ s.fail = "return" => n < DataAt[f]
             /\ s.fail = "zero" => s.res \in Silent
             /\ n < DataAt[f] => s.res \in {"enable", "bars", "data"}
             /\ n < DataAt[f] =>
                  \A k \in 1 .. n :
                     \/ Probe[f][k].res \in Devres[f] \cup {"aer"}
                     \/ f = "apu" /\ Probe[f][k].res = "enable" /\ s.res \in {"bars", "data"}
                     \/ f = "apu" /\ Probe[f][k].res = "bars" /\ s.res = "data"
             /\ n >= DataAt[f] =>
                  /\ \/ s.res \in {"irq", "misc"}
                     \/ \E k \in 1 .. n : Probe[f][k] = Step("misc", "error")
                  /\ \A k \in 1 .. n :
                        \/ Probe[f][k].res \in Devres[f] \cup {"aer", "irq", "drvdata", "misc"}
                        \/ f # "vgpu" /\ Probe[f][k].res \in {"bars", "enable"}
                        \/ f = "gpu" /\ s.res = "dbmap" /\ Probe[f][k].res = "dbregion"
                        \/ /\ f = "gpu" /\ s.res = "dbmisc"
                           /\ Probe[f][k].res \in {"dbregion", "dbmap"}
                        \/ /\ f = "gpu" /\ Probe[f][k].res \in {"dbregion", "dbmap", "dbmisc"}
                           /\ s.res = "mtdma"
                           /\ \E l \in 1 .. n : Probe[f][l] = Step("dbmisc", "zero")
<1>1. CASE f = "gpu"
  <2>1. Probe[f] = gpu_probe
    BY <1>1 DEF Probe
  <2>2. n \in 0 .. 14
    BY <1>1, ProbeFacts
  <2> DEFINE p == gpu_probe
  <2>3. /\ p[1] = Step("enable", "return") /\ p[2] = Step("bars", "return")
        /\ p[3] = Step("aer", "go") /\ p[4] = Step("data", "error")
        /\ p[5] = Step("drvdata", "none") /\ p[6] = Step("irq", "error")
        /\ p[7] = Step("misc", "error") /\ p[8] = Step("comm", "none")
        /\ p[9] = Step("dbdata", "zero") /\ p[10] = Step("dbregion", "zero")
        /\ p[11] = Step("dbmap", "zero") /\ p[12] = Step("dbmisc", "zero")
        /\ p[13] = Step("bare", "none") /\ p[14] = Step("mtdma", "zero")
        /\ p[15] = Step("sriov", "go")
    BY DEF gpu_probe, dmabuf_probe, emu_mtdma_init, mt_emu_vf_enable
  <2> HIDE DEF p
  <2>4. n + 1 \in {1, 2, 4, 6, 7, 9, 10, 11, 12, 14}
    BY <2>1, <2>2, <2>3 DEF Step, p
  <2>5. /\ Probe[f][n + 1].res \notin {"aer", "sriov", "drvdata"}
        /\ Probe[f][n + 1].fail = "return" => n < DataAt[f]
        /\ Probe[f][n + 1].fail = "zero" => Probe[f][n + 1].res \in Silent
    <3>1. CASE n + 1 \in {1, 2}
      BY <1>1, <2>1, <2>2, <2>3, <3>1 DEF Step, DataAt, p
    <3>2. CASE n + 1 \in {4, 6, 7}
      BY <2>1, <2>3, <3>2, SMTT(30) DEF Step, p
    <3>3. CASE n + 1 \in {9, 10, 11, 12, 14}
      BY <2>1, <2>3, <3>3, SMTT(30) DEF Step, Silent, p
    <3> QED
      BY <2>4, <3>1, <3>2, <3>3
  <2>6. DataAt[f] = 5
    BY <1>1 DEF DataAt
  <2>7. ASSUME n < 5, NEW k \in 1 .. n PROVE Probe[f][k].res \in Devres[f] \cup {"aer"}
    <3>1. k \in 1 .. 3 /\ n \in 0 .. 4
      BY <2>2, <2>4, <2>7
    <3> QED
      BY <1>1, <2>1, <2>3, <3>1, SMTT(30) DEF Step, Devres, p
  <2>a. ASSUME n < 5 PROVE Probe[f][n + 1].res \in {"enable", "bars", "data"}
    <3>1. n + 1 \in {1, 2, 4}
      BY <2>2, <2>4, <2>a
    <3> QED
      BY <2>1, <2>3, <3>1 DEF Step, p
  <2>8. ASSUME n >= 5
        PROVE  \/ Probe[f][n + 1].res \in {"irq", "misc"}
               \/ \E k \in 1 .. n : Probe[f][k] = Step("misc", "error")
    <3>1. CASE n + 1 \in {6, 7}
      BY <2>1, <2>3, <3>1 DEF Step, p
    <3>2. CASE n + 1 \notin {6, 7}
      <4>1. 7 \in 1 .. n
        BY <2>2, <2>4, <2>8, <3>2
      <4> QED
        BY <2>1, <2>3, <4>1 DEF p
    <3> QED
      BY <3>1, <3>2
  <2>10. ASSUME n >= 5, NEW k \in 1 .. n
         PROVE  \/ Probe[f][k].res \in Devres[f] \cup {"aer", "irq", "drvdata", "misc"}
                \/ Probe[f][k].res \in {"bars", "enable"}
                \/ Probe[f][n + 1].res = "dbmap" /\ Probe[f][k].res = "dbregion"
                \/ Probe[f][n + 1].res = "dbmisc" /\ Probe[f][k].res \in {"dbregion", "dbmap"}
                \/ /\ Probe[f][k].res \in {"dbregion", "dbmap", "dbmisc"}
                   /\ Probe[f][n + 1].res = "mtdma"
                   /\ \E l \in 1 .. n : Probe[f][l] = Step("dbmisc", "zero")
    <3>1. CASE k \in {10, 11, 12}
      <4>1. n + 1 \in {11, 12, 14} /\ k < n + 1
        BY <2>2, <2>4, <3>1
      <4>2. CASE n + 1 = 14
        <5>1. 12 \in 1 .. n
          BY <2>2, <4>2
        <5>2. Probe[f][12] = Step("dbmisc", "zero") /\ Probe[f][n + 1].res = "mtdma"
          BY <2>1, <2>3, <4>2 DEF Step, p
        <5>3. Probe[f][k].res \in {"dbregion", "dbmap", "dbmisc"}
          BY <2>1, <2>3, <3>1 DEF Step, p
        <5> QED
          BY <5>1, <5>2, <5>3
      <4>3. CASE n + 1 \in {11, 12}
        BY <2>1, <2>2, <2>3, <3>1, <4>1, <4>3, SMTT(30) DEF Step, p
      <4> QED
        BY <4>1, <4>2, <4>3
    <3>2. CASE k \notin {10, 11, 12}
      <4>1. k \in {1, 2, 3, 4, 5, 6, 7, 8, 9, 13}
        BY <2>2, <2>4, <3>2
      <4>2. CASE k \in {1, 2, 3, 5, 6, 7}
        BY <2>1, <2>3, <4>2 DEF Step, p
      <4>3. CASE k \in {4, 8, 9, 13}
        BY <1>1, <2>1, <2>3, <4>3 DEF Step, Devres, p
      <4> QED
        BY <4>1, <4>2, <4>3
    <3> QED
      BY <3>1, <3>2
  <2> QED
    BY <1>1, <2>5, <2>6, <2>7, <2>a, <2>8, <2>10
<1>2. CASE f = "vgpu"
  <2>1. Probe[f] = vgpu_probe
    BY <1>2 DEF Probe
  <2>2. n \in 0 .. 8
    BY <1>2, ProbeFacts
  <2> DEFINE p == vgpu_probe
  <2>3. /\ p[1] = Step("enable", "return") /\ p[2] = Step("bars", "return")
        /\ p[3] = Step("data", "return") /\ p[4] = Step("drvdata", "none")
        /\ p[5] = Step("irq", "error") /\ p[6] = Step("misc", "error")
        /\ p[7] = Step("bare", "none") /\ p[8] = Step("mtdma", "zero")
        /\ p[9] = Step("dmadev", "error")
    BY DEF vgpu_probe, emu_mtdma_init, mtdma_probe
  <2> HIDE DEF p
  <2>4. n + 1 \in {1, 2, 3, 5, 6, 8, 9}
    BY <2>1, <2>2, <2>3 DEF Step, p
  <2>5. /\ Probe[f][n + 1].res \notin {"aer", "sriov", "drvdata"}
        /\ Probe[f][n + 1].fail = "return" => n < DataAt[f]
        /\ Probe[f][n + 1].fail = "zero" => Probe[f][n + 1].res \in Silent
    BY <1>2, <2>1, <2>2, <2>3, <2>4 DEF Step, Silent, DataAt, p
  <2>6. DataAt[f] = 4
    BY <1>2 DEF DataAt
  <2>7. ASSUME n < 4, NEW k \in 1 .. n PROVE Probe[f][k].res \in Devres[f] \cup {"aer"}
    <3>1. k \in 1 .. 2 /\ n \in 0 .. 3
      BY <2>2, <2>4, <2>7
    <3> QED
      BY <1>2, <2>1, <2>3, <3>1 DEF Step, Devres, p
  <2>a. ASSUME n < 4 PROVE Probe[f][n + 1].res \in {"enable", "bars", "data"}
    <3>1. n + 1 \in {1, 2, 3}
      BY <2>2, <2>4, <2>a
    <3> QED
      BY <2>1, <2>3, <3>1 DEF Step, p
  <2>8. ASSUME n >= 4
        PROVE  \/ Probe[f][n + 1].res \in {"irq", "misc"}
               \/ \E k \in 1 .. n : Probe[f][k] = Step("misc", "error")
    <3>1. CASE n + 1 \in {5, 6}
      BY <2>1, <2>3, <3>1 DEF Step, p
    <3>2. CASE n + 1 \notin {5, 6}
      <4>1. 6 \in 1 .. n
        BY <2>2, <2>4, <2>8, <3>2
      <4> QED
        BY <2>1, <2>3, <4>1 DEF p
    <3> QED
      BY <3>1, <3>2
  <2>10. ASSUME NEW k \in 1 .. n
         PROVE  Probe[f][k].res \in Devres[f] \cup {"aer", "irq", "drvdata", "misc"}
    <3>1. k \in 1 .. 8
      BY <2>2
    <3> QED
      BY <1>2, <2>1, <2>3, <3>1 DEF Step, Devres, p
  <2> QED
    BY <1>2, <2>5, <2>6, <2>7, <2>a, <2>8, <2>10
<1>3. CASE f = "apu"
  <2>1. Probe[f] = apu_probe
    BY <1>3 DEF Probe
  <2>2. n \in 0 .. 6
    BY <1>3, ProbeFacts
  <2> DEFINE p == apu_probe
  <2>3. /\ p[1] = Step("enable", "error") /\ p[2] = Step("bars", "error")
        /\ p[3] = Step("aer", "go") /\ p[4] = Step("data", "error")
        /\ p[5] = Step("drvdata", "none") /\ p[6] = Step("irq", "error")
        /\ p[7] = Step("misc", "error")
    BY DEF apu_probe
  <2> HIDE DEF p
  <2>4. n + 1 \in {1, 2, 4, 6, 7}
    BY <2>1, <2>2, <2>3 DEF Step, p
  <2> QED
    BY <1>3, <2>1, <2>2, <2>3, <2>4 DEF Step, Silent, Devres, DataAt, p
<1> QED
  BY <1>1, <1>2, <1>3 DEF Fns

LEMMA StepFacts ==
  ASSUME NEW f \in Fns, NEW k \in 1 .. Len(Probe[f])
  PROVE  /\ Probe[f][k] \in StepType
         /\ Probe[f][k].res \in Own[f] \cup {"drvdata"}
         /\ Probe[f][k].res = "drvdata" <=> k = DataAt[f]
         /\ Probe[f][k].res = "sriov" <=> f = "gpu" /\ k = 15
         /\ Probe[f][k].fail = "go" => Probe[f][k].res \in {"aer", "sriov"}
<1>0. Probe[f][k] \in StepType
  BY ProbeFacts
<1>1. CASE f = "gpu"
  <2>1. Probe[f] = gpu_probe /\ k \in 1 .. 15
    BY <1>1, ProbeFacts DEF Probe
  <2>2. /\ gpu_probe[k].res \in Own["gpu"] \cup {"drvdata"}
        /\ gpu_probe[k].fail = "go" => gpu_probe[k].res \in {"aer", "sriov"}
    BY <2>1 DEF gpu_probe, dmabuf_probe, emu_mtdma_init, mt_emu_vf_enable, Step, Own
  <2>3. /\ gpu_probe[k].res = "drvdata" <=> k = 5
        /\ gpu_probe[k].res = "sriov" <=> k = 15
    BY <2>1 DEF gpu_probe, dmabuf_probe, emu_mtdma_init, mt_emu_vf_enable, Step
  <2> QED
    BY <1>0, <1>1, <2>1, <2>2, <2>3 DEF DataAt
<1>2. CASE f = "vgpu"
  <2>1. Probe[f] = vgpu_probe /\ k \in 1 .. 9
    BY <1>2, ProbeFacts DEF Probe
  <2>2. /\ vgpu_probe[k].res \in Own["vgpu"] \cup {"drvdata"}
        /\ vgpu_probe[k].fail = "go" => vgpu_probe[k].res \in {"aer", "sriov"}
    BY <2>1 DEF vgpu_probe, mtdma_probe, emu_mtdma_init, Step, Own
  <2>3. /\ vgpu_probe[k].res = "drvdata" <=> k = 4
        /\ vgpu_probe[k].res # "sriov"
    BY <2>1 DEF vgpu_probe, mtdma_probe, emu_mtdma_init, Step
  <2> QED
    BY <1>0, <1>2, <2>1, <2>2, <2>3 DEF DataAt
<1>3. CASE f = "apu"
  <2>1. Probe[f] = apu_probe /\ k \in 1 .. 7
    BY <1>3, ProbeFacts DEF Probe
  <2>2. /\ apu_probe[k].res \in Own["apu"] \cup {"drvdata"}
        /\ apu_probe[k].fail = "go" => apu_probe[k].res \in {"aer", "sriov"}
    BY <2>1 DEF apu_probe, Step, Own
  <2>3. /\ apu_probe[k].res = "drvdata" <=> k = 5
        /\ apu_probe[k].res # "sriov"
    BY <2>1 DEF apu_probe, Step
  <2> QED
    BY <1>0, <1>3, <2>1, <2>2, <2>3 DEF DataAt
<1> QED
  BY <1>1, <1>2, <1>3 DEF Fns

LEMMA KeptFacts ==
  ASSUME NEW f \in Fns, NEW r \in Kept[f]
  PROVE  \E k \in 1 .. (IF f = "gpu" THEN 14 ELSE Len(Probe[f])) :
           Probe[f][k].res = r /\ Probe[f][k].fail # "go" /\ r # "drvdata"
<1>1. CASE f = "gpu"
  <2> DEFINE p == gpu_probe
  <2>1. Probe[f] = gpu_probe
    BY <1>1 DEF Probe
  <2>2. /\ p[1].res = "enable" /\ p[2].res = "bars" /\ p[4].res = "data"
        /\ p[6].res = "irq" /\ p[7].res = "misc" /\ p[8].res = "comm"
        /\ p[9].res = "dbdata" /\ p[10].res = "dbregion" /\ p[11].res = "dbmap"
        /\ p[12].res = "dbmisc" /\ p[13].res = "bare" /\ p[14].res = "mtdma"
        /\ \A k \in {1, 2, 4, 6, 7, 8, 9, 10, 11, 12, 13, 14} : p[k].fail # "go"
    BY DEF gpu_probe, dmabuf_probe, emu_mtdma_init, mt_emu_vf_enable, Step
  <2> HIDE DEF p
  <2>3. \E k \in {1, 2, 4, 6, 7, 8, 9, 10, 11, 12, 13, 14} : p[k].res = r
    BY <1>1, <2>2 DEF Kept
  <2>4. r # "drvdata"
    BY <1>1 DEF Kept
  <2> QED
    BY <1>1, <2>1, <2>2, <2>3, <2>4 DEF p
<1>2. CASE f = "vgpu"
  <2> DEFINE p == vgpu_probe
  <2>1. Probe[f] = vgpu_probe /\ Len(Probe[f]) = 9
    BY <1>2, ProbeFacts DEF Probe
  <2>2. /\ p[1].res = "enable" /\ p[2].res = "bars" /\ p[3].res = "data"
        /\ p[5].res = "irq" /\ p[6].res = "misc" /\ p[7].res = "bare"
        /\ p[8].res = "mtdma" /\ p[9].res = "dmadev"
        /\ \A k \in {1, 2, 3, 5, 6, 7, 8, 9} : p[k].fail # "go"
    BY DEF vgpu_probe, mtdma_probe, emu_mtdma_init, Step
  <2> HIDE DEF p
  <2>3. \E k \in {1, 2, 3, 5, 6, 7, 8, 9} : p[k].res = r
    BY <1>2, <2>2 DEF Kept
  <2>4. r # "drvdata"
    BY <1>2 DEF Kept
  <2> QED
    BY <1>2, <2>1, <2>2, <2>3, <2>4 DEF p
<1>3. CASE f = "apu"
  <2> DEFINE p == apu_probe
  <2>1. Probe[f] = apu_probe /\ Len(Probe[f]) = 7
    BY <1>3, ProbeFacts DEF Probe
  <2>2. /\ p[1].res = "enable" /\ p[2].res = "bars" /\ p[4].res = "data"
        /\ p[6].res = "irq" /\ p[7].res = "misc"
        /\ \A k \in {1, 2, 4, 6, 7} : p[k].fail # "go"
    BY DEF apu_probe, Step
  <2> HIDE DEF p
  <2>3. \E k \in {1, 2, 4, 6, 7} : p[k].res = r
    BY <1>3, <2>2 DEF Kept
  <2>4. r # "drvdata"
    BY <1>3 DEF Kept
  <2> QED
    BY <1>3, <2>1, <2>2, <2>3, <2>4 DEF p
<1> QED
  BY <1>1, <1>2, <1>3 DEF Fns
\* The interrupts and the misc device come after drvdata.
LEMMA AfterData ==
  ASSUME NEW f \in Fns, NEW n \in 0 .. Len(Probe[f]), DidSteps(f, n),
         "irq" \in held[f] \/ "misc" \in held[f]
  PROVE  drvdata[f] /\ {"data", "bars", "enable"} \subseteq held[f]
<1>1. PICK r \in {"irq", "misc"} : r \in held[f]
  OBVIOUS
<1>2. PICK k \in 1 .. n : Probe[f][k].res = r
  BY <1>1 DEF DidSteps, Lost
<1>3. DataAt[f] \in Nat /\ Len(Probe[f]) \in Nat /\ n \in Nat
  BY ProbeFacts DEF DataAt, Fns
<1>4. k \in 1 .. Len(Probe[f])
  BY <1>2, <1>3
<1>5. ~(k <= DataAt[f])
  <2> SUFFICES ASSUME k <= DataAt[f] PROVE FALSE
    OBVIOUS
  <2>1. CASE f = "gpu"
    <3>1. /\ gpu_probe[1].res = "enable" /\ gpu_probe[2].res = "bars" /\ gpu_probe[3].res = "aer"
          /\ gpu_probe[4].res = "data" /\ gpu_probe[5].res = "drvdata"
      BY DEF gpu_probe, dmabuf_probe, emu_mtdma_init, mt_emu_vf_enable, Step
    <3>2. k \in {1, 2, 3, 4, 5} /\ Probe[f] = gpu_probe
      BY <1>2, <1>3, <2>1 DEF DataAt, Probe
    <3> QED
      BY <1>2, <3>1, <3>2
  <2>2. CASE f = "vgpu"
    <3>1. /\ vgpu_probe[1].res = "enable" /\ vgpu_probe[2].res = "bars"
          /\ vgpu_probe[3].res = "data" /\ vgpu_probe[4].res = "drvdata"
      BY DEF vgpu_probe, emu_mtdma_init, mtdma_probe, Step
    <3>2. k \in {1, 2, 3, 4} /\ Probe[f] = vgpu_probe
      BY <1>2, <1>3, <2>2 DEF DataAt, Probe
    <3> QED
      BY <1>2, <3>1, <3>2
  <2>3. CASE f = "apu"
    <3>1. /\ apu_probe[1].res = "enable" /\ apu_probe[2].res = "bars" /\ apu_probe[3].res = "aer"
          /\ apu_probe[4].res = "data" /\ apu_probe[5].res = "drvdata"
      BY DEF apu_probe, Step
    <3>2. k \in {1, 2, 3, 4, 5} /\ Probe[f] = apu_probe
      BY <1>2, <1>3, <2>3 DEF DataAt, Probe
    <3> QED
      BY <1>2, <3>1, <3>2
  <2> QED
    BY <2>1, <2>2, <2>3 DEF Fns
<1>6. n >= DataAt[f]
  BY <1>2, <1>3, <1>5
<1>7. ASSUME NEW x \in {"data", "bars", "enable"} PROVE x \in held[f]
  <2>1. PICK l \in 1 .. DataAt[f] : Probe[f][l].res = x /\ Probe[f][l].fail # "go"
    BY BeforeData
  <2>2. l \in 1 .. n
    BY <1>3, <1>6
  <2> QED
    BY <2>1, <2>2 DEF DidSteps
<1> QED
  BY <1>6, <1>7 DEF DidSteps
-----------------------------------------------------------------------------
(* The invariant *)

LEMMA InitLInv == Init => LInv
<1> SUFFICES ASSUME Init PROVE LInv
  OBVIOUS
<1>1. TypeOK
  BY LifecycleAssumption DEF Init, TypeOK, Fns, Own
<1>2. StraysKnown
  BY DEF Init, StraysKnown
<1>3. \A f \in Fns : FnInv(f)
  BY DEF Init, FnInv, Unbound
<1>4. SriovInv
  BY DEF Init, SriovInv, Fns
<1> QED
  BY <1>1, <1>2, <1>3, <1>4 DEF LInv

\* A step of one function leaves the others alone.
Same(g) ==
  /\ phase'[g] = phase[g] /\ todo'[g] = todo[g] /\ held'[g] = held[g]
  /\ drvdata'[g] = drvdata[g] /\ ret'[g] = ret[g] /\ fds'[g] = fds[g]
  /\ failed'[g] = failed[g]

LEMMA Frame ==
  ASSUME NEW g \in Fns, FnInv(g), Same(g)
  PROVE  FnInv(g)'
<1>1. Lost(g)' = Lost(g) /\ Clean(g)' = Clean(g)
  BY DEF Same, Lost, Clean
<1>2. Unbound(g) => Unbound(g)'
  BY <1>1 DEF Same, Unbound
<1>3. Probing(g) => Probing(g)'
  BY <1>1 DEF Same, Probing, DidSteps
<1>a. Closed(g) => Closed(g)'
  BY <1>1 DEF Same, Closed
<1>4. Settled(g) => Settled(g)'
  BY <1>1 DEF Same, Settled
<1>5. Switching(g) => Switching(g)'
  BY <1>4 DEF Same, Switching
<1>6. Releasing(g) => Releasing(g)'
  BY <1>1 DEF Same, Releasing
<1> QED
  BY <1>2, <1>3, <1>a, <1>4, <1>5, <1>6 DEF FnInv, Same

LEMMA Assemble ==
  ASSUME LInv, NEW f \in Fns, TypeOK', StraysKnown', FnInv(f)', SriovInv',
         \A g \in Fns \ {f} : Same(g)
  PROVE  LInv'
<1>1. ASSUME NEW g \in Fns PROVE FnInv(g)'
  <2>1. CASE g = f
    BY <2>1
  <2>2. CASE g # f
    BY <2>2, Frame DEF LInv
  <2> QED
    BY <2>1, <2>2
<1> QED
  BY <1>1 DEF LInv

LEMMA StartLInv ==
  ASSUME LInv, NEW f \in Fns, Start(f)
  PROVE  LInv'
<1>0. TypeOK /\ FnInv(f) /\ SriovInv /\ StraysKnown
  BY DEF LInv
<1>a. /\ phase[f] = "unbound" /\ phase'[f] = "probe" /\ todo'[f] = Probe[f]
      /\ UNCHANGED <<held, drvdata, fds, link, failed, stray>>
      /\ \A g \in Fns \ {f} : Same(g)
  BY <1>0 DEF Start, TypeOK, Same
<1>1. TypeOK'
  <2>1. Probe[f] \in Seq(StepType)
    BY ProbeFacts
  <2> QED
    BY <1>0, <2>1 DEF Start, TypeOK
<1>2. StraysKnown'
  BY <1>0, <1>a DEF StraysKnown
<1>3. FnInv(f)'
  <2>1. Probe[f] = Rest(Probe[f], 0) /\ 0 \in 0 .. Len(Probe[f])
    <3>1. Probe[f] \in Seq(StepType) /\ Len(Probe[f]) \in Nat
      BY ProbeFacts
    <3>2. 0 \in 0 .. Len(Probe[f])
      BY <3>1
    <3> QED
      BY <3>1, <3>2, RestFacts
  <2>2. Lost(f)' = Lost(f) /\ ~drvdata[f] /\ held[f] \subseteq Lost(f)
    BY <1>0, <1>a DEF Lost, FnInv, Unbound
  <2>3. DidSteps(f, 0)'
    <3>1. ~(0 >= DataAt[f])
      BY DEF DataAt, Fns
    <3> QED
      BY <1>a, <2>2, <3>1 DEF DidSteps
  <2>4. Closed(f)'
    BY <1>0, <1>a DEF Closed, Clean, FnInv, Unbound
  <2> QED
    BY <1>a, <2>1, <2>3, <2>4 DEF FnInv, Probing
<1>4. SriovInv'
  <2>1. f = "vgpu" => "sriov" \in held["gpu"]
    BY DEF Start, Exists
  <2> QED
    BY <1>0, <1>a, <2>1 DEF SriovInv, Broken, Same, Fns
<1> QED
  BY <1>1, <1>2, <1>3, <1>4, <1>a, Assemble

LEMMA StepOkLInv ==
  ASSUME LInv, NEW f \in Fns, StepOk(f)
  PROVE  LInv'
<1>0. TypeOK /\ FnInv(f) /\ SriovInv /\ StraysKnown
  BY DEF LInv
<1>a. /\ phase[f] = "probe" /\ todo[f] # <<>> /\ todo' = [todo EXCEPT ![f] = Tail(todo[f])]
      /\ UNCHANGED <<phase, ret, fds, link, failed, stray, binds>>
  BY DEF StepOk
<1>1. PICK n \in 0 .. Len(Probe[f]) : todo[f] = Rest(Probe[f], n) /\ DidSteps(f, n)
  BY <1>0, <1>a DEF FnInv, Probing
<1> DEFINE r == Probe[f][n + 1].res
<1>2. /\ n \in Nat /\ n < Len(Probe[f]) /\ n + 1 \in 1 .. Len(Probe[f])
      /\ Head(todo[f]) = Probe[f][n + 1] /\ Tail(todo[f]) = Rest(Probe[f], n + 1)
      /\ Rest(Probe[f], n + 1) \in Seq(StepType)
  <2>1. Probe[f] \in Seq(StepType) /\ Len(Probe[f]) \in Nat
    BY ProbeFacts
  <2>2. n < Len(Probe[f])
    BY <1>1, <1>a, <2>1, RestFacts
  <2>3. n + 1 \in 0 .. Len(Probe[f]) /\ n + 1 \in 1 .. Len(Probe[f])
    BY <2>1, <2>2
  <2> QED
    BY <1>1, <2>1, <2>2, <2>3, RestFacts
<1>3. IF r = "drvdata" THEN drvdata' = [drvdata EXCEPT ![f] = TRUE] /\ held' = held
      ELSE held' = [held EXCEPT ![f] = held[f] \cup {r}] /\ drvdata' = drvdata
  BY <1>2 DEF StepOk
<1>4. /\ r \in Resources /\ r \in Own[f] \cup {"drvdata"}
      /\ r = "drvdata" <=> n + 1 = DataAt[f]
      /\ r = "sriov" <=> f = "gpu" /\ n + 1 = 15
  BY <1>2, StepFacts DEF StepType
<1> HIDE DEF r
<1>5. TypeOK'
  <2>1. todo' \in [Fns -> Seq(StepType) \cup Seq(Resources)]
    BY <1>0, <1>a, <1>2 DEF TypeOK
  <2>2. drvdata' \in [Fns -> BOOLEAN]
    BY <1>0, <1>3 DEF TypeOK
  <2>3. held' \in [Fns -> SUBSET Resources] /\ \A g \in Fns : held'[g] \subseteq Own[g]
    <3>1. CASE r = "drvdata"
      BY <1>0, <1>3, <3>1 DEF TypeOK
    <3>2. CASE r # "drvdata"
      <4>1. held' = [held EXCEPT ![f] = held[f] \cup {r}] /\ r \in Own[f]
        BY <1>3, <1>4, <3>2
      <4>2. held \in [Fns -> SUBSET Resources] /\ \A g \in Fns : held[g] \subseteq Own[g]
        BY <1>0 DEF TypeOK
      <4>3. held[f] \cup {r} \in SUBSET Resources
        BY <1>4, <4>2
      <4>4. held' \in [Fns -> SUBSET Resources]
        BY <4>1, <4>2, <4>3
      <4>5. ASSUME NEW g \in Fns PROVE held'[g] \subseteq Own[g]
        BY <4>1, <4>2
      <4> QED
        BY <4>4, <4>5
    <3> QED
      BY <3>1, <3>2
  <2> QED
    BY <1>0, <1>a, <2>1, <2>2, <2>3 DEF TypeOK
<1>6. StraysKnown'
  BY <1>0, <1>a DEF StraysKnown
<1>7. \A g \in Fns \ {f} : Same(g)
  BY <1>0, <1>a, <1>3 DEF TypeOK, Same
<1>8. held'[f] = (IF r = "drvdata" THEN held[f] ELSE held[f] \cup {r})
  BY <1>0, <1>3 DEF TypeOK
<1>9. Lost(f)' = Lost(f)
  BY <1>a DEF Lost
<1>10. DidSteps(f, n + 1)'
  <2>1. drvdata'[f] <=> n + 1 >= DataAt[f]
    <3>1. DataAt[f] \in Nat
      BY DEF DataAt, Fns
    <3>2. drvdata'[f] = (IF r = "drvdata" THEN TRUE ELSE drvdata[f])
      BY <1>0, <1>3 DEF TypeOK
    <3>3. drvdata[f] <=> n >= DataAt[f]
      BY <1>1 DEF DidSteps
    <3>4. CASE r = "drvdata"
      BY <1>2, <1>4, <3>1, <3>2, <3>4
    <3>5. CASE r # "drvdata"
      <4>1. n + 1 >= DataAt[f] <=> n >= DataAt[f]
        BY <1>2, <1>4, <3>1, <3>5
      <4> QED
        BY <3>2, <3>3, <3>5, <4>1
    <3> QED
      BY <3>4, <3>5
  <2>2. ASSUME NEW k \in 1 .. n + 1
        PROVE  \/ Probe[f][k].res \in held'[f]
               \/ Probe[f][k].res = "drvdata"
               \/ Probe[f][k].fail = "go"
    <3>1. CASE k = n + 1
      BY <1>8, <3>1 DEF r
    <3>2. CASE k # n + 1
      <4>1. k \in 1 .. n
        BY <1>2, <3>2
      <4> QED
        BY <1>1, <1>8, <4>1 DEF DidSteps
    <3> QED
      BY <3>1, <3>2
  <2>3. ASSUME NEW x \in held'[f]
        PROVE  x \in Lost(f) \/ \E k \in 1 .. n + 1 : x = Probe[f][k].res
    <3>1. CASE x \in held[f]
      <4>1. x \in Lost(f) \/ \E k \in 1 .. n : x = Probe[f][k].res
        BY <1>1, <3>1 DEF DidSteps
      <4>2. \A k \in 1 .. n : k \in 1 .. n + 1
        BY <1>2
      <4> QED
        BY <4>1, <4>2
    <3>2. CASE x \notin held[f]
      <4>1. x = r /\ n + 1 \in 1 .. n + 1
        BY <1>2, <1>8, <2>3, <3>2
      <4> QED
        BY <4>1 DEF r
    <3> QED
      BY <3>1, <3>2
  <2> QED
    BY <1>9, <2>1, <2>2, <2>3 DEF DidSteps
<1>11. FnInv(f)'
  <2>1. todo'[f] = Rest(Probe[f], n + 1) /\ phase'[f] = "probe"
        /\ n + 1 \in 0 .. Len(Probe[f])
    BY <1>0, <1>a, <1>2 DEF TypeOK
  <2>2. Closed(f)'
    <3>1. ~drvdata'[f] => ~drvdata[f]
      BY <1>0, <1>3 DEF TypeOK
    <3> QED
      BY <1>0, <1>a, <3>1 DEF FnInv, Closed, Clean
  <2> QED
    BY <1>10, <2>1, <2>2 DEF FnInv, Probing
<1>12. SriovInv'
  <2>1. CASE f # "gpu"
    <3>1. Same("gpu")
      BY <1>7, <2>1 DEF Fns
    <3> QED
      BY <1>0, <1>a, <3>1 DEF SriovInv, Broken, Same
  <2>2. CASE f = "gpu"
    <3>1. phase'["vgpu"] # "unbound" => "sriov" \in held'["gpu"]
      BY <1>0, <1>a, <1>8, <2>2 DEF SriovInv
    <3>2. ASSUME "sriov" \in held'["gpu"] PROVE Kept["gpu"] \subseteq held'["gpu"]
      <4>1. n + 1 = 15
        <5>1. PICK k \in 1 .. n + 1 : Probe[f][k].res = "sriov"
          BY <1>10, <2>2, <3>2 DEF DidSteps, Lost
        <5>2. k \in 1 .. Len(Probe[f]) /\ Len(Probe[f]) = 15
          <6>1. Len(Probe[f]) = 15
            BY <2>2, ProbeFacts
          <6> QED
            BY <1>2, <6>1
        <5>3. k = 15
          BY <5>1, <5>2, StepFacts
        <5> QED
          BY <1>2, <5>1, <5>2, <5>3
      <4>2. ASSUME NEW x \in Kept["gpu"] PROVE x \in held'["gpu"]
        <5>1. PICK k \in 1 .. 14 : Probe[f][k].res = x /\ Probe[f][k].fail # "go" /\ x # "drvdata"
          BY <2>2, <4>2, KeptFacts
        <5>2. k \in 1 .. n
          BY <4>1
        <5>3. x \in held[f]
          BY <1>1, <5>1, <5>2 DEF DidSteps
        <5> QED
          BY <1>8, <2>2, <5>3
      <4> QED
        BY <4>2
    <3> QED
      BY <3>1, <3>2 DEF SriovInv
  <2> QED
    BY <2>1, <2>2
<1> QED
  BY <1>5, <1>6, <1>7, <1>11, <1>12, Assemble

LEMMA ProbeDoneLInv ==
  ASSUME LInv, NEW f \in Fns, ProbeDone(f)
  PROVE  LInv'
<1>0. TypeOK /\ FnInv(f) /\ SriovInv /\ StraysKnown
  BY DEF LInv
<1>a. /\ phase[f] = "probe" /\ todo[f] = <<>> /\ phase' = [phase EXCEPT ![f] = "bound"]
      /\ UNCHANGED <<todo, held, drvdata, ret, fds, link, failed, stray, binds>>
  BY DEF ProbeDone
<1>1. PICK n \in 0 .. Len(Probe[f]) : todo[f] = Rest(Probe[f], n) /\ DidSteps(f, n)
  BY <1>0, <1>a DEF FnInv, Probing
<1>2. n = Len(Probe[f])
  <2>1. Probe[f] \in Seq(StepType) /\ Len(Probe[f]) \in Nat
    BY ProbeFacts
  <2>2. Rest(Probe[f], n) = <<>> <=> n = Len(Probe[f])
    BY <2>1, RestFacts
  <2> QED
    BY <1>1, <1>a, <2>2
<1>3. drvdata[f]
  <2>1. Len(Probe[f]) >= DataAt[f]
    <3>1. Len(Probe[f]) = (IF f = "gpu" THEN 15 ELSE IF f = "vgpu" THEN 9 ELSE 7)
      BY ProbeFacts
    <3>2. DataAt[f] \in {4, 5}
      BY DEF DataAt, Fns
    <3> QED
      BY <3>1, <3>2
  <2> QED
    BY <1>1, <1>2, <2>1 DEF DidSteps
<1>4. Kept[f] \subseteq held[f]
  <2> SUFFICES ASSUME NEW x \in Kept[f] PROVE x \in held[f]
    OBVIOUS
  <2>1. PICK k \in 1 .. (IF f = "gpu" THEN 14 ELSE Len(Probe[f])) :
               Probe[f][k].res = x /\ Probe[f][k].fail # "go" /\ x # "drvdata"
    BY KeptFacts
  <2>2. k \in 1 .. n
    BY <1>2, <2>1, ProbeFacts
  <2> QED
    BY <1>1, <2>1, <2>2 DEF DidSteps
<1>5. phase'[f] = "bound" /\ \A g \in Fns \ {f} : Same(g)
  BY <1>0, <1>a DEF TypeOK, Same
<1>6. FnInv(f)'
  BY <1>a, <1>3, <1>4, <1>5 DEF FnInv, Settled
<1>7. TypeOK'
  BY <1>0, <1>a DEF TypeOK
<1>8. StraysKnown'
  BY <1>0, <1>a DEF StraysKnown
<1>9. SriovInv'
  <2>1. phase'["vgpu"] # "unbound" => phase["vgpu"] # "unbound"
    BY <1>0, <1>a DEF TypeOK, Fns
  <2> QED
    BY <1>0, <1>a, <2>1 DEF SriovInv, Broken
<1> QED
  BY <1>5, <1>6, <1>7, <1>8, <1>9, Assemble

LEMMA LostGrows ==
  ASSUME NEW f \in Fns, failed[f] \subseteq failed'[f]
  PROVE  Lost(f) \subseteq Lost(f)'
  BY DEF Lost

LEMMA StepFailsLInv ==
  ASSUME LInv, NEW f \in Fns, StepFails(f)
  PROVE  LInv'
<1>0. TypeOK /\ FnInv(f) /\ SriovInv /\ StraysKnown
  BY DEF LInv
<1>a. /\ phase[f] = "probe" /\ todo[f] # <<>>
      /\ UNCHANGED <<drvdata, fds, link, stray, binds>>
  BY DEF StepFails
<1>1. PICK n \in 0 .. Len(Probe[f]) : todo[f] = Rest(Probe[f], n) /\ DidSteps(f, n)
  BY <1>0, <1>a DEF FnInv, Probing
<1> DEFINE s == Probe[f][n + 1]
<1>2. /\ n \in Nat /\ n < Len(Probe[f]) /\ n + 1 \in 1 .. Len(Probe[f])
      /\ n \in 0 .. Len(Probe[f]) - 1 /\ Len(Probe[f]) \in Nat
      /\ Head(todo[f]) = s /\ Tail(todo[f]) = Rest(Probe[f], n + 1)
      /\ Rest(Probe[f], n + 1) \in Seq(StepType)
  <2>1. Probe[f] \in Seq(StepType) /\ Len(Probe[f]) \in Nat
    BY ProbeFacts
  <2>2. n < Len(Probe[f])
    BY <1>1, <1>a, <2>1, RestFacts
  <2>3. n + 1 \in 0 .. Len(Probe[f]) /\ n + 1 \in 1 .. Len(Probe[f])
    BY <2>1, <2>2
  <2> QED
    BY <1>1, <2>1, <2>2, <2>3, RestFacts
<1>3. s \in StepType /\ s.res \in Resources
  BY <1>2, StepFacts DEF StepType
<1>4. failed' = [failed EXCEPT ![f] = failed[f] \cup {s.res}]
  BY <1>2 DEF StepFails
<1>5. failed'[f] = failed[f] \cup {s.res} /\ \A g \in Fns \ {f} : failed'[g] = failed[g]
  BY <1>0, <1>4 DEF TypeOK
<1>6. failed' \in [Fns -> SUBSET Resources]
  BY <1>0, <1>3, <1>4 DEF TypeOK
<1>7. Lost(f) \subseteq Lost(f)'
  BY <1>5, LostGrows
<1>8. StraysKnown'
  <2>1. \A g \in Fns : failed[g] \subseteq failed'[g]
    BY <1>5
  <2> QED
    BY <1>0, <1>a, <2>1 DEF StraysKnown
\* The PF's SR-IOV is not on yet.
<1>9. f = "gpu" => "sriov" \notin held[f]
  <2> SUFFICES ASSUME f = "gpu", "sriov" \in held[f] PROVE FALSE
    OBVIOUS
  <2>1. PICK k \in 1 .. n : Probe[f][k].res = "sriov"
    BY <1>1 DEF DidSteps, Lost
  <2>2. k \in 1 .. Len(Probe[f])
    BY <1>2
  <2>3. k = 15 /\ Len(Probe[f]) = 15
    BY <2>1, <2>2, StepFacts, ProbeFacts
  <2> QED
    BY <1>2, <2>3
<1>10. \/ /\ s.fail = "go"
          /\ todo' = [todo EXCEPT ![f] = Rest(Probe[f], n + 1)]
          /\ UNCHANGED <<phase, held, ret>>
       \/ /\ s.fail = "return"
          /\ phase' = [phase EXCEPT ![f] = "error"]
          /\ todo' = [todo EXCEPT ![f] = <<>>]
          /\ ret' = [ret EXCEPT ![f] = -1]
          /\ UNCHANGED held
       \/ /\ s.fail \in {"error", "zero"}
          /\ \E h \in Leftovers(f, s.res) :
               /\ held' = [held EXCEPT ![f] = h]
               /\ todo' = [todo EXCEPT ![f] = FreeSteps(f, h)]
          /\ phase' = [phase EXCEPT ![f] = "error"]
          /\ ret' = [ret EXCEPT ![f] = IF s.fail = "error" THEN -1 ELSE 0]
  BY <1>2 DEF StepFails
<1> HIDE DEF s
\* The step that may fail
<1>11. CASE s.fail = "go"
  <2>1. /\ todo' = [todo EXCEPT ![f] = Rest(Probe[f], n + 1)]
        /\ UNCHANGED <<phase, held, ret>>
    BY <1>10, <1>11
  <2>2. s.res \in {"aer", "sriov"} /\ n + 1 # DataAt[f] /\ DataAt[f] \in Nat
    <3>1. DataAt[f] \in Nat
      BY DEF DataAt, Fns
    <3> QED
      BY <1>2, <1>11, <3>1, StepFacts DEF s
  <2>3. DidSteps(f, n + 1)'
    <3>1. drvdata'[f] <=> n + 1 >= DataAt[f]
      <4>1. n + 1 >= DataAt[f] <=> n >= DataAt[f]
        BY <1>2, <2>2
      <4> QED
        BY <1>1, <1>a, <4>1 DEF DidSteps
    <3>2. ASSUME NEW k \in 1 .. n + 1
          PROVE  \/ Probe[f][k].res \in held[f]
                 \/ Probe[f][k].res = "drvdata"
                 \/ Probe[f][k].fail = "go"
      <4>1. CASE k = n + 1
        BY <1>11, <4>1 DEF s
      <4>2. CASE k # n + 1
        <5>1. k \in 1 .. n
          BY <1>2, <4>2
        <5> QED
          BY <1>1, <5>1 DEF DidSteps
      <4> QED
        BY <4>1, <4>2
    <3>3. ASSUME NEW x \in held[f]
          PROVE  x \in Lost(f)' \/ \E k \in 1 .. n + 1 : x = Probe[f][k].res
      <4>1. x \in Lost(f) \/ \E k \in 1 .. n : x = Probe[f][k].res
        BY <1>1 DEF DidSteps
      <4>2. \A k \in 1 .. n : k \in 1 .. n + 1
        BY <1>2
      <4> QED
        BY <1>7, <4>1, <4>2
    <3> QED
      BY <2>1, <3>1, <3>2, <3>3 DEF DidSteps
  <2>4. FnInv(f)'
    <3>1. todo'[f] = Rest(Probe[f], n + 1) /\ phase'[f] = "probe"
          /\ n + 1 \in 0 .. Len(Probe[f])
      BY <1>0, <1>a, <1>2, <2>1 DEF TypeOK
    <3>2. Closed(f)'
      BY <1>0, <1>5, <1>a DEF FnInv, Closed, Clean
    <3> QED
      BY <2>3, <3>1, <3>2 DEF FnInv, Probing
  <2>5. TypeOK'
    BY <1>0, <1>a, <1>2, <1>6, <2>1 DEF TypeOK
  <2>6. SriovInv'
    <3>1. failed["gpu"] \subseteq failed'["gpu"]
      BY <1>5 DEF Fns
    <3> QED
      BY <1>0, <1>a, <2>1, <3>1 DEF SriovInv, Broken
  <2>7. \A g \in Fns \ {f} : Same(g)
    BY <1>0, <1>a, <1>5, <2>1 DEF TypeOK, Same
  <2> QED
    BY <1>8, <2>4, <2>5, <2>6, <2>7, Assemble
\* The probe ends.
<1>12. ASSUME s.fail \in {"return", "error", "zero"},
              NEW h \in SUBSET Resources, h \subseteq Own[f], NEW t \in Seq(Resources),
              held' = [held EXCEPT ![f] = h], todo' = [todo EXCEPT ![f] = t],
              phase' = [phase EXCEPT ![f] = "error"],
              ret' = [ret EXCEPT ![f] = IF s.fail = "zero" THEN 0 ELSE -1],
              Releasing(f)', "sriov" \in h => "sriov" \in held[f]
       PROVE  LInv'
  <2>1. FnInv(f)'
    <3>1. phase'[f] = "error"
      BY <1>0, <1>12 DEF TypeOK
    <3> QED
      BY <1>12, <3>1 DEF FnInv
  <2>2. TypeOK'
    <3>1. ret' \in [Fns -> {0, -1}] /\ phase' \in [Fns -> {"unbound", "probe", "error", "bound", "remove", "sysfs"}]
      BY <1>0, <1>12 DEF TypeOK
    <3>2. todo' \in [Fns -> Seq(StepType) \cup Seq(Resources)]
      BY <1>0, <1>12 DEF TypeOK
    <3>3. held' \in [Fns -> SUBSET Resources] /\ \A g \in Fns : held'[g] \subseteq Own[g]
      BY <1>0, <1>12 DEF TypeOK
    <3> QED
      BY <1>0, <1>a, <1>6, <3>1, <3>2, <3>3 DEF TypeOK
  <2>3. \A g \in Fns \ {f} : Same(g)
    BY <1>0, <1>a, <1>5, <1>12 DEF TypeOK, Same
  <2>4. SriovInv'
    <3>1. CASE f = "gpu"
      <4>1. held'["gpu"] = h /\ "sriov" \notin h
        BY <1>0, <1>9, <1>12, <3>1 DEF TypeOK
      <4>2. phase'["vgpu"] = phase["vgpu"] /\ phase["vgpu"] = "unbound"
        BY <1>0, <1>9, <1>12, <3>1 DEF TypeOK, SriovInv, Fns
      <4> QED
        BY <4>1, <4>2 DEF SriovInv
    <3>2. CASE f # "gpu"
      <4>1. Same("gpu")
        BY <2>3, <3>2 DEF Fns
      <4>2. phase'["vgpu"] # "unbound" => phase["vgpu"] # "unbound"
        BY <1>0, <1>a, <1>12 DEF TypeOK, Fns
      <4> QED
        BY <1>0, <4>1, <4>2 DEF SriovInv, Broken, Same
    <3> QED
      BY <3>1, <3>2
  <2> QED
    BY <1>8, <2>1, <2>2, <2>3, <2>4, Assemble
<1>f. ASSUME s.fail \in {"return", "error", "zero"}
      PROVE  /\ s.res \notin {"aer", "sriov", "drvdata"}
             /\ s.fail = "return" => n < DataAt[f]
             /\ s.fail = "zero" => s.res \in Silent
             /\ n < DataAt[f] => s.res \in {"enable", "bars", "data"}
  BY <1>2, <1>f, FailFacts DEF s
<1>d. n < DataAt[f] => ~drvdata[f]
  <2>1. DataAt[f] \in Nat
    BY DEF DataAt, Fns
  <2> QED
    BY <1>1, <1>2, <2>1 DEF DidSteps
\* Before drvdata is set, nothing is freed.
<1>13. ASSUME s.fail \in {"return", "error", "zero"}, n < DataAt[f],
              held' = [held EXCEPT ![f] = held[f]], todo' = [todo EXCEPT ![f] = <<>>],
              phase' = [phase EXCEPT ![f] = "error"],
              ret' = [ret EXCEPT ![f] = IF s.fail = "zero" THEN 0 ELSE -1]
       PROVE  LInv'
  <2>1. /\ held'[f] = held[f] /\ todo'[f] = <<>> /\ phase'[f] = "error"
        /\ ret'[f] = (IF s.fail = "zero" THEN 0 ELSE -1)
    BY <1>0, <1>13 DEF TypeOK
  <2>2. Left(<<>>) = {} /\ Ordered(<<>>) /\ <<>> \in Seq(Resources)
    BY DEF Left, Ordered
  <2>3. ASSUME NEW x \in held[f] PROVE x \in Devres[f] \cup Lost(f)'
    <3>1. CASE x \in Lost(f)
      BY <1>7, <3>1
    <3>2. CASE x \notin Lost(f)
      <4>1. PICK k \in 1 .. n : x = Probe[f][k].res
        BY <1>1, <3>2 DEF DidSteps
      <4>2. \/ x \in Devres[f] \cup {"aer"}
            \/ f = "apu" /\ x = "enable" /\ s.res \in {"bars", "data"}
            \/ f = "apu" /\ x = "bars" /\ s.res = "data"
        BY <1>2, <1>13, <4>1, FailFacts DEF s
      <4>3. x \in Resources
        BY <1>0 DEF TypeOK
      <4> QED
        BY <1>5, <4>2, <4>3 DEF Lost
    <3> QED
      BY <3>1, <3>2
  <2>4. "irq" \notin held[f]
    BY <2>3 DEF Devres, Lost, Fns
  <2>5. ~drvdata'[f]
    BY <1>a, <1>d, <1>13
  <2>6. ~Clean(f)'
    BY <1>5, <1>13, <1>f DEF Clean
  <2>7. ret'[f] = 0 => failed'[f] \cap Silent # {}
    BY <1>5, <1>13, <1>f, <2>1
  <2>8. Releasing(f)'
    BY <2>1, <2>2, <2>3, <2>4, <2>5, <2>6, <2>7 DEF Releasing
  <2>9. held[f] \in SUBSET Resources /\ held[f] \subseteq Own[f]
    BY <1>0 DEF TypeOK
  <2> QED
    BY <1>12, <1>13, <2>2, <2>8, <2>9
<1>14. CASE s.fail = "return"
  <2>1. held' = [held EXCEPT ![f] = held[f]]
    BY <1>0, <1>10, <1>14 DEF TypeOK
  <2> QED
    BY <1>10, <1>13, <1>14, <1>f, <2>1
<1>15. CASE s.fail \in {"error", "zero"}
  <2>1. PICK h \in Leftovers(f, s.res) :
          /\ held' = [held EXCEPT ![f] = h] /\ todo' = [todo EXCEPT ![f] = FreeSteps(f, h)]
    BY <1>10, <1>15
  <2>2. /\ phase' = [phase EXCEPT ![f] = "error"]
        /\ ret' = [ret EXCEPT ![f] = IF s.fail = "zero" THEN 0 ELSE -1]
    BY <1>10, <1>15
  <2>3. CASE n < DataAt[f]
    <3>1. h = held[f]
      BY <1>15, <1>f, <2>1, <2>3 DEF Leftovers
    <3>2. FreeSteps(f, h) = <<>>
      BY <1>d, <2>3 DEF FreeSteps
    <3> QED
      BY <1>13, <1>15, <2>1, <2>2, <2>3, <3>1, <3>2
  <2>4. CASE ~(n < DataAt[f])
    <3>0. DataAt[f] \in Nat /\ n >= DataAt[f]
      <4>1. DataAt[f] \in Nat
        BY DEF DataAt, Fns
      <4> QED
        BY <1>2, <2>4, <4>1
    <3>1. FreeSteps(f, h) = Free(f, h) /\ drvdata[f]
      BY <1>1, <3>0 DEF FreeSteps, DidSteps
    <3> DEFINE t == Free(f, h)
    <3>2. /\ held[f] \ {"dbmap", "dbregion"} \subseteq h /\ h \subseteq held[f] \cup {"irq"}
          /\ "irq" \in h => "irq" \in held[f] \/ s.res = "irq"
          /\ s.res = "dbmisc" => {"dbmap", "dbregion"} \cap h = {}
      BY <2>1 DEF Leftovers
    <3>3. /\ held'[f] = h /\ todo'[f] = t /\ phase'[f] = "error"
          /\ ret'[f] = (IF s.fail = "zero" THEN 0 ELSE -1)
      BY <1>0, <2>1, <2>2, <3>1 DEF TypeOK
    <3>4. /\ t \in Seq(Resources) /\ Ordered(t)
          /\ {"irq", "drvdata", "misc"} \subseteq Left(t)
          /\ f # "vgpu" => {"bars", "enable"} \subseteq Left(t)
          /\ f = "gpu" /\ "dbmisc" \in h => {"dbmisc", "dbmap", "dbregion"} \subseteq Left(t)
          /\ f # "apu" => "data" \notin Left(t)
          /\ "sriov" \notin Left(t)
      BY FreeFacts DEF Fns
    <3> HIDE DEF t
    <3>5. ASSUME NEW x \in h PROVE x \in Left(t) \cup Devres[f] \cup Lost(f)'
      <4>1. CASE x = "irq"
        BY <3>4, <4>1
      <4>2. CASE x \in Lost(f)
        BY <1>7, <4>2
      <4>3. CASE x # "irq" /\ x \notin Lost(f)
        <5>1. x \in held[f] /\ x \in Resources
          BY <1>0, <3>2, <4>3 DEF TypeOK
        <5>2. PICK k \in 1 .. n : x = Probe[f][k].res
          BY <1>1, <4>3, <5>1 DEF DidSteps
        <5>3. \/ x \in Devres[f] \cup {"aer", "irq", "drvdata", "misc"}
              \/ f # "vgpu" /\ x \in {"bars", "enable"}
              \/ f = "gpu" /\ s.res = "dbmap" /\ x = "dbregion"
              \/ f = "gpu" /\ s.res = "dbmisc" /\ x \in {"dbregion", "dbmap"}
              \/ /\ f = "gpu" /\ x \in {"dbregion", "dbmap", "dbmisc"}
                 /\ \E l \in 1 .. n : Probe[f][l] = Step("dbmisc", "zero")
          BY <1>2, <1>15, <3>0, <5>2, FailFacts DEF s
        <5>4. CASE x \in Devres[f] \cup {"irq", "drvdata", "misc"}
          BY <3>4, <5>4
        <5>5. CASE x = "aer"
          BY <5>1, <5>5 DEF Lost
        <5>6. CASE f # "vgpu" /\ x \in {"bars", "enable"}
          BY <3>4, <5>6
        <5>7. CASE s.res = "dbmap" /\ x = "dbregion"
          BY <1>5, <5>1, <5>7 DEF Lost
        <5>8. CASE s.res = "dbmisc" /\ x \in {"dbregion", "dbmap"}
          BY <3>2, <3>5, <5>8
        <5>9. CASE /\ f = "gpu" /\ x \in {"dbregion", "dbmap", "dbmisc"}
                   /\ \E l \in 1 .. n : Probe[f][l] = Step("dbmisc", "zero")
          <6>1. PICK l \in 1 .. n : Probe[f][l] = Step("dbmisc", "zero")
            BY <5>9
          <6>2. "dbmisc" \in held[f]
            BY <1>1, <6>1 DEF DidSteps, Step
          <6>3. "dbmisc" \in h
            BY <3>2, <6>2
          <6> QED
            BY <3>4, <5>9, <6>3
        <5> QED
          BY <5>3, <5>4, <5>5, <5>6, <5>7, <5>8, <5>9
      <4> QED
        BY <4>1, <4>2, <4>3
    <3>6. {"data", "bars", "enable"} \subseteq h
      <4> SUFFICES ASSUME NEW x \in {"data", "bars", "enable"} PROVE x \in h
        OBVIOUS
      <4>1. PICK k \in 1 .. DataAt[f] : Probe[f][k].res = x /\ Probe[f][k].fail # "go"
        BY BeforeData
      <4>2. k \in 1 .. n
        BY <1>2, <3>0
      <4>3. x \in held[f]
        BY <1>1, <4>1, <4>2 DEF DidSteps
      <4> QED
        BY <3>2, <4>3
    <3>7. "misc" \in h \/ failed'[f] \cap {"irq", "misc"} # {}
      <4>1. CASE s.res \in {"irq", "misc"}
        BY <1>5, <4>1
      <4>2. CASE s.res \notin {"irq", "misc"}
        <5>1. PICK k \in 1 .. n : Probe[f][k] = Step("misc", "error")
          BY <1>2, <1>15, <3>0, <4>2, FailFacts DEF s
        <5>2. "misc" \in held[f]
          BY <1>1, <5>1 DEF DidSteps, Step
        <5> QED
          BY <3>2, <5>2
      <4> QED
        BY <4>1, <4>2
    <3>8. ~Clean(f)'
      BY <1>5, <1>15, <1>f DEF Clean
    <3>9. ret'[f] = 0 => failed'[f] \cap Silent # {}
      BY <1>5, <1>15, <1>f, <3>3
    <3>10. Releasing(f)'
      BY <1>a, <3>1, <3>3, <3>4, <3>5, <3>6, <3>7, <3>8, <3>9 DEF Releasing
    <3>11. h \in SUBSET Resources /\ h \subseteq Own[f]
      <4>1. "irq" \in Own[f] /\ "irq" \in Resources
        BY DEF Resources, Own, Fns
      <4> QED
        BY <1>0, <3>2, <4>1 DEF TypeOK
    <3>12. "sriov" \in h => "sriov" \in held[f]
      BY <3>2
    <3>13. todo' = [todo EXCEPT ![f] = t]
      BY <2>1, <3>1 DEF t
    <3> QED
      BY <1>12, <1>15, <2>1, <2>2, <3>4, <3>10, <3>11, <3>12, <3>13
  <2> QED
    BY <2>3, <2>4
<1> QED
  <2>1. s.fail \in {"go", "return", "error", "zero"}
    BY <1>10
  <2> QED
    BY <1>11, <1>14, <1>15, <2>1

LEMMA EmptyFacts == Left(<<>>) = {} /\ Ordered(<<>>) /\ <<>> \in Seq(Resources)
  BY DEF Left, Ordered

\* What a free function still holds, devres and what is lost are different
\* things from the interrupts and SR-IOV.
LEMMA HeldLeft ==
  ASSUME NEW f \in Fns, Releasing(f), NEW r \in held[f], r \in {"irq", "sriov", "misc", "drvdata"}
  PROVE  r \in Left(todo[f])
<1>1. r \notin Devres[f] /\ r \notin Lost(f)
  BY DEF Devres, Lost, Fns
<1> QED
  BY <1>1 DEF Releasing

LEMMA FreeStepLInv ==
  ASSUME LInv, NEW f \in Fns, FreeStep(f)
  PROVE  LInv'
<1>0. TypeOK /\ FnInv(f) /\ SriovInv /\ StraysKnown
  BY DEF LInv
<1> DEFINE t == todo[f]
           r == Head(todo[f])
<1>a. /\ phase[f] \in {"error", "remove", "sysfs"} /\ t # <<>>
      /\ r = "sriov" => phase["vgpu"] = "unbound"
      /\ drvdata' = [drvdata EXCEPT ![f] = drvdata[f] /\ r # "drvdata"]
      /\ held' = [held EXCEPT ![f] = held[f] \ {r}]
      /\ stray' = [stray EXCEPT ![f] =
                     IF r = "misc" THEN stray[f] \cup ({"misc", "data"} \ held[f]) ELSE stray[f]]
      /\ link' = IF r = "sriov" THEN [link EXCEPT !["vgpu"] = "normal"] ELSE link
      /\ todo' = [todo EXCEPT ![f] = Tail(t)]
      /\ UNCHANGED <<phase, ret, fds, failed, binds>>
  BY DEF FreeStep
<1>1. CASE phase[f] = "sysfs"
  <2>1. f = "gpu" /\ Settled(f) /\ t = <<"sriov">>
    BY <1>0, <1>a, <1>1 DEF FnInv, Switching
  <2>2. r = "sriov" /\ Tail(t) = <<>>
    BY <2>1
  <2>3. held'[f] = held[f] \ {"sriov"} /\ drvdata'[f] = drvdata[f]
    BY <1>0, <1>a, <2>2 DEF TypeOK
  <2>a. stray' = stray
    BY <1>0, <1>a, <2>2 DEF TypeOK
  <2>4. TypeOK'
    <3>1. todo' \in [Fns -> Seq(StepType) \cup Seq(Resources)]
      BY <1>0, <1>a, <2>2, EmptyFacts DEF TypeOK
    <3>2. held' \in [Fns -> SUBSET Resources] /\ \A g \in Fns : held'[g] \subseteq Own[g]
      BY <1>0, <1>a DEF TypeOK
    <3>3. drvdata' \in [Fns -> BOOLEAN]
      BY <1>0, <1>a DEF TypeOK
    <3>4. link' \in [Fns -> {"normal", "frozen", "recovering", "lost"}]
      BY <1>0, <1>a DEF TypeOK
    <3> QED
      BY <1>0, <1>a, <2>a, <3>1, <3>2, <3>3, <3>4 DEF TypeOK
  <2>5. FnInv(f)'
    <3>1. Lost(f)' = Lost(f) /\ phase'[f] = "sysfs" /\ todo'[f] = <<>>
      BY <1>0, <1>a, <1>1, <2>2 DEF TypeOK, Lost
    <3>2. "sriov" \notin Kept[f]
      BY <2>1 DEF Kept
    <3>3. Settled(f)'
      BY <1>a, <2>1, <2>3, <3>1, <3>2 DEF Settled
    <3> QED
      BY <2>1, <3>1, <3>3 DEF FnInv, Switching
  <2>6. StraysKnown'
    BY <1>0, <1>a, <2>a DEF StraysKnown
  <2>7. SriovInv'
    BY <1>a, <2>1, <2>2, <2>3 DEF SriovInv
  <2>8. \A g \in Fns \ {f} : Same(g)
    BY <1>0, <1>a DEF TypeOK, Same
  <2> QED
    BY <2>4, <2>5, <2>6, <2>7, <2>8, Assemble
<1>2. CASE phase[f] \in {"error", "remove"}
  <2>1. Releasing(f)
    BY <1>0, <1>2 DEF FnInv
  <2>2. t \in Seq(Resources) /\ Ordered(t)
    BY <2>1 DEF Releasing
  <2>3. /\ r \in Resources /\ Tail(t) \in Seq(Resources)
        /\ Left(t) = {r} \cup Left(Tail(t)) /\ Ordered(Tail(t))
        /\ r \notin Left(Tail(t)) /\ "sriov" \notin Left(Tail(t))
        /\ "irq" \in Left(Tail(t)) => r = "sriov"
    BY <1>a, <2>2, TailFacts
  <2> HIDE DEF t, r
  <2>4. /\ held'[f] = held[f] \ {r} /\ todo'[f] = Tail(t) /\ phase'[f] = phase[f]
        /\ drvdata'[f] <=> drvdata[f] /\ r # "drvdata"
    BY <1>0, <1>a DEF TypeOK
  <2>5. \A g \in Fns \ {f} : Same(g)
    BY <1>0, <1>a DEF TypeOK, Same
  <2>6. TypeOK'
    <3>1. todo' \in [Fns -> Seq(StepType) \cup Seq(Resources)]
      BY <1>0, <1>a, <2>3 DEF TypeOK
    <3>2. held' \in [Fns -> SUBSET Resources] /\ \A g \in Fns : held'[g] \subseteq Own[g]
      BY <1>0, <1>a DEF TypeOK
    <3>3. drvdata' \in [Fns -> BOOLEAN]
      BY <1>0, <1>a DEF TypeOK
    <3>4. link' \in [Fns -> {"normal", "frozen", "recovering", "lost"}]
      BY <1>0, <1>a DEF TypeOK
    <3>5. stray' \in [Fns -> SUBSET Resources]
      <4>1. stray \in [Fns -> SUBSET Resources] /\ {"misc", "data"} \subseteq Resources
        BY <1>0 DEF TypeOK, Resources
      <4> QED
        BY <1>a, <4>1
    <3> QED
      BY <1>0, <1>a, <3>1, <3>2, <3>3, <3>4, <3>5 DEF TypeOK
  <2>7. Lost(f)' = Lost(f) /\ Clean(f)' = Clean(f)
    BY <1>a DEF Lost, Clean
  <2>8. ASSUME "irq" \in held'[f] PROVE {"data", "bars", "enable"} \subseteq held'[f]
    <3>1. "irq" \in held[f] /\ r # "irq"
      BY <2>4, <2>8
    <3>2. "irq" \in Left(t)
      BY <2>1, <3>1, HeldLeft DEF t
    <3>3. r = "sriov"
      BY <2>3, <3>1, <3>2
    <3> QED
      BY <2>1, <2>4, <3>1, <3>3 DEF Releasing
  <2>9. ASSUME "misc" \in Left(Tail(t))
        PROVE  /\ "misc" \in held'[f] \/ failed'[f] \cap {"irq", "misc"} # {}
               /\ f # "apu" => "data" \in held'[f]
    <3>1. "misc" \in Left(t) /\ r # "misc"
      BY <2>3, <2>9
    <3>2. f # "apu" => r # "data"
      BY <2>1, <2>3 DEF Releasing, t
    <3> QED
      BY <1>a, <2>1, <2>4, <3>1, <3>2 DEF Releasing, t
  <2>10. Releasing(f)'
    <3>1. held'[f] \subseteq Left(Tail(t)) \cup Devres[f] \cup Lost(f)
      BY <2>1, <2>3, <2>4 DEF Releasing, t
    <3>2. drvdata'[f] <=> "drvdata" \in Left(Tail(t))
      BY <2>1, <2>3, <2>4 DEF Releasing, t
    <3>3. f # "apu" => "data" \notin Left(Tail(t))
      BY <2>1, <2>3 DEF Releasing, t
    <3>4. /\ phase[f] = "error" /\ ret[f] = 0 => failed[f] \cap Silent # {}
          /\ f = "gpu" /\ Clean(f) => phase[f] = "remove" /\ fds[f] = 0
      BY <2>1 DEF Releasing
    <3> QED
      BY <1>a, <2>3, <2>4, <2>7, <2>8, <2>9, <3>1, <3>2, <3>3, <3>4 DEF Releasing
  <2>11. FnInv(f)'
    BY <1>2, <2>4, <2>10 DEF FnInv
  <2>12. StraysKnown'
    <3> SUFFICES ASSUME NEW g \in Fns
                 PROVE  /\ stray'[g] \subseteq {"misc", "data", "drvdata"}
                        /\ "misc" \in stray'[g] => failed[g] \cap {"irq", "misc"} # {}
                        /\ "data" \in stray'[g] => g = "apu"
                        /\ "drvdata" \in stray'[g] => failed[g] \cap Silent # {}
      BY <1>a DEF StraysKnown
    <3>1. CASE stray'[g] = stray[g]
      BY <1>0, <3>1 DEF StraysKnown
    <3>2. CASE stray'[g] # stray[g]
      <4>1. g = f /\ r = "misc" /\ stray'[g] = stray[g] \cup ({"misc", "data"} \ held[g])
        BY <1>0, <1>a, <3>2 DEF TypeOK
      <4>2. /\ "misc" \in held[f] \/ failed[f] \cap {"irq", "misc"} # {}
            /\ f # "apu" => "data" \in held[f]
        BY <2>1, <2>3, <4>1 DEF Releasing, t
      <4> QED
        BY <1>0, <4>1, <4>2 DEF StraysKnown
    <3> QED
      BY <3>1, <3>2
  <2>13. SriovInv'
    <3>1. CASE f = "gpu"
      <4>1. "sriov" \notin held'[f]
        <5> SUFFICES ASSUME "sriov" \in held'[f] PROVE FALSE
          OBVIOUS
        <5>1. "sriov" \in Left(t) /\ r # "sriov"
          BY <2>1, <2>4, HeldLeft DEF t
        <5> QED
          BY <2>3, <5>1
      <4>2. phase["vgpu"] = "unbound"
        <5>1. CASE r = "sriov"
          BY <1>a, <5>1
        <5>2. CASE r # "sriov"
          BY <1>0, <2>4, <3>1, <4>1, <5>2 DEF SriovInv
        <5> QED
          BY <5>1, <5>2
      <4> QED
        BY <1>a, <3>1, <4>1, <4>2 DEF SriovInv
    <3>2. CASE f # "gpu"
      <4>1. Same("gpu")
        BY <2>5, <3>2 DEF Fns
      <4> QED
        BY <1>0, <1>a, <4>1 DEF SriovInv, Broken, Same
    <3> QED
      BY <3>1, <3>2
  <2> QED
    BY <2>5, <2>6, <2>11, <2>12, <2>13, Assemble
<1> QED
  BY <1>a, <1>1, <1>2

LEMMA FreeDoneLInv ==
  ASSUME LInv, NEW f \in Fns, FreeDone(f)
  PROVE  LInv'
<1>0. TypeOK /\ FnInv(f) /\ SriovInv /\ StraysKnown
  BY DEF LInv
<1>a. /\ phase[f] \in {"error", "remove", "sysfs"} /\ todo[f] = <<>>
      /\ UNCHANGED <<todo, drvdata, ret, fds, link, failed, stray, binds>>
  BY DEF FreeDone
<1>b. StraysKnown' /\ Lost(f)' = Lost(f) /\ Clean(f)' = Clean(f)
  BY <1>0, <1>a DEF StraysKnown, Lost, Clean
<1>1. CASE phase[f] = "sysfs" \/ (phase[f] = "error" /\ ret[f] = 0)
  <2>1. phase' = [phase EXCEPT ![f] = "bound"] /\ held' = held
    BY <1>1 DEF FreeDone
  <2>2. Settled(f)
    <3>1. CASE phase[f] = "sysfs"
      BY <1>0, <3>1 DEF FnInv, Switching
    <3>2. CASE phase[f] = "error" /\ ret[f] = 0
      BY <1>0, <1>a, <3>2, EmptyFacts DEF FnInv, Releasing, Settled
    <3> QED
      BY <1>1, <3>1, <3>2
  <2>3. FnInv(f)'
    <3>1. phase'[f] = "bound"
      BY <1>0, <2>1 DEF TypeOK
    <3> QED
      BY <1>a, <1>b, <2>1, <2>2, <3>1 DEF FnInv, Settled
  <2>4. TypeOK'
    BY <1>0, <1>a, <2>1 DEF TypeOK
  <2>5. \A g \in Fns \ {f} : Same(g)
    BY <1>0, <1>a, <2>1 DEF TypeOK, Same
  <2>6. SriovInv'
    <3>1. phase'["vgpu"] # "unbound" => phase["vgpu"] # "unbound"
      BY <1>0, <1>a, <2>1 DEF TypeOK, Fns
    <3> QED
      BY <1>0, <1>a, <2>1, <3>1 DEF SriovInv, Broken
  <2> QED
    BY <1>b, <2>3, <2>4, <2>5, <2>6, Assemble
<1>2. CASE ~(phase[f] = "sysfs" \/ (phase[f] = "error" /\ ret[f] = 0))
  <2>1. /\ phase' = [phase EXCEPT ![f] = "unbound"]
        /\ held' = [held EXCEPT ![f] = held[f] \ Devres[f]]
    BY <1>2 DEF FreeDone
  <2>2. Releasing(f) /\ phase[f] \in {"error", "remove"}
    BY <1>0, <1>2, <1>a DEF FnInv
  <2>3. phase'[f] = "unbound" /\ held'[f] = held[f] \ Devres[f]
    BY <1>0, <2>1 DEF TypeOK
  <2>4. FnInv(f)'
    <3>1. held'[f] \subseteq Lost(f) /\ ~drvdata[f]
      BY <1>a, <2>2, <2>3, EmptyFacts DEF Releasing
    <3>2. f = "gpu" /\ Clean(f) => fds[f] = 0
      BY <2>2 DEF Releasing
    <3> QED
      BY <1>a, <1>b, <2>3, <3>1, <3>2 DEF FnInv, Unbound
  <2>5. TypeOK'
    BY <1>0, <1>a, <2>1 DEF TypeOK
  <2>6. \A g \in Fns \ {f} : Same(g)
    BY <1>0, <1>a, <2>1 DEF TypeOK, Same
  <2>7. SriovInv'
    <3>1. CASE f = "gpu"
      <4>1. "sriov" \notin held[f]
        BY <1>a, <2>2, HeldLeft, EmptyFacts
      <4>2. phase["vgpu"] = "unbound" /\ phase'["vgpu"] = phase["vgpu"]
        BY <1>0, <2>1, <3>1, <4>1 DEF SriovInv, TypeOK, Fns
      <4> QED
        BY <2>3, <3>1, <4>1, <4>2 DEF SriovInv
    <3>2. CASE f # "gpu"
      <4>1. Same("gpu")
        BY <2>6, <3>2 DEF Fns
      <4>2. phase'["vgpu"] # "unbound" => phase["vgpu"] # "unbound"
        BY <1>0, <2>1, <2>3 DEF TypeOK, Fns
      <4> QED
        BY <1>0, <4>1, <4>2 DEF SriovInv, Broken, Same
    <3> QED
      BY <3>1, <3>2
  <2> QED
    BY <1>b, <2>4, <2>5, <2>6, <2>7, Assemble
<1> QED
  BY <1>1, <1>2

LEMMA RemoveLInv ==
  ASSUME LInv, NEW f \in Fns, Remove(f)
  PROVE  LInv'
<1>0. TypeOK /\ FnInv(f) /\ SriovInv /\ StraysKnown
  BY DEF LInv
<1>a. /\ phase[f] = "bound" /\ (fds[f] = 0 \/ f = "vgpu")
      /\ phase' = [phase EXCEPT ![f] = "remove"]
      /\ todo' = [todo EXCEPT ![f] = RemoveSteps(f)]
      /\ UNCHANGED <<held, drvdata, ret, fds, link, failed, stray, binds>>
  BY DEF Remove
<1>b. Settled(f) /\ held[f] \subseteq Own[f] /\ held[f] \subseteq Resources
  <2>1. Settled(f)
    BY <1>0, <1>a DEF FnInv
  <2>2. held[f] \subseteq Own[f] /\ held[f] \in SUBSET Resources
    BY <1>0 DEF TypeOK
  <2> QED
    BY <2>1, <2>2
<1> DEFINE s == FreeSteps(f, held[f])
           t == RemoveSteps(f)
<1>1. s \in Seq(Resources) /\ Ordered(s) /\ "sriov" \notin Left(s)
  BY FreeFacts, EmptyFacts DEF FreeSteps
<1>2. /\ t \in Seq(Resources) /\ Ordered(t)
      /\ Left(t) = (IF f = "gpu" THEN {"sriov"} ELSE {}) \cup Left(s)
  <2>1. CASE f = "gpu"
    <3>1. t = <<"sriov">> \o s
      BY <2>1 DEF RemoveSteps
    <3> QED
      BY <1>1, <2>1, <3>1, SriovFirst
  <2>2. CASE f # "gpu"
    <3>1. t = s
      BY <1>1, <2>2 DEF RemoveSteps
    <3> QED
      BY <1>1, <2>2, <3>1
  <2> QED
    BY <2>1, <2>2
<1>3. /\ phase'[f] = "remove" /\ todo'[f] = t
      /\ UNCHANGED <<held, drvdata, ret, fds, failed>>
  BY <1>0, <1>a DEF TypeOK
<1>4. Lost(f)' = Lost(f)
  BY <1>a DEF Lost
<1>5. f = "gpu" => fds[f] = 0
  BY <1>a
<1>6. Releasing(f)'
  <2>1. CASE drvdata[f]
    <3>1. s = Free(f, held[f]) /\ Kept[f] \subseteq held[f]
      BY <1>b, <2>1 DEF FreeSteps, Settled
    <3>2. /\ {"irq", "drvdata", "misc"} \subseteq Left(s)
          /\ f # "vgpu" => {"bars", "enable"} \subseteq Left(s)
          /\ f = "gpu" /\ "dbmisc" \in held[f] => {"dbmisc", "dbmap", "dbregion"} \subseteq Left(s)
          /\ f # "apu" => "data" \notin Left(s)
      BY <3>1, FreeFacts DEF Fns
    <3>3. {"irq", "misc", "data", "bars", "enable"} \subseteq held[f]
      BY <3>1 DEF Kept, Fns
    <3>4. f = "gpu" => "dbmisc" \in held[f]
      BY <3>1 DEF Kept
    <3> HIDE DEF s, t
    <3>5. held[f] \subseteq Left(t) \cup Devres[f] \cup Lost(f)
      <4>1. CASE f = "gpu"
        <5>1. {"sriov", "irq", "misc", "bars", "enable", "dbmisc", "dbmap", "dbregion"} \subseteq Left(t)
          BY <1>2, <3>2, <3>4, <4>1
        <5>2. Devres[f] = {"enable", "bars", "data", "comm", "dbdata", "mtdma", "bare"}
          BY <4>1 DEF Devres
        <5>3. Own[f] \subseteq {"enable", "bars", "aer", "data", "irq", "misc", "comm", "dbdata",
                  "dbregion", "dbmap", "dbmisc", "bare", "mtdma", "sriov"}
          BY <4>1 DEF Own
        <5>4. "aer" \in Lost(f)
          BY DEF Lost, Resources
        <5> QED
          BY <1>b, <5>1, <5>2, <5>3, <5>4
      <4>2. CASE f = "vgpu"
        <5>1. {"irq", "misc"} \subseteq Left(t)
          BY <1>2, <3>2
        <5>2. /\ Devres[f] = {"enable", "bars", "data", "mtdma", "bare"}
              /\ Own[f] = {"enable", "bars", "data", "irq", "misc", "bare", "mtdma", "dmadev"}
          BY <4>2 DEF Devres, Own
        <5>3. "dmadev" \in Lost(f)
          BY <4>2 DEF Lost, Resources
        <5> QED
          BY <1>b, <5>1, <5>2, <5>3
      <4>3. CASE f = "apu"
        <5>1. {"irq", "misc", "bars", "enable"} \subseteq Left(t)
          BY <1>2, <3>2, <4>3
        <5>2. Devres[f] = {"data"} /\ Own[f] = {"enable", "bars", "aer", "data", "irq", "misc"}
          BY <4>3 DEF Devres, Own
        <5>3. "aer" \in Lost(f)
          BY DEF Lost, Resources
        <5> QED
          BY <1>b, <5>1, <5>2, <5>3
      <4> QED
        BY <4>1, <4>2, <4>3 DEF Fns
    <3>6. /\ "drvdata" \in Left(t) /\ (f # "apu" => "data" \notin Left(t))
          /\ "sriov" \in Left(t) => f = "gpu"
      BY <1>1, <1>2, <3>2
    <3> QED
      BY <1>2, <1>3, <1>4, <1>5, <2>1, <3>3, <3>5, <3>6 DEF Releasing
  <2>2. CASE ~drvdata[f]
    <3>1. s = <<>> /\ held[f] \subseteq Devres[f] \cup Lost(f) \cup {"sriov"}
      BY <1>b, <2>2 DEF FreeSteps, Settled
    <3>2. Left(t) = IF f = "gpu" THEN {"sriov"} ELSE {}
      BY <1>2, <3>1, EmptyFacts
    <3>3. "sriov" \in held[f] => f = "gpu"
      BY <1>b DEF Own, Fns
    <3>4. "irq" \notin Devres[f] \cup Lost(f) \cup {"sriov"}
      BY DEF Devres, Lost, Fns
    <3> HIDE DEF s, t
    <3>5. held[f] \subseteq Left(t) \cup Devres[f] \cup Lost(f)
      BY <3>1, <3>2, <3>3
    <3> QED
      BY <1>2, <1>3, <1>4, <1>5, <2>2, <3>1, <3>2, <3>4, <3>5 DEF Releasing
  <2> QED
    BY <2>1, <2>2
<1> HIDE DEF s, t
<1>7. FnInv(f)'
  BY <1>3, <1>6 DEF FnInv
<1>8. TypeOK'
  <2>1. todo' \in [Fns -> Seq(StepType) \cup Seq(Resources)]
    BY <1>0, <1>2, <1>a DEF TypeOK, t
  <2> QED
    BY <1>0, <1>a, <2>1 DEF TypeOK
<1>9. StraysKnown'
  BY <1>0, <1>a DEF StraysKnown
<1>10. \A g \in Fns \ {f} : Same(g)
  BY <1>0, <1>a DEF TypeOK, Same
<1>11. SriovInv'
  <2>1. phase'["vgpu"] # "unbound" => phase["vgpu"] # "unbound"
    <3>1. CASE f = "vgpu"
      BY <1>a, <3>1
    <3>2. CASE f # "vgpu"
      BY <1>a, <3>2
    <3> QED
      BY <3>1, <3>2
  <2> QED
    BY <1>0, <1>a, <2>1 DEF SriovInv, Broken
<1> QED
  BY <1>7, <1>8, <1>9, <1>10, <1>11, Assemble

LEMMA SriovConfigureLInv ==
  ASSUME LInv, sriov_configure
  PROVE  LInv'
<1> DEFINE f == "gpu"
<1>0. f \in Fns /\ TypeOK /\ FnInv(f) /\ SriovInv /\ StraysKnown
  BY DEF LInv, Fns
<1>a. /\ phase[f] = "bound"
      /\ UNCHANGED <<drvdata, ret, fds, link, failed, stray, binds>>
  BY DEF sriov_configure
<1>b. Settled(f)
  BY <1>0, <1>a DEF FnInv
<1>c. Lost(f)' = Lost(f) /\ StraysKnown'
  BY <1>0, <1>a DEF Lost, StraysKnown
<1>1. CASE held' = [held EXCEPT ![f] = held[f] \cup {"sriov"}] /\ UNCHANGED <<phase, todo>>
  <2>1. held'[f] = held[f] \cup {"sriov"}
    BY <1>0, <1>1 DEF TypeOK
  <2>2. Settled(f)'
    BY <1>a, <1>b, <1>c, <2>1 DEF Settled
  <2>3. FnInv(f)'
    BY <1>1, <1>a, <2>2 DEF FnInv
  <2>4. TypeOK'
    <3>1. "sriov" \in Resources /\ "sriov" \in Own[f]
      BY DEF Resources, Own
    <3>2. held \in [Fns -> SUBSET Resources] /\ \A g \in Fns : held[g] \subseteq Own[g]
      BY <1>0 DEF TypeOK
    <3>3. held[f] \cup {"sriov"} \in SUBSET Resources
      BY <1>0, <3>1, <3>2
    <3>4. held' \in [Fns -> SUBSET Resources]
      BY <1>1, <3>2, <3>3
    <3>5. ASSUME NEW g \in Fns PROVE held'[g] \subseteq Own[g]
      BY <1>1, <3>1, <3>2
    <3> QED
      BY <1>0, <1>1, <1>a, <3>4, <3>5 DEF TypeOK
  <2>5. \A g \in Fns \ {f} : Same(g)
    BY <1>0, <1>1, <1>a DEF TypeOK, Same
  <2>6. SriovInv'
    <3>1. Kept[f] \subseteq held[f] \/ Broken(f)
      BY <1>b DEF Settled, Broken
    <3> QED
      BY <1>0, <1>1, <1>a, <2>1, <3>1 DEF SriovInv, Broken
  <2> QED
    BY <1>0, <1>c, <2>3, <2>4, <2>5, <2>6, Assemble
<1>2. CASE /\ phase' = [phase EXCEPT ![f] = "sysfs"]
           /\ todo' = [todo EXCEPT ![f] = <<"sriov">>] /\ held' = held
  <2>1. phase'[f] = "sysfs" /\ todo'[f] = <<"sriov">>
    BY <1>0, <1>2 DEF TypeOK
  <2>2. FnInv(f)'
    BY <1>2, <1>a, <1>b, <1>c, <2>1 DEF FnInv, Switching, Settled
  <2>3. TypeOK'
    <3>1. <<"sriov">> \in Seq(Resources)
      BY DEF Resources
    <3>2. todo' \in [Fns -> Seq(StepType) \cup Seq(Resources)]
      BY <1>0, <1>2, <3>1 DEF TypeOK
    <3> QED
      BY <1>0, <1>2, <1>a, <3>2 DEF TypeOK
  <2>4. \A g \in Fns \ {f} : Same(g)
    BY <1>0, <1>2, <1>a DEF TypeOK, Same
  <2>5. SriovInv'
    <3>1. phase'["vgpu"] = phase["vgpu"]
      BY <1>0, <1>2 DEF TypeOK, Fns
    <3> QED
      BY <1>0, <1>2, <1>a, <3>1 DEF SriovInv, Broken
  <2> QED
    BY <1>0, <1>c, <2>2, <2>3, <2>4, <2>5, Assemble
<1> QED
  BY <1>1, <1>2 DEF sriov_configure

LEMMA OpenLInv ==
  ASSUME LInv, NEW f \in Fns, Open(f)
  PROVE  LInv'
<1>0. TypeOK /\ FnInv(f) /\ SriovInv /\ StraysKnown
  BY DEF LInv
<1>a. /\ "misc" \in held[f] /\ fds[f] < MaxFds
      /\ phase[f] = "remove" => f = "vgpu"
      /\ fds' = [fds EXCEPT ![f] = fds[f] + 1]
      /\ UNCHANGED <<phase, todo, held, drvdata, ret, link, failed, stray, binds>>
  BY DEF Open
<1>1. Lost(f)' = Lost(f) /\ Clean(f)' = Clean(f) /\ StraysKnown'
  BY <1>0, <1>a DEF Lost, Clean, StraysKnown
<1>2. "misc" \notin Lost(f)
  BY DEF Lost
<1>3. FnInv(f)'
  <2>1. phase[f] # "unbound"
    BY <1>0, <1>2, <1>a DEF FnInv, Unbound
  <2>2. Probing(f) => Probing(f)' /\ Closed(f)'
    <3> SUFFICES ASSUME Probing(f) PROVE Probing(f)' /\ Closed(f)'
      OBVIOUS
    <3>1. Probing(f)'
      BY <1>1, <1>a DEF Probing, DidSteps
    <3>2. drvdata[f]
      BY <1>a, AfterData DEF Probing
    <3> QED
      BY <1>a, <3>1, <3>2 DEF Closed
  <2>3. Settled(f) => Settled(f)'
    BY <1>1, <1>a DEF Settled
  <2>4. Switching(f) => Switching(f)'
    BY <1>a, <2>3 DEF Switching
  <2>5. Releasing(f) => Releasing(f)'
    BY <1>1, <1>a DEF Releasing
  <2> QED
    BY <1>0, <1>a, <2>1, <2>2, <2>3, <2>4, <2>5 DEF FnInv
<1>4. TypeOK'
  <2>1. fds[f] \in 0 .. MaxFds /\ MaxFds \in Nat /\ fds \in [Fns -> 0 .. MaxFds]
    BY <1>0, LifecycleAssumption DEF TypeOK
  <2>2. fds[f] + 1 \in 0 .. MaxFds
    BY <1>a, <2>1
  <2>3. fds' \in [Fns -> 0 .. MaxFds]
    BY <1>a, <2>1, <2>2
  <2> QED
    BY <1>0, <1>a, <2>3 DEF TypeOK
<1>5. \A g \in Fns \ {f} : Same(g)
  BY <1>0, <1>a DEF TypeOK, Same
<1>6. SriovInv'
  BY <1>0, <1>a DEF SriovInv, Broken
<1> QED
  BY <1>1, <1>3, <1>4, <1>5, <1>6, Assemble

LEMMA CloseLInv ==
  ASSUME LInv, NEW f \in Fns, Close(f)
  PROVE  LInv'
<1>0. TypeOK /\ FnInv(f) /\ SriovInv /\ StraysKnown
  BY DEF LInv
<1>a. /\ fds[f] > 0 /\ fds' = [fds EXCEPT ![f] = fds[f] - 1]
      /\ UNCHANGED <<phase, todo, held, drvdata, ret, link, failed, stray, binds>>
  BY DEF Close
<1>1. Lost(f)' = Lost(f) /\ Clean(f)' = Clean(f) /\ StraysKnown'
  BY <1>0, <1>a DEF Lost, Clean, StraysKnown
<1>3. FnInv(f)'
  <2>0. fds[f] # 0
    BY <1>0, <1>a DEF TypeOK
  <2>1. Unbound(f) => Unbound(f)'
    BY <1>1, <1>a, <2>0 DEF Unbound
  <2>2. Probing(f) => Probing(f)'
    BY <1>1, <1>a DEF Probing, DidSteps
  <2>a. Closed(f) => Closed(f)'
    BY <1>1, <1>a, <2>0 DEF Closed
  <2>3. Settled(f) => Settled(f)'
    BY <1>1, <1>a DEF Settled
  <2>4. Switching(f) => Switching(f)'
    BY <1>a, <2>3 DEF Switching
  <2>5. Releasing(f) => Releasing(f)'
    BY <1>1, <1>a, <2>0 DEF Releasing
  <2> QED
    BY <1>0, <1>a, <2>1, <2>2, <2>a, <2>3, <2>4, <2>5 DEF FnInv
<1>4. TypeOK'
  <2>1. fds[f] \in 0 .. MaxFds /\ MaxFds \in Nat /\ fds \in [Fns -> 0 .. MaxFds]
    BY <1>0, LifecycleAssumption DEF TypeOK
  <2>2. fds[f] - 1 \in 0 .. MaxFds
    BY <1>a, <2>1
  <2>3. fds' \in [Fns -> 0 .. MaxFds]
    BY <1>a, <2>1, <2>2
  <2> QED
    BY <1>0, <1>a, <2>3 DEF TypeOK
<1>5. \A g \in Fns \ {f} : Same(g)
  BY <1>0, <1>a DEF TypeOK, Same
<1>6. SriovInv'
  BY <1>0, <1>a DEF SriovInv, Broken
<1> QED
  BY <1>1, <1>3, <1>4, <1>5, <1>6, Assemble

\* An AER callback meets a missing drvdata only if the device stayed bound
\* after a probe that failed silently.
LEMMA AerLInv ==
  ASSUME LInv, NEW f \in Fns, NEW from,
         NEW to \in {"normal", "frozen", "recovering", "lost"}, Aer(f, from, to)
  PROVE  LInv'
<1>0. TypeOK /\ FnInv(f) /\ SriovInv /\ StraysKnown
  BY DEF LInv
<1>a. /\ link' = [link EXCEPT ![f] = to]
      /\ stray' = [stray EXCEPT ![f] = IF phase[f] = "bound" /\ ~drvdata[f]
                                       THEN stray[f] \cup {"drvdata"} ELSE stray[f]]
      /\ UNCHANGED <<phase, todo, held, drvdata, ret, fds, failed, binds>>
  BY DEF Aer, UseDrvdata
<1>1. \A g \in Fns : Same(g)
  BY <1>a DEF Same
<1>2. FnInv(f)'
  BY <1>0, <1>1, Frame
<1>3. TypeOK'
  <2>1. stray \in [Fns -> SUBSET Resources] /\ "drvdata" \in Resources
    BY <1>0 DEF TypeOK, Resources
  <2>2. stray' \in [Fns -> SUBSET Resources]
    BY <1>a, <2>1
  <2>3. link' \in [Fns -> {"normal", "frozen", "recovering", "lost"}]
    BY <1>0, <1>a DEF TypeOK
  <2> QED
    BY <1>0, <1>a, <2>2, <2>3 DEF TypeOK
<1>4. StraysKnown'
  <2> SUFFICES ASSUME NEW g \in Fns
               PROVE  /\ stray'[g] \subseteq {"misc", "data", "drvdata"}
                      /\ "misc" \in stray'[g] => failed[g] \cap {"irq", "misc"} # {}
                      /\ "data" \in stray'[g] => g = "apu"
                      /\ "drvdata" \in stray'[g] => failed[g] \cap Silent # {}
    BY <1>a DEF StraysKnown
  <2>1. CASE stray'[g] = stray[g]
    BY <1>0, <2>1 DEF StraysKnown
  <2>2. CASE stray'[g] # stray[g]
    <3>1. /\ g = f /\ phase[f] = "bound" /\ ~drvdata[f]
          /\ stray'[g] = stray[g] \cup {"drvdata"}
      BY <1>0, <1>a, <2>2 DEF TypeOK
    <3>2. failed[g] \cap Silent # {}
      BY <1>0, <3>1 DEF FnInv, Settled
    <3> QED
      BY <1>0, <3>1, <3>2 DEF StraysKnown
  <2> QED
    BY <2>1, <2>2
<1>5. SriovInv'
  BY <1>0, <1>a DEF SriovInv, Broken
<1> QED
  BY <1>1, <1>2, <1>3, <1>4, <1>5, Assemble

LEMMA StutterLInv == LInv /\ UNCHANGED vars => LInv'
<1> SUFFICES ASSUME LInv, UNCHANGED vars PROVE LInv'
  OBVIOUS
<1>1. TypeOK' /\ StraysKnown' /\ SriovInv'
  BY DEF LInv, vars, TypeOK, StraysKnown, SriovInv, Broken
<1>2. ASSUME NEW g \in Fns PROVE FnInv(g)'
  <2>1. FnInv(g) /\ Same(g)
    BY DEF LInv, vars, Same
  <2> QED
    BY <2>1, Frame
<1> QED
  BY <1>1, <1>2 DEF LInv

LEMMA NextLInv == LInv /\ [Next]_vars => LInv'
<1> SUFFICES ASSUME LInv, [Next]_vars PROVE LInv'
  OBVIOUS
<1>1. ASSUME NEW f \in Fns,
             \/ Start(f) \/ StepOk(f) \/ StepFails(f) \/ ProbeDone(f)
             \/ FreeStep(f) \/ FreeDone(f) \/ Remove(f) \/ Open(f) \/ Close(f)
      PROVE  LInv'
  BY <1>1, StartLInv, StepOkLInv, StepFailsLInv, ProbeDoneLInv, FreeStepLInv, FreeDoneLInv,
     RemoveLInv, OpenLInv, CloseLInv
<1>2. ASSUME NEW f \in Fns, slot_reset(f) \/ error_resume(f)
      PROVE  LInv'
  BY <1>2, AerLInv DEF slot_reset, error_resume
<1>3. CASE error_detected
  <2>1. PICK state \in DOMAIN After :
          \/ emu_gpu_error_detected(state) \/ emu_vgpu_error_detected(state)
          \/ emu_apu_error_detected(state)
    BY <1>3 DEF error_detected
  <2>2. After[state] \in {"normal", "frozen", "recovering", "lost"}
    BY DEF After
  <2>3. PICK f \in Fns : Aer(f, "normal", After[state])
    BY <2>1 DEF emu_gpu_error_detected, emu_vgpu_error_detected, emu_apu_error_detected, Fns
  <2> QED
    BY <2>2, <2>3, AerLInv
<1>4. CASE sriov_configure
  BY <1>4, SriovConfigureLInv
<1>5. CASE UNCHANGED vars
  BY <1>5, StutterLInv
<1> QED
  BY <1>1, <1>2, <1>3, <1>4, <1>5 DEF Next

LEMMA Invariance == Spec => []LInv
<1> QED
  BY InitLInv, NextLInv, PTL DEF Spec
-----------------------------------------------------------------------------
(* The theorems *)

\* Every variable keeps its type, and a function holds only what its own
\* driver acquires: no free function and no error path mixes up the resources
\* of gpu_probe, vgpu_probe and apu_probe.
THEOREM TypeCorrect == Spec => []TypeOK
<1>1. LInv => TypeOK
  BY DEF LInv
<1> QED
  BY <1>1, Invariance, PTL

\* Nothing is released or used that is not there, but for misc_deregister of a
\* device that was not registered, the APU's kfree before misc_deregister, and
\* an AER callback of a device bound by a probe that failed silently.
THEOREM StraysAreKnown == Spec => []StraysKnown
<1>1. LInv => StraysKnown
  BY DEF LInv
<1> QED
  BY <1>1, Invariance, PTL

\* An interrupt handler finds emu_pcie, the BARs and an enabled device in every
\* state of a probe, of its error paths and of remove; so does a misc device
\* its emu_pcie, and an open file of the GPU unless a probe failed under it.
THEOREM UsersAreCovered == Spec => []UsersCovered
<1>1. ASSUME LInv PROVE UsersCovered
  <2> DEFINE base == {"data", "bars", "enable"}
  <2> SUFFICES ASSUME NEW f \in Fns
               PROVE  /\ "irq" \in held[f] => base \subseteq held[f]
                      /\ "misc" \in held[f] /\ f # "apu" => "data" \in held[f]
                      /\ f = "gpu" /\ fds[f] > 0 /\ failed[f] \subseteq {"aer", "sriov"} =>
                           base \subseteq held[f]
    BY DEF UsersCovered
  <2>0. TypeOK /\ FnInv(f)
    BY <1>1 DEF LInv
  <2>1. CASE phase[f] = "unbound"
    <3>1. held[f] \subseteq Lost(f) /\ (f = "gpu" /\ Clean(f) => fds[f] = 0)
      BY <2>0, <2>1 DEF FnInv, Unbound
    <3>2. "irq" \notin Lost(f) /\ "misc" \notin Lost(f)
      BY DEF Lost
    <3> QED
      BY <3>1, <3>2 DEF Clean
  <2>2. CASE phase[f] = "probe"
    <3>1. PICK n \in 0 .. Len(Probe[f]) : todo[f] = Rest(Probe[f], n) /\ DidSteps(f, n)
      BY <2>0, <2>2 DEF FnInv, Probing
    <3>2. Closed(f)
      BY <2>0, <2>2 DEF FnInv
    <3>3. drvdata[f] => base \subseteq held[f]
      <4> SUFFICES ASSUME drvdata[f], NEW x \in base PROVE x \in held[f]
        OBVIOUS
      <4>1. PICK l \in 1 .. DataAt[f] : Probe[f][l].res = x /\ Probe[f][l].fail # "go"
        BY BeforeData
      <4>2. DataAt[f] \in Nat /\ Len(Probe[f]) \in Nat
        BY ProbeFacts DEF DataAt, Fns
      <4>3. l \in 1 .. n
        BY <3>1, <4>2 DEF DidSteps
      <4> QED
        BY <3>1, <4>1, <4>3 DEF DidSteps
    <3> QED
      BY <3>1, <3>2, <3>3, AfterData DEF Closed, Clean
  <2>3. CASE phase[f] \in {"bound", "sysfs"}
    <3>1. Settled(f)
      BY <2>0, <2>3 DEF FnInv, Switching
    <3>2. CASE drvdata[f]
      <4>1. base \subseteq held[f]
        BY <3>1, <3>2 DEF Settled, Kept, Fns
      <4> QED
        BY <4>1
    <3>3. CASE ~drvdata[f]
      <4>1. "irq" \notin Devres[f] \cup Lost(f) /\ "misc" \notin Devres[f] \cup Lost(f)
        BY DEF Devres, Lost, Fns
      <4>2. ~(failed[f] \subseteq {"aer", "sriov"})
        BY <3>1, <3>3 DEF Settled, Silent
      <4> QED
        BY <3>1, <3>3, <4>1, <4>2 DEF Settled
    <3> QED
      BY <3>2, <3>3
  <2>4. CASE phase[f] \in {"error", "remove"}
    <3>1. Releasing(f)
      BY <2>0, <2>4 DEF FnInv
    <3>2. "misc" \in held[f] => "misc" \in Left(todo[f])
      BY <3>1, HeldLeft
    <3> QED
      BY <3>1, <3>2 DEF Releasing, Clean
  <2> QED
    BY <2>0, <2>1, <2>2, <2>3, <2>4 DEF TypeOK
<1> QED
  BY <1>1, Invariance, PTL

\* What an unbound function still holds is what NothingLeft lists: whatever
\* else its probe acquired has been given back by the free function or devres.
THEOREM NothingIsLeft == Spec => []NothingLeft
<1>1. ASSUME LInv PROVE NothingLeft
  <2> SUFFICES ASSUME NEW f \in Fns, phase[f] = "unbound", NEW r \in held[f]
               PROVE  r \in Lost(f)
    BY DEF NothingLeft, Lost
  <2> QED
    BY <1>1 DEF LInv, FnInv, Unbound
<1> QED
  BY <1>1, Invariance, PTL

\* A VF is probed, bound or removed only under a PF that is completely set up,
\* or whose probe failed and returned 0.
THEOREM VfsAreUnderPf == Spec => []VfsUnderPf
<1>1. ASSUME LInv PROVE VfsUnderPf
  BY <1>1 DEF LInv, SriovInv, Broken, Kept, VfsUnderPf
<1> QED
  BY <1>1, Invariance, PTL
=============================================================================
