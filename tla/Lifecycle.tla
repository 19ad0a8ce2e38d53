----------------------------- MODULE Lifecycle -----------------------------
(***************************************************************************)
(* Probe, remove and error recovery of the three PCI drivers               *)
(* (mt-emu-gpu.c, mt-emu-vgpu.c, mt-emu-apu.c, mt-emu-dmabuf.c): what each *)
(* step acquires, where a failing step jumps to, what the free function of *)
(* the driver gives back and in which order, and what is left to devres.   *)
(*                                                                         *)
(* One GPU (the PF), one VF that exists while the PF's SR-IOV is enabled,  *)
(* and one APU run side by side; users open the misc devices at any time.  *)
(* A resource is a string; held[f] is what function f holds.  DMA_RESV_MEM *)
(* is 1 and ROM_ENABLE is not defined, as in the sources.                  *)
(***************************************************************************)
EXTENDS Integers, Sequences, FiniteSets

CONSTANTS Machines,    \* the machines: how often each function is probed at
                       \* most; 0 for a function that is not present
          MaxFds       \* bound: open file descriptors of one misc device

Fns == {"gpu", "vgpu", "apu"}

ASSUME LifecycleAssumption ==
  MaxFds \in Nat /\ Machines \subseteq [Fns -> Nat]

VARIABLES phase,      \* "unbound", "probe", "error", "bound" or "remove";
                      \* "sysfs" while a PF's SR-IOV is switched off
          todo,       \* the steps left of the probe or of the free function
          held,       \* the resources the function holds
          drvdata,    \* pci_get_drvdata is not NULL
          ret,        \* what probe is to return at its error label
          fds,        \* open files of the misc device
          link,       \* "normal", or where the recovery of an error stands:
                      \* "frozen", "recovering" or "lost"
          failed,     \* history: the steps that have failed
          stray,      \* history: uses and releases of what is not held
          binds       \* the probes left

vars == <<phase, todo, held, drvdata, ret, fds, link, failed, stray, binds>>

-----------------------------------------------------------------------------
\* A step of a probe: the resource it acquires and what its failure leads to:
\* "return" (return err), "error" (goto error with ret set), "zero" (goto
\* error with the ret of the last success, 0) or "go" (the result is ignored)
Step(res, fail) == [res |-> res, fail |-> fail]

dmabuf_probe ==
  <<Step("dbdata", "zero"), Step("dbregion", "zero"), Step("dbmap", "zero"),
    Step("dbmisc", "zero")>>

\* devm_kzalloc of the dmaengine chip; ret is not set when it fails
emu_mtdma_init == <<Step("mtdma", "zero")>>

\* dma_async_device_register, in the VF's driver only
mtdma_probe == <<Step("dmadev", "error")>>

\* pci_enable_sriov, whose result is not looked at
mt_emu_vf_enable == <<Step("sriov", "go")>>

gpu_probe ==
  <<Step("enable", "return"), Step("bars", "return"), Step("aer", "go"),
    Step("data", "error"), Step("drvdata", "none"), Step("irq", "error"),
    Step("misc", "error"), Step("comm", "none")>>
  \o dmabuf_probe
  \o <<Step("bare", "none")>> \o emu_mtdma_init \o mt_emu_vf_enable

vgpu_probe ==
  <<Step("enable", "return"), Step("bars", "return"), Step("data", "return"),
    Step("drvdata", "none"), Step("irq", "error"), Step("misc", "error"),
    Step("bare", "none")>>
  \o emu_mtdma_init \o mtdma_probe

apu_probe ==
  <<Step("enable", "error"), Step("bars", "error"), Step("aer", "go"),
    Step("data", "error"), Step("drvdata", "none"), Step("irq", "error"),
    Step("misc", "error")>>

Probe == [gpu |-> gpu_probe, vgpu |-> vgpu_probe, apu |-> apu_probe]

\* The free functions: what they release, in order

\* Faulty variant: the mem_region is forgotten
dmabuf_remove_region == <<"dbmisc", "dbmap">>

dmabuf_remove == <<"dbmisc", "dbmap", "dbregion">>

\* Faulty variant: a free function that leaves the interrupts to the end
gpu_free_irq_last(h) ==
  dmabuf_remove \o <<"drvdata", "misc", "bars", "enable", "irq">>

\* The dmabuf goes only if emu_dmabuf_probe returned it.
gpu_free(h) ==
  IF "dbmisc" \in h
  THEN <<"irq">> \o dmabuf_remove \o <<"drvdata", "misc", "bars", "enable">>
  ELSE <<"irq", "drvdata", "misc", "bars", "enable">>

\* Faulty variant: the APU's order, emu_pcie is freed before its miscdev
vgpu_free_data_first == <<"irq", "data", "drvdata", "misc">>

vgpu_free == <<"irq", "drvdata", "misc">>

apu_free == <<"irq", "data", "drvdata", "misc", "bars", "enable">>

Free(f, h) ==
  CASE f = "gpu" -> gpu_free(h) [] f = "vgpu" -> vgpu_free [] OTHER -> apu_free

\* What the driver core gives back by itself after a probe that failed and
\* after remove: pcim_ and devm_ resources.  The APU enables its device with
\* pci_enable_device, so neither that nor the BARs are managed.
Devres == [gpu  |-> {"enable", "bars", "data", "comm", "dbdata", "mtdma", "bare"},
           vgpu |-> {"enable", "bars", "data", "mtdma", "bare"},
           apu  |-> {"data"}]

-----------------------------------------------------------------------------
Init ==
  /\ phase = [f \in Fns |-> "unbound"] /\ todo = [f \in Fns |-> <<>>]
  /\ held = [f \in Fns |-> {}] /\ drvdata = [f \in Fns |-> FALSE]
  /\ ret = [f \in Fns |-> 0] /\ fds = [f \in Fns |-> 0]
  /\ link = [f \in Fns |-> "normal"] /\ failed = [f \in Fns |-> {}]
  /\ stray = [f \in Fns |-> {}]
  /\ binds \in Machines

\* pci_disable_sriov removes the VFs, then turns SR-IOV off
SriovEnding == phase["gpu"] \in {"remove", "sysfs"} /\ todo["gpu"] # <<>> /\ Head(todo["gpu"]) = "sriov"

\* A VF is a device of its own while the PF's SR-IOV is on
Exists(f) == f = "vgpu" => "sriov" \in held["gpu"] /\ ~SriovEnding

Start(f) ==
  /\ phase[f] = "unbound" /\ Exists(f) /\ binds[f] > 0
  /\ phase' = [phase EXCEPT ![f] = "probe"]
  /\ todo' = [todo EXCEPT ![f] = Probe[f]]
  /\ ret' = [ret EXCEPT ![f] = 0]
  /\ binds' = [binds EXCEPT ![f] = @ - 1]
  /\ UNCHANGED <<held, drvdata, fds, link, failed, stray>>

\* The mem_region of the reserved buffer is one for the machine: it is free
\* unless an earlier probe lost it
CanGet(f, r) == r = "dbregion" => r \notin held[f]

StepOk(f) ==
  /\ phase[f] = "probe" /\ todo[f] # <<>>
  /\ LET r == Head(todo[f]).res IN
       /\ CanGet(f, r)
       /\ IF r = "drvdata" THEN /\ drvdata' = [drvdata EXCEPT ![f] = TRUE]
                                /\ UNCHANGED held
          ELSE /\ held' = [held EXCEPT ![f] = @ \cup {r}]
               /\ UNCHANGED drvdata
  /\ todo' = [todo EXCEPT ![f] = Tail(@)]
  /\ UNCHANGED <<phase, ret, fds, link, failed, stray, binds>>

\* Every step has succeeded, or the driver core is done with an error path
ProbeDone(f) ==
  /\ phase[f] = "probe" /\ todo[f] = <<>>
  /\ phase' = [phase EXCEPT ![f] = "bound"]
  /\ UNCHANGED <<todo, held, drvdata, ret, fds, link, failed, stray, binds>>

\* pcie_emu_gpu_free and the others do nothing while drvdata is NULL.
FreeSteps(f, h) == IF drvdata[f] THEN Free(f, h) ELSE <<>>

\* What a failing step leaves: emu_dmabuf_probe undoes its own steps only when
\* misc_register fails, and irq_init may fail with some vectors registered
Leftovers(f, r) ==
  CASE r = "dbmisc" -> {held[f] \ {"dbmap", "dbregion"}}
    [] r = "irq" -> {held[f], held[f] \cup {"irq"}}
    [] OTHER -> {held[f]}

StepFails(f) ==
  /\ phase[f] = "probe" /\ todo[f] # <<>>
  /\ LET s == Head(todo[f]) IN
       /\ \/ /\ s.fail = "go"
             /\ todo' = [todo EXCEPT ![f] = Tail(@)]
             /\ UNCHANGED <<phase, held, ret>>
          \/ /\ s.fail = "return"
             /\ phase' = [phase EXCEPT ![f] = "error"]
             /\ todo' = [todo EXCEPT ![f] = <<>>]
             /\ ret' = [ret EXCEPT ![f] = -1]
             /\ UNCHANGED held
          \/ /\ s.fail \in {"error", "zero"}
             /\ \E h \in Leftovers(f, s.res) :
                  /\ held' = [held EXCEPT ![f] = h]
                  /\ todo' = [todo EXCEPT ![f] = FreeSteps(f, h)]
             /\ phase' = [phase EXCEPT ![f] = "error"]
             /\ ret' = [ret EXCEPT ![f] = IF s.fail = "error" THEN -1 ELSE 0]
       /\ failed' = [failed EXCEPT ![f] = @ \cup {s.res}]
  /\ UNCHANGED <<drvdata, fds, link, stray, binds>>

\* misc_deregister may meet a device that never was registered, and the miscdev
\* it is given lies in emu_pcie; the other releases check what they are given
FreeStep(f) ==
  /\ phase[f] \in {"error", "remove", "sysfs"} /\ todo[f] # <<>>
  /\ LET r == Head(todo[f]) IN
       /\ r = "sriov" => phase["vgpu"] = "unbound"
       /\ drvdata' = [drvdata EXCEPT ![f] = @ /\ r # "drvdata"]
       /\ held' = [held EXCEPT ![f] = @ \ {r}]
       /\ stray' = [stray EXCEPT ![f] =
                      IF r = "misc" THEN @ \cup ({"misc", "data"} \ held[f]) ELSE @]
       /\ link' = IF r = "sriov" THEN [link EXCEPT !["vgpu"] = "normal"] ELSE link
  /\ todo' = [todo EXCEPT ![f] = Tail(@)]
  /\ UNCHANGED <<phase, ret, fds, failed, binds>>

\* probe, remove or the write to sysfs has returned.  A probe that returns 0
\* leaves the device bound, whatever its free function has released.
FreeDone(f) ==
  /\ phase[f] \in {"error", "remove", "sysfs"} /\ todo[f] = <<>>
  /\ IF phase[f] = "sysfs" \/ (phase[f] = "error" /\ ret[f] = 0)
     THEN /\ phase' = [phase EXCEPT ![f] = "bound"]
          /\ UNCHANGED held
     ELSE /\ phase' = [phase EXCEPT ![f] = "unbound"]
          /\ held' = [held EXCEPT ![f] = @ \ Devres[f]]
  /\ UNCHANGED <<todo, drvdata, ret, fds, link, failed, stray, binds>>

\* Faulty variant: a remove that frees before it turns SR-IOV off
RemoveSriovLast(f) == FreeSteps(f, held[f]) \o (IF f = "gpu" THEN <<"sriov">> ELSE <<>>)

RemoveSteps(f) == (IF f = "gpu" THEN <<"sriov">> ELSE <<>>) \o FreeSteps(f, held[f])

\* An open file keeps the module loaded, so rmmod waits for it; the removal of
\* a VF with its PF does not.  (An unbind through sysfs does not either.)
Remove(f) ==
  /\ phase[f] = "bound"
  /\ fds[f] = 0 \/ (f = "vgpu" /\ SriovEnding)
  /\ phase' = [phase EXCEPT ![f] = "remove"]
  /\ todo' = [todo EXCEPT ![f] = RemoveSteps(f)]
  /\ UNCHANGED <<held, drvdata, ret, fds, link, failed, stray, binds>>

\* pci_sriov_configure_simple, called by a write to sriov_numvfs of a bound PF,
\* whatever its probe has set up: it enables SR-IOV, or disables it, which
\* removes the VFs first
sriov_configure ==
  /\ phase["gpu"] = "bound"
  /\ \/ /\ "sriov" \notin held["gpu"]
        /\ held' = [held EXCEPT !["gpu"] = @ \cup {"sriov"}]
        /\ UNCHANGED <<phase, todo>>
     \/ /\ "sriov" \in held["gpu"]
        /\ phase' = [phase EXCEPT !["gpu"] = "sysfs"]
        /\ todo' = [todo EXCEPT !["gpu"] = <<"sriov">>]
        /\ UNCHANGED held
  /\ UNCHANGED <<drvdata, ret, fds, link, failed, stray, binds>>

-----------------------------------------------------------------------------
\* mt_test_open and mt_test_release do nothing themselves.  A module that is
\* being unloaded cannot be opened; a VF that goes with its PF can.
Open(f) ==
  /\ "misc" \in held[f] /\ fds[f] < MaxFds
  /\ phase[f] = "remove" => f = "vgpu" /\ SriovEnding
  /\ fds' = [fds EXCEPT ![f] = @ + 1]
  /\ UNCHANGED <<phase, todo, held, drvdata, ret, link, failed, stray, binds>>

Close(f) ==
  /\ fds[f] > 0
  /\ fds' = [fds EXCEPT ![f] = @ - 1]
  /\ UNCHANGED <<phase, todo, held, drvdata, ret, link, failed, stray, binds>>

\* The AER callbacks, which the PCI core calls on a bound device.  They stop
\* nothing and take drvdata as it is; the recovery goes on if the device is
\* unbound meanwhile.
UseDrvdata(f) ==
  stray' = [stray EXCEPT ![f] =
              IF phase[f] = "bound" /\ ~drvdata[f] THEN @ \cup {"drvdata"} ELSE @]

Aer(f, from, to) ==
  /\ link[f] = from /\ link' = [link EXCEPT ![f] = to]
  /\ UseDrvdata(f)
  /\ UNCHANGED <<phase, todo, held, drvdata, ret, fds, failed, binds>>

\* pci_channel_io_normal answers CAN_RECOVER, _frozen saves the state and asks
\* for a reset, _perm_failure disconnects
After == [normal |-> "recovering", frozen |-> "frozen", perm_failure |-> "lost"]

emu_gpu_error_detected(state) ==
  phase["gpu"] = "bound" /\ Aer("gpu", "normal", After[state])

emu_vgpu_error_detected(state) ==
  phase["vgpu"] = "bound" /\ Aer("vgpu", "normal", After[state])

emu_apu_error_detected(state) ==
  phase["apu"] = "bound" /\ Aer("apu", "normal", After[state])

error_detected ==
  \E state \in DOMAIN After :
     \/ emu_gpu_error_detected(state) \/ emu_vgpu_error_detected(state)
     \/ emu_apu_error_detected(state)

Between(f) == phase[f] \in {"bound", "unbound"}

slot_reset(f) == Between(f) /\ Aer(f, "frozen", "recovering")

error_resume(f) == Between(f) /\ Aer(f, "recovering", "normal")

Next ==
  \/ \E f \in Fns : \/ Start(f) \/ StepOk(f) \/ StepFails(f) \/ ProbeDone(f)
                    \/ FreeStep(f) \/ FreeDone(f) \/ Remove(f)
                    \/ Open(f) \/ Close(f) \/ slot_reset(f) \/ error_resume(f)
  \/ error_detected \/ sriov_configure

Spec == Init /\ [][Next]_vars

-----------------------------------------------------------------------------
\* Whoever may call into the driver finds what it uses: an interrupt handler
\* (registered from irq_init to qy_free_irq) emu_pcie, the BARs and an enabled
\* device, on every error path and in remove; a misc device of the GPU or a VF
\* its emu_pcie; and an open file of the GPU too, until a probe fails under it.
UsersCovered ==
  \A f \in Fns :
     /\ "irq" \in held[f] => {"data", "bars", "enable"} \subseteq held[f]
     /\ "misc" \in held[f] /\ f # "apu" => "data" \in held[f]
     /\ f = "gpu" /\ fds[f] > 0 /\ failed[f] \subseteq {"aer", "sriov"} =>
          {"data", "bars", "enable"} \subseteq held[f]

\* What is left when a function is unbound again: nothing but the AER enable
\* bit and the dma_device of a VF (mtdma_remove is never called), and after
\* these failures: the mem_region when ioremap of the buffer failed, the
\* APU's enabled device and BARs when pcim_iomap_regions or kzalloc failed.
NothingLeft ==
  \A f \in Fns : phase[f] = "unbound" =>
     \A r \in held[f] :
        \/ r = "aer"
        \/ r = "dmadev" /\ f = "vgpu"
        \/ r = "dbregion" /\ "dbmap" \in failed[f]
        \/ r = "enable" /\ f = "apu" /\ failed[f] \cap {"bars", "data"} # {}
        \/ r = "bars" /\ f = "apu" /\ "data" \in failed[f]

\* The steps after which a probe that fails returns 0
Silent == {"dbdata", "dbregion", "dbmap", "dbmisc", "mtdma"}

\* Nothing is used or released that is not there, except: misc_deregister
\* after irq_init or misc_register failed, the APU's emu_pcie, freed before
\* its miscdev is deregistered, and drvdata in an AER callback of a device
\* that stays bound because its probe failed with ret = 0.
StraysKnown ==
  \A f \in Fns :
     /\ stray[f] \subseteq {"misc", "data", "drvdata"}
     /\ "misc" \in stray[f] => failed[f] \cap {"irq", "misc"} # {}
     /\ "data" \in stray[f] => f = "apu"
     /\ "drvdata" \in stray[f] => failed[f] \cap Silent # {}

\* A VF is probed, bound or removed only while its PF is completely set up:
\* the PF turns SR-IOV on last and off first, and waits for the VFs.  The
\* exception is a PF that stays bound after its probe failed with ret = 0:
\* sriov_numvfs can still be written.
VfsUnderPf ==
  phase["vgpu"] # "unbound" =>
     \/ {"enable", "bars", "data", "irq", "misc", "dbmisc", "bare", "mtdma", "sriov"}
          \subseteq held["gpu"]
     \/ ~drvdata["gpu"] /\ failed["gpu"] \cap Silent # {}
=============================================================================
