------------------------------- MODULE Layout -------------------------------
(***************************************************************************)
(* The set-up of a GPU in the order of its probe (mt-emu-gpu.c): windows   *)
(* and translations (AddrMap), the page tables of the MMU (PageTable), the *)
(* registers that each step writes (RegSetup), then the VFs one by one.    *)
(* The calls of iatu_init, pcie_intr_init and pcie_mmu_init are switched   *)
(* off in this tree and gpu_eata_init, vid_eata_init and mtdma_eata_init   *)
(* have no caller, so each of these steps may also be left out here.       *)
(***************************************************************************)
EXTENDS Tools, PageTable

CONSTANT VfsBeside    \* bound: the VFs that are probed where there are page tables

ASSUME LayoutAssumption == VfsBeside \in Nat

LayoutInit == MapInit /\ PtInit /\ done = {}

layoutVars == <<mapVars, ptVars, done>>

Writes(banks) == done' = done \cup banks

Muxed == \E n \in Vectors : <<"claim", n>> \in done

\* The write that the probe begins with, before any of the set-up.
phy_init ==
  /\ done = {} /\ Writes({<<"phy", 0>>})
  /\ UNCHANGED <<mapVars, ptVars>>

\* gpu_eata_init, vid_eata_init and mtdma_eata_init of every unit.  They clear the
\* translations, so they have to come before iatu_init.
eata_init ==
  /\ done = {<<"phy", 0>>} /\ Writes(EataBanks)
  /\ eata' = mtdma_eata_desc_init(eata)
  /\ UNCHANGED <<vf_num, inb, outb, pf_info, vf_info, ptVars>>

SetupWindows ==
  /\ done # {} /\ IntrBanks \cap done = {} /\ ~Muxed
  /\ iatu_init
  /\ Writes(IatuBanks(vf_num) \cup {<<"dma_ds", 0>>})
  /\ UNCHANGED ptVars

pcie_intr_init ==
  /\ done # {} /\ IntrBanks \cap done = {} /\ ~Muxed
  /\ Writes(IntrBanks)
  /\ UNCHANGED <<mapVars, ptVars>>

irq_init ==
  /\ done # {} /\ ~Muxed
  /\ \E n \in Vectors : Writes(MuxBanks(n))
  /\ UNCHANGED <<mapVars, ptVars>>

mtdma_comm_init ==
  /\ Muxed /\ <<"comm", vf_num>> \notin done
  /\ Writes({<<"comm", vf_num>>})
  /\ UNCHANGED <<mapVars, ptVars>>

SetupChannels ==
  /\ <<"comm", vf_num>> \in done
  /\ mtdma_bare_init
  /\ Writes({<<"channels", 0>>})
  /\ UNCHANGED ptVars

\* pcie_mmu_init comes after mtdma_bare_init and before SR-IOV is enabled.
pcie_mmu_init ==
  /\ pf_info # <<>> /\ vf_info = <<>>
  /\ PtNext
  /\ Writes(IF pcbase' # pcbase THEN {<<"mmu", 0>>} ELSE {})
  /\ UNCHANGED mapVars

\* irq_init and mtdma_bare_init_vf of the next VF
ProbeVf ==
  /\ next = 0 \/ (pcbase # 0 /\ Len(vf_info) < VfsBeside)
  /\ mtdma_bare_init_vf
  /\ Writes(VfBanks)
  /\ UNCHANGED ptVars

LayoutNext ==
  \/ phy_init \/ eata_init \/ SetupWindows \/ pcie_intr_init \/ irq_init
  \/ mtdma_comm_init \/ SetupChannels \/ pcie_mmu_init \/ ProbeVf

LayoutSpec == LayoutInit /\ [][LayoutNext]_layoutVars
-----------------------------------------------------------------------------
Apart(a, sizeA, b, sizeB) == a + sizeA <= b \/ b + sizeB <= a

\* What a VF reaches: the places of its valid descriptors, each of one GB.
Reached(v) == {eata[v][x] : x \in DOMAIN eata[v]} \ {Invalid}

Lists == {u.ll : u \in Used}

Tables == {a[1] \div 512 : a \in DOMAIN mem}

Vfs == 0 .. (vf_num - 1)

\* The VFs' windows belong to the VFs, in their order, and have one target: the
\* bottom of the VFs' memory, where VF 0's own begins.  With 48 to 59 VFs, or
\* more than 60, that memory does not fit under the reserve and the target wraps.
VfWindows ==
  /\ \A v \in Vfs : inb[v].kind = "vf" /\ inb[v].func = v
  /\ vf_num \in 0 .. 47 \cup {VF_NUM_MAX} =>
       \A v \in Vfs : inb[v].target \in Reached(0)

\* The PF's window and the APU's: the VFs leave both alone up to 48 VFs.
OwnWindows ==
  vf_num <= IATU_NUM - 2 =>
    /\ \E w \in VMs : inb[w] = pcie_prog_inbound_atu(0, 0)
    /\ \E w \in VMs : inb[w] = pcie_prog_inbound_atu(1, LADDR_APU)

\* What VF v reaches: nothing of another VF up to the 48 VFs that
\* mtdma_eata_desc_init clears; only the device's memory, without the APU's, as
\* long as the VFs fit under the reserve; no list up to 44 VFs, and no page table
\* up to 14.
VfMemory(v) ==
  \A a \in Reached(v) :
    /\ vf_num <= 48 => \A w \in Vfs \ {v} : \A b \in Reached(w) :
                         Apart(a, SIZE_VGPU_DDR, b, SIZE_VGPU_DDR)
    /\ vf_num <= 47 => /\ 0 <= a /\ a + SIZE_VGPU_DDR <= DDR_SZ_FREE
                       /\ Apart(a, SIZE_VGPU_DDR, LADDR_APU, SIZE_APU_DDR)
    /\ vf_num <= 44 => \A x \in Lists : Apart(a, SIZE_VGPU_DDR, x, 1)
    /\ vf_num <= 14 => \A x \in Tables : Apart(a, SIZE_VGPU_DDR, x, 1)

\* Once the translations are set up, what a VF reaches through the DMA engine is
\* one GB of its own: not the memory of another VF, of the APU, nor memory above
\* or below the device's, and neither a descriptor list nor a page table.  The PF
\* and the APU still have their windows, each VF has one of its own, and the
\* outbound windows do not overlap.  Each part is claimed up to the number of VFs
\* that the memory map has room for.  None of the limits reaches the VF_NUM of
\* this tree: with 60 VFs there are only their own windows (the last of them in
\* place of the PF's and the APU's), their common target 0, and the outbound
\* windows.  What the controller adds to that target for VF v is not in the code.
Isolated ==
  outb[0] # OutOff =>
    /\ VfWindows /\ OwnWindows
    /\ \A v \in Vfs : VfMemory(v)
    /\ outb[0].limit < outb[1].base
=============================================================================
