------------------------------ MODULE RegSetup ------------------------------
(***************************************************************************)
(* Which registers the set-up of a function writes: the address            *)
(* translation unit (mt-emu.h), the translations and TrustZone filters of  *)
(* the GPU cores, the video units and the DMA engine (eata_api.c), the     *)
(* interrupt distributor (mt-emu-intr.c), the interrupt multiplexer        *)
(* (irq_init), the DMA engine and the MMU.                                 *)
(*                                                                         *)
(* A bank is a loop or a run of writes to registers of one kind, named by  *)
(* [kind, index of the unit or parameter].  It has the BAR it is written   *)
(* through (0: the PF's, 1: a VF's), the runs of dwords that are written,   *)
(* and the unit they are meant for.  A run and a unit are given as         *)
(* <<first address, address after the last>>.                              *)
(***************************************************************************)
EXTENDS RegMap, AddrMap

CONSTANT Vectors    \* bound: the numbers of vectors a GPU is given

ASSUME RegSetupAssumption == Vectors \subseteq 1 .. 32

VARIABLE done    \* the banks written so far

Bank(bar, unit, regs) == [bar |-> bar, unit |-> unit, regs |-> regs]

At(base, offsets) == {<<base + o, base + o + 4>> : o \in offsets}
Dwords(base, n) == IF n = 0 THEN {} ELSE {<<base, base + 4 * n>>}
-----------------------------------------------------------------------------
(* The address translation unit of the PCIe controller.                    *)
PCIE_CTRL == Block(PcieBlocks.PCIE_CTRL_CFG, 0)

REG_PCIE_IP_IATU(rgn, in) == PCIE_CTRL[1] + \h1e0000 + 512 * rgn + 256 * in

pcie_prog_inbound_regs(w) == At(REG_PCIE_IP_IATU(w, 1), {0, 4, \h14, \h18})
pcie_prog_inbound_vf_regs(w) == At(REG_PCIE_IP_IATU(w, 1), {0, 4, \h14, \h18, \h1c})
pcie_prog_outbound_regs(w) ==
  At(REG_PCIE_IP_IATU(w, 0), {0, 4, 8, \hc, \h10, \h14, \h18, \h20})

IatuBank(kind, n) ==
  Bank(0, PCIE_CTRL,
       CASE kind = "inbound"    -> pcie_prog_inbound_regs(IATU_NUM - 1)
                                     \cup pcie_prog_inbound_regs(IATU_NUM - 2)
         [] kind = "inbound_vf" -> UNION {pcie_prog_inbound_vf_regs(w) : w \in 0 .. (n - 1)}
         [] kind = "outbound"   -> pcie_prog_outbound_regs(0) \cup pcie_prog_outbound_regs(1))
-----------------------------------------------------------------------------
(* eata_api.c: the filter, the common registers and the descriptors of     *)
(* unit i of the GPU cores, of the video units and of the DMA engine.      *)
EATA_DESC_NUM == 48
EATA_VID_NUM == 2
GPU_CORE_NUM == 8

\* Faulty variant: the number of VFs of the other units.
EATA_VF_NUM_PER_GPU_ALL == EATA_VF_NUM

EATA_VF_NUM_PER_GPU == 6

eata_tzc_init(base) ==
  At(base, {8, \hc, \h108, \h10c, \h110, \h114, \h118, \h11c, \h120})

eata_common_init(base) == At(base, {0, \h20, \h24})

\* The GPU also enables the VFs and gives each its OSID.
gpu_eata_common_init(base) ==
  eata_common_init(base) \cup At(base, {\h34}) \cup Dwords(base + \h38, EATA_VF_NUM_PER_GPU)

eata_desc_init(base, vms) ==
  UNION {Dwords(base + 256 * vm, EATA_DESC_NUM) : vm \in 0 .. (vms - 1)}

GpuBank(kind, i) ==
  CASE kind = "gpu_tf" -> Bank(0, Block(GpuBlocks.GPU_EATA_TF_CFG, i),
                               eata_tzc_init(GPU_EATA_TF_CFG_BASE(i)))
    [] kind = "gpu_gc" -> Bank(0, Block(GpuBlocks.GPU_EATA_GC_CFG, i),
                               gpu_eata_common_init(GPU_EATA_GC_CFG_BASE(i)))
    [] kind = "gpu_ds" -> Bank(0, Block(GpuBlocks.GPU_EATA_DS_CFG, i),
                               eata_desc_init(GPU_EATA_DS_CFG_BASE(i), EATA_VF_NUM_PER_GPU))

VidBank(kind, i) ==
  CASE kind = "vid_tf" -> Bank(0, Block(VideoBlocks.VID_SS_EATA_TF_CFG, i),
                               eata_tzc_init(VID_SS_EATA_TF_CFG_BASE(i)))
    [] kind = "vid_gc" -> Bank(0, Block(VideoBlocks.VID_SS_EATA_GC_CFG, i),
                               eata_common_init(VID_SS_EATA_GC_CFG_BASE(i)))
    [] kind = "vid_ds" -> Bank(0, Block(VideoBlocks.VID_SS_EATA_DS_CFG, i),
                               eata_desc_init(VID_SS_EATA_DS_CFG_BASE(i), EATA_VF_NUM))

MtdmaEataBank(kind) ==
  CASE kind = "dma_tf" -> Bank(0, Block(PcieBlocks.PCIE_DMA_EATA_TF_CFG, 0),
                               eata_tzc_init(\h880000))
    [] kind = "dma_gc" -> Bank(0, Block(PcieBlocks.PCIE_DMA_EATA_GC_CFG, 0),
                               eata_common_init(\h881000))
    [] kind = "dma_ds" -> Bank(0, Block(PcieBlocks.PCIE_DMA_EATA_DS_CFG, 0),
                               eata_desc_init(\h884000, EATA_VF_NUM))

\* mtdma_eata_desc_en of the VFs that mtdma_eata_desc_init does not reach.
VfEataBank(n) ==
  Bank(0, Block(PcieBlocks.PCIE_DMA_EATA_DS_CFG, 0),
       At(\h884000, {256 * vm : vm \in EATA_VF_NUM .. (n - 1)}))

EataBanks ==
  ({"gpu_tf", "gpu_gc", "gpu_ds"} \X (0 .. (GPU_CORE_NUM - 1)))
    \cup ({"vid_tf", "vid_gc", "vid_ds"} \X (0 .. (EATA_VID_NUM - 1)))
    \cup ({"dma_tf", "dma_gc", "dma_ds"} \X {0})
-----------------------------------------------------------------------------
(* mt-emu-intr.c: the distributors of the board and of the chip, in a gap  *)
(* of the map.  Their tables give the register of each interrupt.          *)
PH_BD_INTD == <<\hbfc000, \hc00000>>
NoSpi == \hffff

host_bd_int_table(int_no) == IF int_no \in 1 .. 251 THEN int_no - 1 ELSE NoSpi
host_cd_int_table(int_no) == IF int_no \in 6 .. 84 THEN int_no - 6 ELSE NoSpi

HostInts == (12 .. 19) \cup (48 .. 56) \cup (69 .. 84)

SpiRegs(base, spis) == At(base, {\h800 + 4 * s : s \in spis \ {NoSpi}})

IntrBank(kind) ==
  CASE kind = "bd_spi" -> Bank(0, PH_BD_INTD,
         SpiRegs(PH_BD_INTD[1], {host_bd_int_table(x) : x \in HostInts}))
    [] kind = "cd_spi" -> Bank(0, PH_BD_INTD,
         SpiRegs(PH_BD_INTD[1] + \h2000, {host_cd_int_table(x) : x \in HostInts}))
-----------------------------------------------------------------------------
(* irq_init of a GPU that was given n vectors, and of a VF.  The next      *)
(* register of each bank is the first that the handlers use.               *)
REG_PCIE_PF_INT_MUX_BASE == \h2c8000

\* All sources lead to the first vector: eight registers of a vector's enables.
MuxBank(kind, n) ==
  Bank(0, PCIE_CTRL,
       CASE kind = "src_soft"    -> Dwords(REG_PCIE_PF_INT_MUX_BASE, 256)
         [] kind = "target_soft" -> Dwords(REG_PCIE_PF_INT_MUX_BASE + \h410, 32)
         [] kind = "enable"      -> Dwords(REG_PCIE_PF_INT_MUX_BASE + \h494, 8 * n)
         [] kind = "claim"       -> Dwords(REG_PCIE_PF_INT_MUX_BASE + \h938, n))

VfMuxBank(kind) ==
  Bank(1, <<\h2000, \h3000>>,
       CASE kind = "vf_src_soft"    -> Dwords(\h2080, 4)
         [] kind = "vf_target_soft" -> Dwords(\h2098, 8)
         [] kind = "vf_enable"      -> Dwords(\h20b8, 8)
         [] kind = "vf_claim"       -> Dwords(\h20d8, 8))
-----------------------------------------------------------------------------
(* The DMA engine: its common registers, with n VFs, and INTR_RAW of every *)
(* channel and direction; MTDMA_CH is where those of the channels begin.   *)
REG_DMA_COMM_BASE == \h380000
REG_DMA_CHAN_BASE == \h383000
CH_REGS == \h420

mtdma_comm_regs(n) ==
  At(REG_DMA_COMM_BASE, {\hc00, \h400, \h408, \h608, \hc20, \hc24, \hc40, \hc44})
    \cup Dwords(REG_DMA_COMM_BASE + \h20, n) \cup Dwords(REG_DMA_COMM_BASE + \h2000, n)

ChannelRegs(base) == UNION {Dwords(base + \h800 * d, CH_REGS \div 4) : d \in 0 .. 1}

DmaBank(kind, n) ==
  CASE kind = "comm"    -> Bank(0, PCIE_CTRL, mtdma_comm_regs(n))
    [] kind = "channels" -> Bank(0, PCIE_CTRL,
         UNION {ChannelRegs(REG_DMA_CHAN_BASE + \h1000 * i) : i \in VMs})
    [] kind = "vf_channel" -> Bank(1, <<\h3000, \h4000>>, ChannelRegs(\h3000))

\* pcie_mmu_cfg_init; the write the GPU's probe begins with.
MmuBank == Bank(0, PCIE_CTRL, At(\h2c0400, {0, 4}))
PhyBank == Bank(0, Block(PcieBlocks.PCIE_PHY_CFG, 0), At(\h71c018, {0}))
-----------------------------------------------------------------------------
IatuBanks(n) ==
  {<<"inbound", 0>>, <<"outbound", 0>>, <<"inbound_vf", n>>, <<"dma_vf", n>>}
IntrBanks == {<<"bd_spi", 0>>, <<"cd_spi", 0>>}
MuxBanks(n) == {<<"src_soft", 0>>, <<"target_soft", 0>>, <<"enable", n>>, <<"claim", n>>}
VfBanks == {"vf_src_soft", "vf_target_soft", "vf_enable", "vf_claim", "vf_channel"} \X {0}

AllBanks ==
  {<<"phy", 0>>, <<"mmu", 0>>, <<"channels", 0>>} \cup {<<"comm", n>> : n \in VfNums}
    \cup (UNION {IatuBanks(n) : n \in VfNums}) \cup IntrBanks
    \cup (UNION {MuxBanks(n) : n \in Vectors}) \cup VfBanks \cup EataBanks

Banks ==
  [b \in AllBanks |->
     CASE b[1] \in {"inbound", "outbound", "inbound_vf"} -> IatuBank(b[1], b[2])
       [] b[1] \in {"gpu_tf", "gpu_gc", "gpu_ds"} -> GpuBank(b[1], b[2])
       [] b[1] \in {"vid_tf", "vid_gc", "vid_ds"} -> VidBank(b[1], b[2])
       [] b[1] \in {"dma_tf", "dma_gc", "dma_ds"} -> MtdmaEataBank(b[1])
       [] b[1] = "dma_vf" -> VfEataBank(b[2])
       [] b[1] \in {"bd_spi", "cd_spi"} -> IntrBank(b[1])
       [] b[1] \in {"src_soft", "target_soft", "enable", "claim"} -> MuxBank(b[1], b[2])
       [] b[1] \in {"vf_src_soft", "vf_target_soft", "vf_enable", "vf_claim"} -> VfMuxBank(b[1])
       [] b[1] \in {"comm", "channels", "vf_channel"} -> DmaBank(b[1], b[2])
       [] b[1] = "mmu" -> MmuBank
       [] b[1] = "phy" -> PhyBank]

Stray(bank) == \E r \in bank.regs : r[1] < bank.unit[1] \/ r[2] > bank.unit[2]

Strays == UNION {IF Stray(Banks[b]) THEN {b} ELSE {} : b \in AllBanks}

Clash(a, b) ==
  /\ a.bar = b.bar
  /\ \E r \in a.regs, s \in b.regs : r[1] < s[2] /\ s[1] < r[2]

Clashes ==
  UNION {{<<a, b>> : b \in {x \in AllBanks : x # a /\ Clash(Banks[a], Banks[x])}} :
           a \in AllBanks}

BlocksApart ==
  /\ \A a, b \in Blocks : a # b => a[2] <= b[1] \/ b[2] <= a[1]
  /\ \A a \in Blocks : a[2] <= PH_BD_INTD[1] \/ PH_BD_INTD[2] <= a[1]

\* The second names of the GPU's blocks lead to the same blocks.
AliasesAgree ==
  \A i \in 0 .. (GPU_CORE_NUM - 1) :
    /\ MC_BASE.EATA_TF_CFG_MC[i] = GPU_EATA_TF_CFG_BASE(i)
    /\ MC_BASE.EATA_CFG_MC[i] = GPU_EATA_GC_CFG_BASE(i)
    /\ MC_BASE.EATA_DESC_MC[i] = GPU_EATA_DS_CFG_BASE(i)
    /\ MC_BASE.AMF_MC[i] = Block(GpuBlocks.GPU_AMT_CFG, i)[1]
    /\ MC_BASE.TZC_MC[i] = Block(GpuBlocks.GPU_TZC_CFG, i)[1]
    /\ MC_BASE.MC_CFG[i] = Block(GpuBlocks.GPU_CFG, i)[1]

\* With more than 48 VFs, as with the 60 of this tree, iatu_init gives a VF window
\* 48, which it has just given to the APU, and with more than 49 window 49, the PF's.
VfsTakeWindows(p) ==
  \E n \in VfNums :
    n > IATU_NUM - 2 /\ {p[1], p[2]} = {<<"inbound", 0>>, <<"inbound_vf", n>>}

\* Whatever part of the set-up runs, each loop over registers (VFs, vectors, VMs,
\* descriptors, channels, interrupts, each with its own bound, base and stride)
\* stays inside the unit it is meant for, and writes no register of another
\* loop, nor one that the handlers or the channels use; the units themselves are
\* apart, and the GPU's are the same under both of their names.  One overlap
\* there is: the windows of the VFs and of the PF and the APU, from 49 VFs on.
RegistersApart ==
  /\ done \cap Strays = {}
  /\ \A p \in Clashes : {p[1], p[2]} \subseteq done => VfsTakeWindows(p)
  /\ BlocksApart /\ AliasesAgree
=============================================================================
