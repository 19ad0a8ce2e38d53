------------------------------ MODULE AddrMap ------------------------------
(***************************************************************************)
(* Where the PF and the VFs of the GPU find things: the windows and        *)
(* translations that iatu_init (mt-emu-gpu.c) programs, and the registers  *)
(* and descriptor lists of the DMA channels (build_dma_info and            *)
(* build_dma_info_vf of mt-emu-mtdma-bare.c).                              *)
(*                                                                         *)
(* Addresses count units of 2 MB, the size of one list; register addresses *)
(* count units of 0x800, the registers of one channel and direction.       *)
(***************************************************************************)
EXTENDS Integers, Sequences, FiniteSets

CONSTANTS
  VfNums,      \* the values that VF_NUM may be built with
  EataDescs    \* bound: descriptors of one VM that are looked at

ASSUME AddrMapAssumption ==
  /\ VfNums \subseteq 0 .. 64 /\ EataDescs \in Nat \ {0}

IATU_NUM == 50
EATA_VF_NUM == 48
PCIE_DMA_CH_NUM == 64
VF_NUM_MAX == 60

GB == 512
DDR_SZ == 48 * GB
DDR_SZ_RESV == GB
DDR_SZ_FREE == DDR_SZ - DDR_SZ_RESV
LADDR_APU == DDR_SZ_FREE
SIZE_APU_DDR == 16
SIZE_VGPU_DDR == GB
SIZE_OUTBOUND == 512 * GB
P2P_OUTB_SIZE == GB
LADDR_P2P == SIZE_OUTBOUND - P2P_OUTB_SIZE
P2P_REMOTE == 3137664      \* 0x5fc10000000
LL_BASE == 2 * GB          \* 0x80000000

VARIABLES
  vf_num,      \* VF_NUM
  inb, outb,   \* the windows of the address translation unit
  eata,        \* the translations of the DMA engine, by VM and descriptor
  pf_info,     \* mtdma_info of the PF, as mtdma_bare_init copies it
  vf_info      \* the channels of the VFs probed so far, in their order

mapVars == <<vf_num, inb, outb, eata, pf_info, vf_info>>

VMs == 0 .. (PCIE_DMA_CH_NUM - 1)

\* Faulty variant: the reserve at the top of the memory is forgotten.
LADDR_VGPU_BASE_TOP ==
  IF vf_num = VF_NUM_MAX THEN 0 ELSE DDR_SZ - SIZE_VGPU_DDR * vf_num

\* The top of the device's memory, or all of it.  With 48 to 59 VFs the unsigned
\* value wraps; it is negative here.
LADDR_VGPU_BASE ==
  IF vf_num = VF_NUM_MAX THEN 0
  ELSE DDR_SZ - DDR_SZ_RESV - SIZE_VGPU_DDR * vf_num

LADDR_VGPU(vf) == LADDR_VGPU_BASE + SIZE_VGPU_DDR * vf

Invalid == -1
Off == [kind |-> "off", func |-> 0, target |-> 0]
OutOff == [base |-> 0, limit |-> -1, target |-> 0]

\* After a reset every window is off; the translations hold anything.
MapInit ==
  /\ vf_num \in VfNums
  /\ inb = [w \in VMs |-> Off]
  /\ outb = [w \in 0 .. 1 |-> OutOff]
  /\ \E old \in {Invalid, 0} :
       eata = [vm \in VMs |-> [x \in 0 .. (EataDescs - 1) |-> old]]
  /\ pf_info = <<>> /\ vf_info = <<>>
-----------------------------------------------------------------------------
(* iatu_init.                                                              *)
pcie_prog_inbound_atu(func, addr) ==
  [kind |-> "pf", func |-> func, target |-> addr]

pcie_prog_inbound_atu_vf(func, addr) ==
  [kind |-> "vf", func |-> func, target |-> addr]

pcie_prog_outbound_atu(addr, remote, size) ==
  [base |-> addr, limit |-> addr + size - 1, target |-> remote]

\* All descriptors of the first EATA_VF_NUM VMs are made invalid.
mtdma_eata_desc_init(e) ==
  [vm \in VMs |-> IF vm < EATA_VF_NUM
                  THEN [x \in DOMAIN e[vm] |-> Invalid] ELSE e[vm]]

\* A descriptor maps one GB; of the destination it has ten bits, above that GB.
mtdma_eata_desc_en(descs, src, dest) ==
  [descs EXCEPT ![src \div GB] = ((dest \div GB) % 1024) * GB]

\* The VFs are programmed last.
iatu_init ==
  /\ inb = [w \in VMs |-> Off] /\ pf_info = <<>>
  /\ inb' = [w \in VMs |->
       IF w < vf_num THEN pcie_prog_inbound_atu_vf(w, LADDR_VGPU_BASE)
       ELSE IF w = IATU_NUM - 1 THEN pcie_prog_inbound_atu(0, 0)
       ELSE IF w = IATU_NUM - 2 THEN pcie_prog_inbound_atu(1, LADDR_APU)
       ELSE inb[w]]
  /\ outb' = [w \in 0 .. 1 |->
       IF w = 0 THEN pcie_prog_outbound_atu(0, 0, SIZE_OUTBOUND - P2P_OUTB_SIZE)
       ELSE pcie_prog_outbound_atu(LADDR_P2P, P2P_REMOTE, P2P_OUTB_SIZE)]
  /\ eata' = LET clear == mtdma_eata_desc_init(eata)
             IN  [vm \in VMs |->
                    IF vm < vf_num
                    THEN mtdma_eata_desc_en(clear[vm], 0, LADDR_VGPU(vm))
                    ELSE clear[vm]]
  /\ UNCHANGED <<vf_num, pf_info, vf_info>>
-----------------------------------------------------------------------------
(* The channels: registers, list in device memory, list in host memory.    *)
(* Direction 0 is write, 1 is read.                                        *)
build_dma_info(wr_ch_cnt, rd_ch_cnt) ==
  LET first(d) == IF d = 0 THEN 0 ELSE wr_ch_cnt
      cnt(d) == IF d = 0 THEN wr_ch_cnt ELSE rd_ch_cnt
  IN  [d \in 0 .. 1 |->
         [i \in 0 .. (cnt(d) - 1) |->
            [rg |-> 2 * (899 + i) + (1 - d),       \* 0x383000 + 0x1000 * i
             ll |-> LL_BASE + first(d) + i,
             host |-> first(d) + i]]]

\* Faulty variant: the read list follows the write list, as in host memory.
build_dma_info_vf_next(ch) ==
  [d \in 0 .. 1 |-> [rg |-> 2 * 3 + (1 - d), ll |-> LL_BASE + d + ch,
                     host |-> d + ch]]

\* Channel devfn - 2 of a VF, through the VF's own BAR.  A VF has no buffer in
\* host memory: its host lists are offsets from NULL.
build_dma_info_vf(ch) ==
  [d \in 0 .. 1 |-> [rg |-> 2 * 3 + (1 - d),
                     ll |-> LL_BASE + PCIE_DMA_CH_NUM * d + ch,
                     host |-> d + ch]]

\* The PF's probe.
mtdma_bare_init ==
  /\ pf_info = <<>>
  /\ pf_info' = build_dma_info(PCIE_DMA_CH_NUM, PCIE_DMA_CH_NUM)
  /\ UNCHANGED <<vf_num, inb, outb, eata, vf_info>>

\* The probe of the next VF; the kernel adds the VFs in ascending order.
mtdma_bare_init_vf ==
  /\ pf_info # <<>> /\ Len(vf_info) < vf_num
  /\ vf_info' = Append(vf_info, build_dma_info_vf(Len(vf_info)))
  /\ UNCHANGED <<vf_num, inb, outb, eata, pf_info>>

MapNext == iatu_init \/ mtdma_bare_init \/ mtdma_bare_init_vf
-----------------------------------------------------------------------------
(* Every channel of every function, with the engine's registers behind its *)
(* register address (external): the PF sees all of them at 0x383000, VF n  *)
(* sees those of channel n at 0x3000 of its own BAR.                       *)
Used ==
  {[hw |-> pf_info[d][i].rg - 2 * 899, ll |-> pf_info[d][i].ll] :
      d \in DOMAIN pf_info, i \in VMs}
  \cup
  {[hw |-> vf_info[n + 1][d].rg - 6 + 2 * n, ll |-> vf_info[n + 1][d].ll] :
      n \in 0 .. (Len(vf_info) - 1), d \in 0 .. 1}

\* Two functions that drive the same channel of the engine have its list at the
\* same place of the device memory, and two channels never share a list,
\* although the PF and the VFs compute the places from different counts and
\* offsets.
ListsApart ==
  LET places == {u.ll : u \in Used}
      channels == {u.hw : u \in Used}
  IN  Cardinality(Used) = Cardinality(places) /\ Cardinality(Used) = Cardinality(channels)
=============================================================================
