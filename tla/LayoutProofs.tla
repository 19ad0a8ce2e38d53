---------------------------- MODULE LayoutProofs ----------------------------
(***************************************************************************)
(* Proofs about Layout: where the descriptor lists, the memory of the VFs  *)
(* and the page tables lie, that the tools look there, where the tables    *)
(* lead, and that the registers of the set-up's loops are apart, for every *)
(* number of VFs and vectors, every page size and pool, and every order of *)
(* the set-up.                                                             *)
(***************************************************************************)
EXTENDS Layout, SumProofs
-----------------------------------------------------------------------------
(* The page tables lie in their pools, whatever the arrays that find them  *)
(* again contain.                                                          *)

Indices == 0 .. (IndexMod - 1)
PrPages == {pr_pool(n) : n \in Indices}
PdPages == {pd_pool(n) : n \in Indices}
PtPages == {pt_pool(n) : n \in Indices}
TablePages == {PC_BASE} \cup PrPages \cup PdPages \cup PtPages

\* An array of found entries leads to the tables of one pool.
Leads(ass, pages) ==
  \A k \in Indices : ass[k].addr = <<0, 0>> \/ ass[k].base \in pages

PtInv ==
  /\ next \in Nat
  /\ Leads(pc_ass, PrPages) /\ Leads(pr_ass, PdPages) /\ Leads(pd_ass, PtPages)
  /\ DOMAIN pc_ass = Indices /\ DOMAIN pr_ass = Indices
  /\ DOMAIN pd_ass = Indices /\ DOMAIN pt_ass = Indices
  /\ \A a \in DOMAIN mem : a[1] \in TablePages

LEMMA PoolFacts ==
  /\ IndexMod \in Nat \ {0} /\ 0 \notin TablePages
  /\ TablePages \subseteq PC_BASE .. (PC_BASE + 24580 + 4 * IndexMod)
<1>1. IndexMod \in Nat \ {0}
  BY PageTableAssumption
<1> QED
  BY <1>1 DEF TablePages, PrPages, PdPages, PtPages, pr_pool, pd_pool, pt_pool, Indices,
              PC_BASE, PR_BASE, PD_BASE, PT_BASE

\* A known entry is one of those noted, so its base is in the pool.
LEMMA BelowFacts ==
  ASSUME NEW ass, NEW pages, Leads(ass, pages), NEW a, a # <<0, 0>>,
         NEW n \in Indices, NEW fresh \in pages
  PROVE  Below(ass, a, n, fresh) \in pages
<1>0. IndexMod \in Nat \ {0}
  BY PageTableAssumption
<1>1. CASE ~Known(ass, a, n)
  BY <1>1 DEF Below
<1>2. CASE Known(ass, a, n)
  <2> DEFINE S == {k \in 0 .. n : ass[k].addr = a}
             P(k) == ass[k].addr = a /\ \A l \in 0 .. (k - 1) : ass[l].addr # a
  <2>1. S \in SUBSET Nat /\ S # {}
    BY <1>2 DEF Known, Indices
  <2>2. PICK k \in S : \A l \in S : k <= l
    BY <2>1, Least
  <2>3. k \in 0 .. n /\ P(k)
    <3>1. ASSUME NEW l \in 0 .. (k - 1), ass[l].addr = a PROVE FALSE
      <4>1. l \in 0 .. n /\ l < k
        BY <1>0, <2>2 DEF Indices
      <4>2. l \in S
        BY <3>1, <4>1
      <4>3. k <= l
        BY <2>2, <4>2
      <4> QED
        BY <1>0, <2>1, <2>2, <4>1, <4>2, <4>3
    <3> QED
      BY <2>2, <3>1
  <2>4. PICK m \in 0 .. n : P(m) /\ m = CHOOSE x \in 0 .. n : P(x)
    BY <2>3
  <2>5. Below(ass, a, n, fresh) = ass[m].base
    BY <1>2, <2>4 DEF Below, BaseOf
  <2>6. m \in Indices
    BY <1>0 DEF Indices
  <2> QED
    BY <2>4, <2>5, <2>6 DEF Leads
<1> QED
  BY <1>1, <1>2

LEMMA NotedFacts ==
  ASSUME NEW ass, DOMAIN ass = Indices, NEW pages, Leads(ass, pages), NEW a, NEW stored,
         NEW n \in Indices, NEW fresh \in pages
  PROVE  /\ DOMAIN Noted(ass, a, n, stored, fresh) = Indices
         /\ Leads(Noted(ass, a, n, stored, fresh), pages)
<1>1. CASE Known(ass, a, n)
  BY <1>1 DEF Noted
<1>2. CASE ~Known(ass, a, n)
  <2> DEFINE new == [addr |-> stored, base |-> fresh]
             b == [ass EXCEPT ![n] = new]
  <2>1. Noted(ass, a, n, stored, fresh) = b
    BY <1>2 DEF Noted
  <2>2. new.base = fresh
    OBVIOUS
  <2> HIDE DEF new
  <2>3. DOMAIN b = Indices /\ Leads(b, pages)
    BY <2>2 DEF Leads
  <2> QED
    BY <2>1, <2>3
<1> QED
  BY <1>1, <1>2

LEMMA WrittenFacts ==
  ASSUME NEW m, NEW ass, NEW a, NEW n, NEW base
  PROVE  DOMAIN Written(m, ass, a, n, base) \subseteq DOMAIN m \cup {a}
  BY DEF Written

LEMMA InitPt == PtInit => PtInv
<1> SUFFICES ASSUME PtInit PROVE PtInv
  OBVIOUS
<1> DEFINE none == [n \in Indices |-> Unused]
<1>1. pc_ass = none /\ pr_ass = none /\ pd_ass = none /\ pt_ass = none
  BY DEF PtInit, Indices
<1>2. Unused.addr = <<0, 0>>
  BY DEF Unused
<1>3. DOMAIN none = Indices /\ \A pages : Leads(none, pages)
  BY <1>2 DEF Leads
<1>4. next = 0 /\ mem = <<>>
  BY DEF PtInit
<1> HIDE DEF none
<1> QED
  BY <1>1, <1>3, <1>4 DEF PtInv

LEMMA PageStep ==
  ASSUME PtInv, NEW j \in Nat, gen_page_desc(j), next' \in Nat
  PROVE  PtInv'
<1> DEFINE n == j % IndexMod
           v == va_pool(j)
           large == va_page_size >= 5
           pcA == <<PC_BASE, pc_index(v)>>
           pr_base == Below(pc_ass, pcA, n, pr_pool(n))
           prA == <<pr_base, pr_index(v)>>
           pd_base == Below(pr_ass, prA, n, pd_pool(n))
           pdA == <<pd_base, pd_index(v)>>
           pt_base == Below(pd_ass, pdA, n, pt_pool(n))
           ptA == <<pt_base, pt_index(v)>>
           pa_page == Below(pt_ass, ptA, n, pa_pool(n))
           m1 == Written(mem, pc_ass, pcA, n, IF large THEN pd_base ELSE pr_base)
           m2 == IF large THEN m1 ELSE Written(m1, pr_ass, prA, n, pd_base)
           m3 == Written(m2, pd_ass, pdA, n, pt_base)
<1>1. /\ pc_ass' = Noted(pc_ass, pcA, n, pcA, pr_base)
      /\ pr_ass' = Noted(pr_ass, prA, n, pcA, pd_base)
      /\ pd_ass' = Noted(pd_ass, pdA, n, pdA, pt_base)
      /\ pt_ass' = Noted(pt_ass, ptA, n, ptA, pa_page)
      /\ mem' = Written(m3, pt_ass, ptA, n, pa_page)
  BY Zenon DEF gen_page_desc
<1>2. n \in Indices
  <2>1. IndexMod \in Nat \ {0}
    BY PageTableAssumption
  <2> QED
    BY <2>1 DEF Indices
<1>3. /\ pr_pool(n) \in PrPages /\ pd_pool(n) \in PdPages /\ pt_pool(n) \in PtPages
  BY <1>2 DEF PrPages, PdPages, PtPages
<1>4. /\ PC_BASE \in TablePages /\ PrPages \subseteq TablePages
      /\ PdPages \subseteq TablePages /\ PtPages \subseteq TablePages
      /\ 0 \notin TablePages
  BY PoolFacts DEF TablePages
<1> HIDE DEF n, v
<1>5. pcA # <<0, 0>> /\ pcA[1] = PC_BASE
  BY <1>4
<1> HIDE DEF pcA
<1>6. pr_base \in PrPages
  BY <1>2, <1>3, <1>5, BelowFacts DEF PtInv
<1>7. prA # <<0, 0>> /\ prA[1] = pr_base
  BY <1>4, <1>6
<1> HIDE DEF pr_base, prA
<1>8. pd_base \in PdPages
  BY <1>2, <1>3, <1>7, BelowFacts DEF PtInv
<1>9. pdA # <<0, 0>> /\ pdA[1] = pd_base
  BY <1>4, <1>8
<1> HIDE DEF pd_base, pdA
<1>10. pt_base \in PtPages
  BY <1>2, <1>3, <1>9, BelowFacts DEF PtInv
<1>11. ptA[1] = pt_base
  OBVIOUS
<1> HIDE DEF pt_base, ptA, pa_page
<1>12. /\ DOMAIN pc_ass' = Indices /\ Leads(pc_ass', PrPages)
       /\ DOMAIN pr_ass' = Indices /\ Leads(pr_ass', PdPages)
       /\ DOMAIN pd_ass' = Indices /\ Leads(pd_ass', PtPages)
  BY <1>1, <1>2, <1>6, <1>8, <1>10, NotedFacts DEF PtInv
<1>13. DOMAIN pt_ass' = Indices
  BY <1>1 DEF Noted, PtInv
<1>14. \A a \in DOMAIN mem' : a[1] \in TablePages
  <2>1. DOMAIN m1 \subseteq DOMAIN mem \cup {pcA}
    BY WrittenFacts
  <2> HIDE DEF m1
  <2>2. DOMAIN m2 \subseteq DOMAIN m1 \cup {prA}
    BY WrittenFacts
  <2> HIDE DEF m2
  <2>3. DOMAIN m3 \subseteq DOMAIN m2 \cup {pdA}
    BY WrittenFacts
  <2> HIDE DEF m3
  <2>4. DOMAIN mem' \subseteq DOMAIN m3 \cup {ptA}
    BY <1>1, WrittenFacts
  <2>5. DOMAIN mem' \subseteq DOMAIN mem \cup {pcA, prA, pdA, ptA}
    BY <2>1, <2>2, <2>3, <2>4
  <2> QED
    BY <1>4, <1>5, <1>6, <1>7, <1>8, <1>9, <1>10, <1>11, <2>5 DEF PtInv
<1> QED
  BY <1>12, <1>13, <1>14 DEF PtInv, PrPages, PdPages, PtPages, TablePages, pr_pool, pd_pool, pt_pool

LEMMA NextPt == PtInv /\ [PtNext]_ptVars => PtInv'
<1> SUFFICES ASSUME PtInv, [PtNext]_ptVars PROVE PtInv'
  OBVIOUS
<1>1. CASE setup_page_desc
  BY <1>1, PageStep DEF setup_page_desc, PtInv
<1>2. CASE pcie_mmu_cfg_init
  BY <1>2 DEF pcie_mmu_cfg_init, PtInv, Leads, PrPages, PdPages, PtPages, TablePages, pr_pool,
              pd_pool, pt_pool
<1>3. CASE UNCHANGED ptVars
  BY <1>3 DEF ptVars, PtInv, Leads
<1> QED
  BY <1>1, <1>2, <1>3 DEF PtNext
-----------------------------------------------------------------------------
(* The channels: the PF's and those of the VFs probed so far are entries   *)
(* of one table, by direction and channel of the engine.                   *)

Slot(d, i) == [hw |-> 2 * i + (1 - d), ll |-> LL_BASE + PCIE_DMA_CH_NUM * d + i]

VfInfos == {build_dma_info_vf(ch) : ch \in VMs}

ChannelInv ==
  /\ vf_num \in VfNums
  /\ pf_info = <<>> \/ pf_info = build_dma_info(PCIE_DMA_CH_NUM, PCIE_DMA_CH_NUM)
  /\ vf_info \in Seq(VfInfos) /\ Len(vf_info) <= vf_num
  /\ \A n \in 1 .. Len(vf_info) : vf_info[n] = build_dma_info_vf(n - 1)

\* The place that the descriptor of VF v leads to: of its ten bits, with a VF
\* memory that does not fit, the upper ones wrap.
Dest(v) == ((LADDR_VGPU(v) \div GB) % 1024) * GB

\* What iatu_init leaves, and no later step of the set-up changes: in
\* particular no eata_init comes after it.
Placed ==
  /\ <<"dma_ds", 0>> \in done
  /\ \A v \in Vfs : inb[v] = pcie_prog_inbound_atu_vf(v, LADDR_VGPU_BASE)
  /\ \A v \in Vfs : v < EATA_VF_NUM => Reached(v) = {Dest(v)}
  /\ vf_num <= IATU_NUM - 2 => /\ inb[IATU_NUM - 1] = pcie_prog_inbound_atu(0, 0)
                               /\ inb[IATU_NUM - 2] = pcie_prog_inbound_atu(1, LADDR_APU)
  /\ outb[0].limit < outb[1].base

\* There are no more tables than va_pool_index, a uint8_t, can tell apart.
ByteIndices == IndexMod <= 256

\* Every VM has its descriptors.
Descs == \A v \in VMs : DOMAIN eata[v] = 0 .. (EataDescs - 1)

WindowInv == Descs /\ (outb[0] # OutOff => Placed)

LayoutInv == PtInv /\ ChannelInv
-----------------------------------------------------------------------------
LEMMA InitChannels == MapInit => ChannelInv
<1> SUFFICES ASSUME MapInit PROVE ChannelInv
  OBVIOUS
<1>1. vf_num \in VfNums /\ vf_num \in 0 .. 64
  BY AddrMapAssumption DEF MapInit
<1>2. pf_info = <<>> /\ vf_info = <<>>
  BY DEF MapInit
<1> QED
  BY <1>1, <1>2 DEF ChannelInv

LEMMA Range64 ==
  ASSUME NEW n \in Nat, NEW m \in 0 .. 64, n <= m
  PROVE  n \in 0 .. 64 /\ (n # m => n \in 0 .. 63)
  OBVIOUS

\* The number of VFs that have been probed
LEMMA Probed ==
  ASSUME ChannelInv
  PROVE  Len(vf_info) \in 0 .. 64 /\ (Len(vf_info) # vf_num => Len(vf_info) \in 0 .. 63)
<1>1. Len(vf_info) \in Nat /\ vf_num \in 0 .. 64 /\ Len(vf_info) <= vf_num
  BY AddrMapAssumption DEF ChannelInv
<1> QED
  BY <1>1, Range64

LEMMA NextChannels == ChannelInv /\ [LayoutNext]_layoutVars => ChannelInv'
<1> SUFFICES ASSUME ChannelInv, [LayoutNext]_layoutVars PROVE ChannelInv'
  OBVIOUS
<1>1. ASSUME UNCHANGED <<vf_num, pf_info, vf_info>> PROVE ChannelInv'
  BY <1>1 DEF ChannelInv, build_dma_info, build_dma_info_vf
<1>2. CASE SetupChannels
  BY <1>2 DEF SetupChannels, mtdma_bare_init, ChannelInv, build_dma_info, build_dma_info_vf
<1>3. CASE ProbeVf
  <2> DEFINE s == vf_info
             e == build_dma_info_vf(Len(s))
  <2>1. /\ vf_info' = Append(s, e) /\ Len(s) < vf_num
        /\ UNCHANGED <<vf_num, pf_info>>
    BY <1>3 DEF ProbeVf, mtdma_bare_init_vf
  <2>2. s \in Seq(VfInfos) /\ Len(s) \in 0 .. 63 /\ vf_num \in VfNums
    <3>1. s \in Seq(VfInfos) /\ vf_num \in VfNums
      BY DEF ChannelInv
    <3>2. Len(s) # vf_num
      BY <2>1, <3>1, AddrMapAssumption
    <3> QED
      BY <3>1, <3>2, Probed
  <2>3. e \in VfInfos
    <3>1. Len(s) \in VMs
      BY <2>2 DEF VMs, PCIE_DMA_CH_NUM
    <3> QED
      BY <3>1 DEF VfInfos
  <2>4. \A n \in 1 .. Len(s) : s[n] = build_dma_info_vf(n - 1)
    BY DEF ChannelInv
  <2> HIDE DEF s, e
  <2>5. /\ Append(s, e) \in Seq(VfInfos) /\ Len(Append(s, e)) = Len(s) + 1
        /\ \A n \in 1 .. Len(s) : Append(s, e)[n] = s[n]
        /\ Append(s, e)[Len(s) + 1] = e
    BY <2>2, <2>3
  <2>6. ASSUME NEW n \in 1 .. Len(s) + 1 PROVE Append(s, e)[n] = build_dma_info_vf(n - 1)
    <3>1. CASE n = Len(s) + 1
      BY <2>2, <2>5, <3>1 DEF e, s
    <3>2. CASE n # Len(s) + 1
      <4>1. n \in 1 .. Len(s)
        BY <2>2, <3>2
      <4> QED
        BY <2>4, <2>5, <4>1
    <3> QED
      BY <3>1, <3>2
  <2>7. Len(s) + 1 <= vf_num
    BY <2>1, <2>2, AddrMapAssumption DEF s
  <2>8. VfInfos' = VfInfos
    BY DEF VfInfos, build_dma_info_vf
  <2> QED
    BY <2>1, <2>2, <2>5, <2>6, <2>7, <2>8 DEF ChannelInv, build_dma_info, build_dma_info_vf
<1>4. CASE SetupWindows
  BY <1>1, <1>4 DEF SetupWindows, iatu_init
<1>5. CASE \/ phy_init \/ eata_init \/ pcie_intr_init \/ irq_init \/ mtdma_comm_init
           \/ pcie_mmu_init \/ UNCHANGED layoutVars
  BY <1>1, <1>5 DEF phy_init, eata_init, pcie_intr_init, irq_init, mtdma_comm_init,
     pcie_mmu_init, layoutVars, mapVars
<1> QED
  BY <1>2, <1>3, <1>4, <1>5 DEF LayoutNext

LEMMA NextPages == PtInv /\ [LayoutNext]_layoutVars => PtInv'
<1> SUFFICES ASSUME PtInv, [LayoutNext]_layoutVars PROVE PtInv'
  OBVIOUS
<1>1. [PtNext]_ptVars
  BY DEF LayoutNext, phy_init, eata_init, SetupWindows, pcie_intr_init, irq_init,
     mtdma_comm_init, SetupChannels, pcie_mmu_init, ProbeVf, layoutVars, mapVars
<1> QED
  BY <1>1, NextPt

LEMMA LayoutInvariance == LayoutSpec => []LayoutInv
<1>1. LayoutInit => LayoutInv
  BY InitPt, InitChannels DEF LayoutInit, LayoutInv
<1>2. LayoutInv /\ [LayoutNext]_layoutVars => LayoutInv'
  BY NextPages, NextChannels DEF LayoutInv
<1> QED
  BY <1>1, <1>2, PTL DEF LayoutSpec

\* What iatu_init writes
LEMMA Windows ==
  ASSUME vf_num \in VfNums, Descs, iatu_init, <<"dma_ds", 0>> \in done'
  PROVE  Placed'
<1>0. vf_num \in 0 .. 64 /\ vf_num' = vf_num /\ EataDescs \in Nat \ {0}
  BY AddrMapAssumption DEF iatu_init
<1>1. LADDR_VGPU_BASE' = LADDR_VGPU_BASE
  BY <1>0 DEF LADDR_VGPU_BASE
<1>2. Vfs = 0 .. (vf_num - 1) /\ Vfs' = Vfs /\ Vfs \subseteq VMs
  BY <1>0 DEF Vfs, VMs, PCIE_DMA_CH_NUM
<1>3. \A v \in Vfs : inb'[v] = pcie_prog_inbound_atu_vf(v, LADDR_VGPU_BASE)
  BY <1>0, <1>2 DEF iatu_init
<1>4. ASSUME vf_num <= IATU_NUM - 2
      PROVE  /\ inb'[IATU_NUM - 1] = pcie_prog_inbound_atu(0, 0)
             /\ inb'[IATU_NUM - 2] = pcie_prog_inbound_atu(1, LADDR_APU)
  <2>1. /\ 48 \in VMs /\ 49 \in VMs /\ ~(48 < vf_num) /\ ~(49 < vf_num)
        /\ IATU_NUM - 1 = 49 /\ IATU_NUM - 2 = 48
    BY <1>0, <1>4 DEF IATU_NUM, VMs, PCIE_DMA_CH_NUM
  <2>2. inb' = [w \in VMs |->
                  IF w < vf_num THEN pcie_prog_inbound_atu_vf(w, LADDR_VGPU_BASE)
                  ELSE IF w = 49 THEN pcie_prog_inbound_atu(0, 0)
                  ELSE IF w = 48 THEN pcie_prog_inbound_atu(1, LADDR_APU)
                  ELSE inb[w]]
    BY <2>1 DEF iatu_init
  <2> QED
    BY <2>1, <2>2
<1>5. outb'[0].limit < outb'[1].base
  BY DEF iatu_init, pcie_prog_outbound_atu, SIZE_OUTBOUND, P2P_OUTB_SIZE, LADDR_P2P, GB
<1>6. ASSUME NEW v \in Vfs, v < EATA_VF_NUM
      PROVE  Reached(v)' = {Dest(v)}
  <2> DEFINE none == [x \in 0 .. (EataDescs - 1) |-> Invalid]
             d == Dest(v)
  <2>1. v < vf_num /\ v \in VMs /\ DOMAIN eata[v] = 0 .. (EataDescs - 1)
    BY <1>0, <1>2, <1>6 DEF Descs
  <2>2. mtdma_eata_desc_init(eata)[v] = none
    BY <1>6, <2>1 DEF mtdma_eata_desc_init
  <2>3. eata'[v] = mtdma_eata_desc_en(none, 0, LADDR_VGPU(v))
    BY <2>1, <2>2 DEF iatu_init
  <2>4. 0 \div GB = 0 /\ 0 \in 0 .. (EataDescs - 1)
    BY <1>0 DEF GB
  <2>5. eata'[v] = [none EXCEPT ![0] = d]
    <3>1. eata'[v] = [none EXCEPT ![0 \div GB] = d]
      BY <2>3, Zenon DEF mtdma_eata_desc_en, Dest
    <3> HIDE DEF d, none
    <3> QED
      BY <2>4, <3>1, Zenon
  <2>6. d \in Nat /\ d # Invalid
    BY <1>0, <1>2 DEF Dest, LADDR_VGPU, LADDR_VGPU_BASE, DDR_SZ, DDR_SZ_RESV, SIZE_VGPU_DDR, GB,
                      VF_NUM_MAX, Invalid
  <2> HIDE DEF d
  <2>7. /\ DOMAIN eata'[v] = 0 .. (EataDescs - 1) /\ eata'[v][0] = d
        /\ \A x \in 0 .. (EataDescs - 1) : eata'[v][x] \in {Invalid, d}
    BY <2>4, <2>5
  <2>8. {eata'[v][x] : x \in DOMAIN eata'[v]} \ {Invalid} = {d}
    BY <2>4, <2>6, <2>7
  <2> QED
    BY <2>8 DEF Reached, d, Invalid
<1>7. \A v \in Vfs : Dest(v)' = Dest(v)
  BY <1>1 DEF Dest, LADDR_VGPU
<1> QED
  BY <1>0, <1>1, <1>2, <1>3, <1>4, <1>5, <1>6, <1>7 DEF Placed

LEMMA NextDescs == Descs /\ [LayoutNext]_layoutVars => Descs'
<1> SUFFICES ASSUME Descs, [LayoutNext]_layoutVars PROVE Descs'
  OBVIOUS
<1>1. ASSUME NEW v \in VMs
      PROVE  DOMAIN mtdma_eata_desc_init(eata)[v] = 0 .. (EataDescs - 1)
  BY DEF mtdma_eata_desc_init, Descs
<1>2. CASE SetupWindows
  <2>1. ASSUME NEW v \in VMs
        PROVE  \/ eata'[v] = mtdma_eata_desc_init(eata)[v]
               \/ eata'[v] = mtdma_eata_desc_en(mtdma_eata_desc_init(eata)[v], 0, LADDR_VGPU(v))
    BY <1>2 DEF SetupWindows, iatu_init
  <2>2. ASSUME NEW e, NEW src, NEW dest PROVE DOMAIN mtdma_eata_desc_en(e, src, dest) = DOMAIN e
    BY DEF mtdma_eata_desc_en
  <2>3. ASSUME NEW v \in VMs PROVE DOMAIN eata'[v] = 0 .. (EataDescs - 1)
    <3> DEFINE clear == mtdma_eata_desc_init(eata)[v]
    <3>1. DOMAIN clear = 0 .. (EataDescs - 1)
      BY <1>1
    <3>2. eata'[v] = clear \/ eata'[v] = mtdma_eata_desc_en(clear, 0, LADDR_VGPU(v))
      BY <2>1
    <3> HIDE DEF clear
    <3> QED
      BY <2>2, <3>1, <3>2
  <2> QED
    BY <2>3 DEF Descs, VMs
<1>3. CASE eata_init
  BY <1>1, <1>3 DEF eata_init, Descs
<1>4. CASE UNCHANGED eata
  BY <1>4 DEF Descs
<1> QED
  BY <1>2, <1>3, <1>4 DEF LayoutNext, phy_init, pcie_intr_init, irq_init, mtdma_comm_init,
     SetupChannels, mtdma_bare_init, pcie_mmu_init, ProbeVf, mtdma_bare_init_vf, layoutVars, mapVars

LEMMA NextWindows == ChannelInv /\ WindowInv /\ [LayoutNext]_layoutVars => WindowInv'
<1> SUFFICES ASSUME ChannelInv, WindowInv, [LayoutNext]_layoutVars PROVE WindowInv'
  OBVIOUS
<1>0. Descs'
  BY NextDescs DEF WindowInv
<1>1. ASSUME UNCHANGED <<vf_num, inb, outb, eata>>, done \subseteq done' PROVE WindowInv'
  <2>1. Vfs' = Vfs /\ LADDR_VGPU_BASE' = LADDR_VGPU_BASE
    BY <1>1 DEF Vfs, LADDR_VGPU_BASE
  <2>2. \A v : Dest(v)' = Dest(v) /\ Reached(v)' = Reached(v)
    BY <1>1, <2>1 DEF Dest, LADDR_VGPU, Reached
  <2> QED
    BY <1>0, <1>1, <2>1, <2>2 DEF WindowInv, Placed
<1>2. CASE SetupWindows
  <2>1. <<"dma_ds", 0>> \in done'
    BY <1>2 DEF SetupWindows, Writes
  <2> QED
    BY <1>0, <1>2, <2>1, Windows DEF SetupWindows, ChannelInv, WindowInv
<1>3. CASE eata_init
  <2>1. <<"dma_ds", 0>> \notin done /\ outb' = outb
    BY <1>3 DEF eata_init
  <2> QED
    BY <1>0, <2>1 DEF WindowInv, Placed
<1>4. CASE \/ phy_init \/ pcie_intr_init \/ irq_init \/ mtdma_comm_init \/ SetupChannels
           \/ pcie_mmu_init \/ ProbeVf \/ UNCHANGED layoutVars
  BY <1>1, <1>4 DEF phy_init, pcie_intr_init, irq_init, mtdma_comm_init, SetupChannels,
     mtdma_bare_init, pcie_mmu_init, ProbeVf, mtdma_bare_init_vf, layoutVars, mapVars, Writes
<1> QED
  BY <1>2, <1>3, <1>4 DEF LayoutNext
-----------------------------------------------------------------------------
(* The theorems *)

\* The VFs probed so far, counted from 0 and from 1.
LEMMA BelowProbed ==
  ASSUME NEW m \in 0 .. 64, NEW n \in 0 .. (m - 1)
  PROVE  n \in 0 .. 63 /\ n + 1 \in 1 .. m /\ (n + 1) - 1 = n
  OBVIOUS

\* Every used channel is an entry of the table, whichever function uses it.
LEMMA UsedSlots ==
  ASSUME ChannelInv, NEW u \in Used
  PROVE  \E d \in 0 .. 1, i \in VMs : u = Slot(d, i)
<1>1. CASE \E d \in DOMAIN pf_info, i \in VMs :
             u = [hw |-> pf_info[d][i].rg - 2 * 899, ll |-> pf_info[d][i].ll]
  <2>1. PICK d \in DOMAIN pf_info, i \in VMs :
          u = [hw |-> pf_info[d][i].rg - 2 * 899, ll |-> pf_info[d][i].ll]
    BY <1>1
  <2>2. pf_info = build_dma_info(PCIE_DMA_CH_NUM, PCIE_DMA_CH_NUM)
    BY <2>1 DEF ChannelInv
  <2>3. d \in 0 .. 1 /\ i \in 0 .. 63
    <3>1. DOMAIN build_dma_info(PCIE_DMA_CH_NUM, PCIE_DMA_CH_NUM) = 0 .. 1
      BY DEF build_dma_info
    <3>2. d \in 0 .. 1
      BY <2>2, <3>1
    <3> QED
      BY <2>1, <3>2 DEF VMs, PCIE_DMA_CH_NUM
  <2>4. /\ pf_info[d][i].rg = 2 * (899 + i) + (1 - d)
        /\ pf_info[d][i].ll = LL_BASE + PCIE_DMA_CH_NUM * d + i
    <3>1. CASE d = 0
      BY <2>2, <2>3, <3>1 DEF build_dma_info, PCIE_DMA_CH_NUM, LL_BASE, GB
    <3>2. CASE d = 1
      BY <2>2, <2>3, <3>2 DEF build_dma_info, PCIE_DMA_CH_NUM, LL_BASE, GB
    <3> QED
      BY <2>3, <3>1, <3>2
  <2>5. u = Slot(d, i)
    BY <2>1, <2>3, <2>4 DEF Slot
  <2> QED
    BY <2>3, <2>5 DEF VMs, PCIE_DMA_CH_NUM
<1>2. CASE \E n \in 0 .. (Len(vf_info) - 1), d \in 0 .. 1 :
             u = [hw |-> vf_info[n + 1][d].rg - 6 + 2 * n, ll |-> vf_info[n + 1][d].ll]
  <2>1. PICK n \in 0 .. (Len(vf_info) - 1), d \in 0 .. 1 :
          u = [hw |-> vf_info[n + 1][d].rg - 6 + 2 * n, ll |-> vf_info[n + 1][d].ll]
    BY <1>2
  <2>2. Len(vf_info) \in 0 .. 64
    BY Probed
  <2>3. vf_info[n + 1] = build_dma_info_vf(n)
    <3>1. n + 1 \in 1 .. Len(vf_info) /\ (n + 1) - 1 = n
      BY <2>2, BelowProbed
    <3> QED
      BY <3>1 DEF ChannelInv
  <2>4. /\ vf_info[n + 1][d].rg = 6 + (1 - d)
        /\ vf_info[n + 1][d].ll = LL_BASE + PCIE_DMA_CH_NUM * d + n
    BY <2>3 DEF build_dma_info_vf
  <2>5. u = Slot(d, n) /\ n \in 0 .. 63
    <3>1. n \in 0 .. 63
      BY <2>2, BelowProbed
    <3>2. (6 + (1 - d)) - 6 + 2 * n = 2 * n + (1 - d)
      BY <3>1
    <3> QED
      BY <2>1, <2>4, <3>1, <3>2 DEF Slot
  <2>6. d \in 0 .. 1 /\ n \in VMs
    BY <2>1, <2>5 DEF VMs, PCIE_DMA_CH_NUM
  <2> QED
    BY <2>5, <2>6
<1> DEFINE Pf(d, i) == [hw |-> pf_info[d][i].rg - 2 * 899, ll |-> pf_info[d][i].ll]
           Vf(n, d) == [hw |-> vf_info[n + 1][d].rg - 6 + 2 * n, ll |-> vf_info[n + 1][d].ll]
           pf == {Pf(d, i) : d \in DOMAIN pf_info, i \in VMs}
           vf == {Vf(n, d) : n \in 0 .. (Len(vf_info) - 1), d \in 0 .. 1}
<1>3. u \in pf => \E d \in 0 .. 1, i \in VMs : u = Slot(d, i)
  <2> HIDE DEF Pf
  <2>1. u \in pf => \E d \in DOMAIN pf_info, i \in VMs : u = Pf(d, i)
    OBVIOUS
  <2> HIDE DEF pf
  <2> QED
    BY <1>1, <2>1, Zenon DEF Pf
<1>4. u \in vf => \E d \in 0 .. 1, i \in VMs : u = Slot(d, i)
  <2> HIDE DEF Vf
  <2>1. u \in vf => \E n \in 0 .. (Len(vf_info) - 1), d \in 0 .. 1 : u = Vf(n, d)
    OBVIOUS
  <2> HIDE DEF vf
  <2> QED
    BY <1>2, <2>1, Zenon DEF Vf
<1>5. Used = pf \cup vf
  BY DEF Used
<1> HIDE DEF pf, vf
<1> QED
  BY <1>3, <1>4, <1>5

\* Two entries of the table with the same registers or the same list are one.
LEMMA SlotsDiffer ==
  ASSUME NEW d \in 0 .. 1, NEW i \in VMs, NEW e \in 0 .. 1, NEW j \in VMs,
         Slot(d, i).hw = Slot(e, j).hw \/ Slot(d, i).ll = Slot(e, j).ll
  PROVE  Slot(d, i) = Slot(e, j)
<1>1. i \in 0 .. 63 /\ j \in 0 .. 63
  BY DEF VMs, PCIE_DMA_CH_NUM
<1>2. \/ 2 * i + (1 - d) = 2 * j + (1 - e)
      \/ 1024 + 64 * d + i = 1024 + 64 * e + j
  BY DEF Slot, LL_BASE, GB, PCIE_DMA_CH_NUM
<1>3. d = e /\ i = j
  BY <1>1, <1>2
<1> QED
  BY <1>3

\* Whatever the number of VFs and however many of them have been probed, a
\* channel of the engine has one list, and its list is no other channel's.
THEOREM ListsAreApart == LayoutSpec => []ListsApart
<1>1. ASSUME ChannelInv PROVE ListsApart
  <2> DEFINE channels == {u.hw : u \in Used}
             places == {u.ll : u \in Used}
             hw == [u \in Used |-> u.hw]
             ll == [u \in Used |-> u.ll]
  <2>1. ASSUME NEW u \in Used, NEW w \in Used, u.hw = w.hw \/ u.ll = w.ll
        PROVE  u = w
    <3>1. PICK d \in 0 .. 1, i \in VMs : u = Slot(d, i)
      BY <1>1, UsedSlots
    <3>2. PICK e \in 0 .. 1, j \in VMs : w = Slot(e, j)
      BY <1>1, UsedSlots
    <3> QED
      BY <2>1, <3>1, <3>2, SlotsDiffer
  <2>2. channels \subseteq 0 .. 127
    <3>1. ASSUME NEW u \in Used PROVE u.hw \in 0 .. 127
      <4>1. PICK d \in 0 .. 1, i \in VMs : u = Slot(d, i)
        BY <1>1, UsedSlots
      <4> QED
        BY <4>1 DEF Slot, VMs, PCIE_DMA_CH_NUM
    <3> QED
      BY <3>1
  <2>3. IsFiniteSet(channels)
    <3>1. 0 \in Int /\ 127 \in Int
      OBVIOUS
    <3>2. IsFiniteSet(0 .. 127)
      BY <3>1, FS_Interval, Zenon
    <3> QED
      BY <2>2, <3>2, FS_Subset
  <2> HIDE DEF channels, places
  <2>4. hw \in Injection(Used, channels) /\ hw \in Surjection(Used, channels)
    BY <2>1 DEF Injection, Surjection, IsInjective, channels
  <2>5. ll \in Injection(Used, places) /\ ll \in Surjection(Used, places)
    BY <2>1 DEF Injection, Surjection, IsInjective, places
  <2> HIDE DEF hw, ll
  <2>6. IsFiniteSet(Used) /\ Cardinality(Used) = Cardinality(channels)
    BY <2>3, <2>4, FS_Injection
  <2>7. Cardinality(Used) = Cardinality(places)
    BY <2>5, <2>6, FS_Surjection
  <2> QED
    BY <2>6, <2>7 DEF ListsApart, channels, places
<1>2. LayoutInv => ListsApart
  BY <1>1 DEF LayoutInv
<1> QED
  BY <1>2, LayoutInvariance, PTL
-----------------------------------------------------------------------------
(* What a VF reaches is apart from the lists and the tables: the lists lie *)
(* between 1024 and 1151, the tables below 16437, and the memory of n VFs  *)
(* begins at 512 * (47 - n).                                               *)

LEMMA TablesLie ==
  ASSUME ByteIndices, PtInv, NEW x \in Tables
  PROVE  x \in 16384 .. 16436
<1>1. PICK a \in DOMAIN mem : x = a[1] \div 512
  BY Zenon DEF Tables
<1> DEFINE p == a[1]
<1>2. p \in TablePages /\ x = p \div 512
  BY <1>1, Zenon DEF PtInv
<1> HIDE DEF p
<1>3. IndexMod \in 1 .. 256
  BY PoolFacts, SMT DEF ByteIndices
<1>4. p \in 8388608 .. (8388608 + 24580 + 4 * IndexMod)
  BY <1>2, PoolFacts, SMT DEF PC_BASE
<1>5. p \in Int /\ 8388608 <= p /\ p <= 8414212
  BY <1>3, <1>4, SMT
<1>6. p \div 512 \in 16384 .. 16436
  BY <1>5, SMT
<1> QED
  BY <1>2, <1>6, SMT

LEMMA ListsLie ==
  ASSUME ChannelInv, NEW x \in Lists
  PROVE  x \in 1024 .. 1151
<1>1. PICK u \in Used : x = u.ll
  BY DEF Lists
<1>2. PICK d \in 0 .. 1, i \in VMs : u = Slot(d, i)
  BY <1>1, UsedSlots
<1> QED
  BY <1>1, <1>2, SMT DEF Slot, LL_BASE, GB, VMs, PCIE_DMA_CH_NUM

\* Where the memory of VF v of n begins.
PlaceOf(n, v) == ((47 - n + v) % 1024) * 512

\* That memory, of n VFs, at a: inside the device's, below the APU's, and without the
\* lists and the tables.
OwnGigabyte(n, a) ==
  /\ n <= 47 => /\ 0 <= a /\ a + 512 <= 24064
                /\ Apart(a, 512, 24064, 16)
  /\ n <= 44 => \A x \in 1024 .. 1151 : Apart(a, 512, x, 1)
  /\ n <= 14 => \A x \in 16384 .. 16436 : Apart(a, 512, x, 1)

\* The memory of VF v of vf_num, where the descriptors are cleared first, and
\* where it fits.
LEMMA VfPlace ==
  ASSUME ChannelInv, vf_num <= 48, NEW v \in Vfs
  PROVE  /\ vf_num \in 0 .. 48 /\ v \in 0 .. 47 /\ v < vf_num
         /\ Dest(v) = PlaceOf(vf_num, v)
<1>1. vf_num \in 0 .. 48
  BY AddrMapAssumption, SMT DEF ChannelInv
<1>2. v \in 0 .. 47 /\ v < vf_num
  BY <1>1, SMT DEF Vfs
<1>3. LADDR_VGPU(v) = 512 * (47 - vf_num + v)
  BY <1>1, <1>2, SMT DEF LADDR_VGPU, LADDR_VGPU_BASE, DDR_SZ, DDR_SZ_RESV, SIZE_VGPU_DDR, GB,
                        VF_NUM_MAX
<1>4. LADDR_VGPU(v) \div 512 = 47 - vf_num + v
  BY <1>1, <1>2, <1>3, SMT
<1> QED
  BY <1>1, <1>2, <1>4, SMT DEF Dest, GB, PlaceOf

\* n VFs, of which v is one: a GB inside the ten bits.
LEMMA VfGigabyte ==
  ASSUME NEW n \in 0 .. 48, NEW v \in 0 .. 47, v < n
  PROVE  \/ 47 - n + v \in 0 .. 46 /\ (47 - n + v) % 1024 = 47 - n + v
         \/ 47 - n + v = -1 /\ (47 - n + v) % 1024 = 1023
  BY SMT

LEMMA VfMemoryApart ==
  ASSUME NEW n \in 0 .. 48, NEW v \in 0 .. 47, v < n
  PROVE  OwnGigabyte(n, PlaceOf(n, v))
<1> DEFINE a == PlaceOf(n, v)
<1>1. n <= 47 => a = 512 * (47 - n + v)
  BY VfGigabyte, SMT DEF PlaceOf
<1> HIDE DEF a
<1> QED
  BY <1>1, SMT DEF OwnGigabyte, Apart, a

\* The VFs whose descriptors are cleared.
Cleared == 0 .. (EATA_VF_NUM - 1)

\* No two of n VFs share memory.
VfsApart(n) ==
  \A v, w \in Cleared : v < n /\ w < n /\ w # v => Apart(PlaceOf(n, v), 512, PlaceOf(n, w), 512)

LEMMA VfsMemoryApart ==
  ASSUME NEW n \in Int, 0 <= n, n <= 48
  PROVE  VfsApart(n)
<1>1. ASSUME NEW v \in Cleared, NEW w \in Cleared, v < n, w < n, w # v
      PROVE  Apart(PlaceOf(n, v), 512, PlaceOf(n, w), 512)
  <2> DEFINE i == (47 - n + v) % 1024
             j == (47 - n + w) % 1024
  <2>1. n \in 0 .. 48 /\ v \in 0 .. 47 /\ w \in 0 .. 47
    BY SMT DEF Cleared, EATA_VF_NUM
  <2>2. i \in Int /\ j \in Int /\ i # j
    BY <1>1, <2>1, VfGigabyte, SMT
  <2> HIDE DEF i, j
  <2>3. i * 512 + 512 <= j * 512 \/ j * 512 + 512 <= i * 512
    BY <2>2, SMT
  <2> QED
    BY <2>3 DEF Apart, PlaceOf, i, j
<1> QED
  BY <1>1, Zenon DEF VfsApart

LEMMA VfWindow ==
  ASSUME NEW v, NEW addr
  PROVE  /\ pcie_prog_inbound_atu_vf(v, addr).kind = "vf"
         /\ pcie_prog_inbound_atu_vf(v, addr).func = v
         /\ pcie_prog_inbound_atu_vf(v, addr).target = addr
  BY DEF pcie_prog_inbound_atu_vf

\* As many vectors and pages as one likes, and after the steps of the set-up in any
\* order that leaves the translations programmed: what a VF reaches, and where its
\* window leads, up to the number of VFs that each part of Isolated names.
THEOREM VfsAreIsolated == ByteIndices => (LayoutSpec => []Isolated)
<1> DEFINE Inv == LayoutInv /\ WindowInv
<1>1. ASSUME ByteIndices, Inv PROVE Isolated
  <2> SUFFICES ASSUME outb[0] # OutOff PROVE Isolated
    BY DEF Isolated
  <2>1. Placed /\ ChannelInv /\ PtInv /\ vf_num \in 0 .. 64
    BY <1>1, AddrMapAssumption DEF WindowInv, LayoutInv, ChannelInv
  <2>2. VfWindows
    <3>1. ASSUME NEW v \in Vfs PROVE inb[v] = pcie_prog_inbound_atu_vf(v, LADDR_VGPU_BASE)
      BY <2>1 DEF Placed
    <3>2. ASSUME vf_num \in 0 .. 47 \cup {VF_NUM_MAX}, Vfs # {} PROVE LADDR_VGPU_BASE \in Reached(0)
      <4>1. 0 \in Vfs /\ 0 < EATA_VF_NUM
        BY <2>1, <3>2 DEF Vfs, EATA_VF_NUM
      <4>2. Reached(0) = {Dest(0)}
        BY <2>1, <4>1 DEF Placed
      <4>3. LADDR_VGPU(0) = LADDR_VGPU_BASE
        BY <2>1, SMT DEF LADDR_VGPU, LADDR_VGPU_BASE, DDR_SZ, DDR_SZ_RESV, SIZE_VGPU_DDR, GB
      <4>4. LADDR_VGPU_BASE = 0 \/ \E k \in 0 .. 47 : LADDR_VGPU_BASE = 512 * k
        <5>1. CASE vf_num = VF_NUM_MAX
          BY <5>1 DEF LADDR_VGPU_BASE
        <5>2. CASE vf_num \in 0 .. 47
          <6>1. LADDR_VGPU_BASE = 512 * (47 - vf_num) /\ 47 - vf_num \in 0 .. 47
            BY <5>2, SMT DEF LADDR_VGPU_BASE, DDR_SZ, DDR_SZ_RESV, SIZE_VGPU_DDR, GB, VF_NUM_MAX
          <6> QED
            BY <6>1
        <5> QED
          BY <3>2, <5>1, <5>2
      <4>5. ((LADDR_VGPU_BASE \div 512) % 1024) * 512 = LADDR_VGPU_BASE
        BY <4>4, SMT
      <4> QED
        BY <4>2, <4>3, <4>5 DEF Dest, GB
    <3>3. \A v \in Vfs : inb[v].kind = "vf" /\ inb[v].func = v /\ inb[v].target = LADDR_VGPU_BASE
      BY <3>1, VfWindow
    <3> QED
      BY <3>2, <3>3 DEF VfWindows
  <2>3. ASSUME NEW v \in Vfs PROVE VfMemory(v)
    <3> SUFFICES ASSUME vf_num <= 48 PROVE VfMemory(v)
      BY <2>1, SMT DEF VfMemory
    <3>1. /\ vf_num \in 0 .. 48 /\ v \in 0 .. 47 /\ v < vf_num
          /\ Dest(v) = PlaceOf(vf_num, v)
      BY <2>1, VfPlace
    <3>2. Reached(v) = {Dest(v)}
      BY <2>1, <3>1, SMT DEF Placed, EATA_VF_NUM
    <3>3. OwnGigabyte(vf_num, Dest(v))
      BY <3>1, VfMemoryApart
    <3>4. Lists \subseteq 1024 .. 1151 /\ Tables \subseteq 16384 .. 16436
      BY <1>1, <2>1, ListsLie, TablesLie
    <3>5. ASSUME NEW w \in Vfs \ {v}, NEW b \in Reached(w) PROVE Apart(Dest(v), 512, b, 512)
      <4>1. /\ w \in 0 .. 47 /\ w < vf_num /\ w # v
            /\ Dest(w) = PlaceOf(vf_num, w)
        BY <2>1, <3>5, VfPlace
      <4>2. b = Dest(w)
        BY <2>1, <3>5, <4>1, SMT DEF Placed, EATA_VF_NUM
      <4>3. Apart(PlaceOf(vf_num, v), 512, PlaceOf(vf_num, w), 512)
        <5>1. VfsApart(vf_num)
          BY <3>1, VfsMemoryApart, SMT
        <5>2. v \in Cleared /\ v < vf_num /\ w \in Cleared /\ w < vf_num /\ w # v
          BY <3>1, <4>1, SMT DEF Cleared, EATA_VF_NUM
        <5> QED
          BY <5>1, <5>2, Zenon DEF VfsApart
      <4> QED
        BY <3>1, <4>1, <4>2, <4>3
    <3>6. /\ SIZE_VGPU_DDR = 512 /\ DDR_SZ_FREE = 24064 /\ LADDR_APU = 24064
          /\ SIZE_APU_DDR = 16
      BY SMT DEF SIZE_VGPU_DDR, GB, DDR_SZ_FREE, DDR_SZ, DDR_SZ_RESV, LADDR_APU, SIZE_APU_DDR
    <3> QED
      BY <3>2, <3>3, <3>4, <3>5, <3>6 DEF VfMemory, OwnGigabyte
  <2>4. OwnWindows
    <3>1. IATU_NUM - 1 \in VMs /\ IATU_NUM - 2 \in VMs
      BY DEF IATU_NUM, VMs, PCIE_DMA_CH_NUM
    <3> QED
      BY <2>1, <3>1 DEF Placed, OwnWindows
  <2>5. outb[0].limit < outb[1].base
    BY <2>1 DEF Placed
  <2> QED
    BY <2>2, <2>3, <2>4, <2>5 DEF Isolated
<1>2. LayoutInit => Inv
  <2>1. MapInit => outb[0] = OutOff /\ Descs
    BY DEF MapInit, Descs
  <2> QED
    BY <2>1, InitPt, InitChannels DEF LayoutInit, LayoutInv, WindowInv
<1>3. Inv /\ [LayoutNext]_layoutVars => Inv'
  BY NextPages, NextChannels, NextWindows DEF LayoutInv
<1>4. ASSUME ByteIndices PROVE LayoutSpec => []Isolated
  <2>1. Inv => Isolated
    BY <1>1, <1>4
  <2> HIDE DEF Inv
  <2> QED
    BY <1>2, <1>3, <2>1, PTL DEF LayoutSpec
<1> QED
  BY <1>4
-----------------------------------------------------------------------------
(* The programs of scripts/: every run of registers or list entries that   *)
(* they touch, as bounds that hold for each channel.                       *)

\* What the programs take for the registers of a channel and direction.
LEMMA ChannelRegs4 ==
  ASSUME NEW base \in Nat
  PROVE  \A r \in channel_reg(base) :
           /\ r[1] \in Nat /\ r[2] \in Nat
           /\ base <= r[1] /\ r[2] <= base + 1056
  BY SMT DEF channel_reg, Dwords

LEMMA CommonRegs ==
  ASSUME NEW ch \in 0 .. 63
  PROVE  \A r \in print_comm_reg(\h380000, ch) \cup print_comm_ch_secure(\h380000)
                    \cup print_ch_osid(\h380000) :
           0 <= r[1] /\ r[2] <= \h2000000
  BY SMT DEF print_comm_reg, print_comm_ch_secure, print_ch_osid, Dwords, At

\* The entry of the PF for a channel, and of the first VF
EntriesAt(pf, ch) ==
  /\ ChannelBlock(pf[0][ch]) = <<3684352 + 4096 * ch, 3685408 + 4096 * ch>>
  /\ ChannelBlock(pf[1][ch]) = <<3682304 + 4096 * ch, 3683360 + 4096 * ch>>
  /\ ListOffset(pf[0][ch]) = 2097152 * ch
  /\ ListOffset(pf[1][ch]) = 2097152 * (64 + ch)

LEMMA Entries ==
  ASSUME NEW ch \in 0 .. 63, NEW pf, pf = build_dma_info(PCIE_DMA_CH_NUM, PCIE_DMA_CH_NUM)
  PROVE  EntriesAt(pf, ch)
<1>1. /\ pf[0][ch].rg = 2 * (899 + ch) + 1 /\ pf[0][ch].ll = LL_BASE + ch
      /\ pf[1][ch].rg = 2 * (899 + ch) /\ pf[1][ch].ll = LL_BASE + 64 + ch
  BY SMT DEF build_dma_info, PCIE_DMA_CH_NUM, LL_BASE, GB
<1>2. LL_BASE = 1024
  BY SMT DEF LL_BASE, GB
<1> QED
  BY <1>1, <1>2, SMT DEF EntriesAt, ChannelBlock, ListOffset, CH_REGS

LEMMA CleanedRegs ==
  ASSUME NEW ch \in 0 .. 63
  PROVE  mtmda_reg_clean(ch) =
           {<<3670016, 3673204>>,
            <<3682304 + 4096 * ch, 3683356 + 4096 * ch>>,
            <<3684352 + 4096 * ch, 3685404 + 4096 * ch>>}
  BY SMT DEF mtmda_reg_clean, PCIE_MT_DMA_COMM, PCIE_MT_DMA_CH

\* The list of write channel 0 is where dump_desc looks, and no other list.
LEMMA ListsAreNot ==
  ASSUME NEW ch \in 0 .. 63
  PROVE  /\ desc_place(0, ch) = 2097152 * ch <=> ch = 0
         /\ desc_place(1, ch) # 2097152 * (64 + ch)
  BY SMT DEF desc_place

\* What the programs show of a channel of the PF.
LEMMA PfChannels ==
  ASSUME NEW ch \in VMs, pf_info = build_dma_info(PCIE_DMA_CH_NUM, PCIE_DMA_CH_NUM)
  PROVE  /\ Inside(print_channel_reg_wr(PCIE_MT_DMA_CH + \h1000 * ch),
                   ChannelBlock(pf_info[0][ch]))
         /\ Inside(print_channel_reg_rd(PCIE_MT_DMA_CH + \h1000 * ch),
                   ChannelBlock(pf_info[1][ch]))
         /\ \A r \in mtmda_reg_clean(ch) :
              \/ Inside({r}, CommBlock)
              \/ \E d \in 0 .. 1 : Inside({r}, ChannelBlock(pf_info[d][ch]))
         /\ \A d \in 0 .. 1 :
              desc_place(d, ch) = ListOffset(pf_info[d][ch]) <=> d = 0 /\ ch = 0
<1>0. ch \in 0 .. 63
  BY SMT DEF VMs, PCIE_DMA_CH_NUM
<1> DEFINE wr == ChannelBlock(pf_info[0][ch])
           rd == ChannelBlock(pf_info[1][ch])
<1>1. /\ wr = <<3684352 + 4096 * ch, 3685408 + 4096 * ch>>
      /\ rd = <<3682304 + 4096 * ch, 3683360 + 4096 * ch>>
      /\ ListOffset(pf_info[0][ch]) = 2097152 * ch
      /\ ListOffset(pf_info[1][ch]) = 2097152 * (64 + ch)
  <2>1. EntriesAt(pf_info, ch)
    BY <1>0, Entries, Zenon
  <2> QED
    BY <2>1, SMT DEF EntriesAt
<1>2. Inside(print_channel_reg_wr(PCIE_MT_DMA_CH + \h1000 * ch), wr)
  <2>1. PCIE_MT_DMA_CH + \h1000 * ch + \h800 = 3684352 + 4096 * ch
    BY <1>0, SMT DEF PCIE_MT_DMA_CH
  <2>2. print_channel_reg_wr(PCIE_MT_DMA_CH + \h1000 * ch) = channel_reg(3684352 + 4096 * ch)
    BY <2>1, SMT DEF print_channel_reg_wr
  <2> HIDE DEF wr
  <2> QED
    BY <1>0, <1>1, <2>2, ChannelRegs4, SMT DEF Inside
<1>3. Inside(print_channel_reg_rd(PCIE_MT_DMA_CH + \h1000 * ch), rd)
  <2>1. PCIE_MT_DMA_CH + \h1000 * ch = 3682304 + 4096 * ch
    BY <1>0, SMT DEF PCIE_MT_DMA_CH
  <2>2. print_channel_reg_rd(PCIE_MT_DMA_CH + \h1000 * ch) = channel_reg(3682304 + 4096 * ch)
    BY <2>1, SMT DEF print_channel_reg_rd
  <2> HIDE DEF rd
  <2> QED
    BY <1>0, <1>1, <2>2, ChannelRegs4, SMT DEF Inside
<1>4. ASSUME NEW r \in mtmda_reg_clean(ch)
      PROVE  \/ Inside({r}, CommBlock)
             \/ \E d \in 0 .. 1 : Inside({r}, ChannelBlock(pf_info[d][ch]))
  <2>1. CASE r = <<3670016, 3673204>>
    <3>1. Inside({r}, CommBlock)
      BY <2>1, SMT DEF Inside, CommBlock, PCIE_MT_DMA_COMM, PCIE_MT_DMA_CH
    <3> QED
      BY <3>1, SMT
  <2>2. CASE r = <<3682304 + 4096 * ch, 3683356 + 4096 * ch>>
    <3> HIDE DEF rd
    <3>1. Inside({r}, rd)
      BY <1>0, <1>1, <2>2, SMT DEF Inside
    <3> QED
      BY <3>1, SMT DEF rd
  <2>3. CASE r = <<3684352 + 4096 * ch, 3685404 + 4096 * ch>>
    <3> HIDE DEF wr
    <3>1. Inside({r}, wr)
      BY <1>0, <1>1, <2>3, SMT DEF Inside
    <3> QED
      BY <3>1, SMT DEF wr
  <2> QED
    BY <1>0, <1>4, <2>1, <2>2, <2>3, CleanedRegs, SMT
<1>5. ASSUME NEW d \in 0 .. 1
      PROVE  desc_place(d, ch) = ListOffset(pf_info[d][ch]) <=> d = 0 /\ ch = 0
  BY <1>0, <1>1, ListsAreNot, SMT
<1> QED
  BY <1>2, <1>3, <1>4, <1>5, SMT

\* A VF's channel is where the dump of a VF looks, outside of what it maps.
LEMMA VfChannel ==
  ASSUME NEW info, info = build_dma_info_vf(0)
  PROVE  /\ Inside(print_channel_reg_wr(\h3000), ChannelBlock(info[0]))
         /\ Inside(print_channel_reg_rd(\h3000), ChannelBlock(info[1]))
         /\ ~Mapped(DumpVf)
<1>1. info[0].rg = 7 /\ info[1].rg = 6
  BY SMT DEF build_dma_info_vf
<1>2. /\ ChannelBlock(info[0]) = <<14336, 15392>>
      /\ ChannelBlock(info[1]) = <<12288, 13344>>
  BY <1>1, SMT DEF ChannelBlock, CH_REGS
<1>3. /\ print_channel_reg_wr(\h3000) = channel_reg(14336)
      /\ print_channel_reg_rd(\h3000) = channel_reg(12288)
  BY SMT DEF print_channel_reg_wr, print_channel_reg_rd
<1>4. <<12288, 12308>> \in channel_reg(12288)
  BY SMT DEF channel_reg, Dwords
<1>5. ~Mapped(DumpVf)
  BY <1>3, <1>4, SMT DEF Mapped, Inside, DumpVf, Visit
<1> QED
  BY <1>2, <1>3, <1>5, ChannelRegs4, SMT DEF Inside

\* The visits of the programs that are given a channel stay in what they map.
LEMMA NoneStrays == Strayed = {}
<1>1. ASSUME NEW ch \in VMs PROVE ~Astray(ch)
  <2>0. ch \in 0 .. 63
    BY SMT DEF VMs, PCIE_DMA_CH_NUM
  <2>1. Mapped(DumpPf0(ch))
    <3> DEFINE base == 3682304 + 4096 * ch
    <3>1. /\ print_channel_reg_rd(PCIE_MT_DMA_CH + \h1000 * ch) = channel_reg(base)
          /\ print_channel_reg_wr(PCIE_MT_DMA_CH + \h1000 * ch) = channel_reg(base + 2048)
      <4>1. PCIE_MT_DMA_CH + \h1000 * ch = base /\ \h800 = 2048
        BY <2>0, SMT DEF PCIE_MT_DMA_CH
      <4> QED
        BY <4>1, SMT DEF print_channel_reg_rd, print_channel_reg_wr
    <3>2. /\ base \in Nat /\ base + 2048 \in Nat
          /\ base + 2048 + 1056 <= \h2000000
      BY <2>0, SMT
    <3> HIDE DEF base
    <3>3. \A r \in channel_reg(base) \cup channel_reg(base + 2048) :
            0 <= r[1] /\ r[2] <= \h2000000
      BY <3>2, ChannelRegs4, SMT
    <3> QED
      BY <2>0, <3>1, <3>3, CommonRegs, SMT
      DEF Mapped, DumpPf0, Visit, Inside, PCIE_MT_DMA_COMM
  <2>2. Mapped(CleanPf0(ch))
    <3>1. \A r \in mtmda_reg_clean(ch) : 0 <= r[1] /\ r[2] <= \h2000000
      BY <2>0, CleanedRegs, SMT
    <3> QED
      BY <3>1, SMT DEF Mapped, CleanPf0, Visit, Inside
  <2>3. Mapped(DumpDesc(ch, 65535))
    <3>1. \A d \in 0 .. 1 : /\ 0 <= desc_place(d, ch)
                            /\ desc_place(d, ch) + 32 * 65535 <= \h20000000
      BY <2>0, SMT DEF desc_place
    <3> QED
      BY <3>1, SMT DEF Mapped, DumpDesc, Visit, Inside
  <2> QED
    BY <2>1, <2>2, <2>3, SMT DEF Astray
<1> QED
  BY <1>1, SMT DEF Strayed

Page == 0 .. 4095
Seen(o) == Mapped(Devmem(o)) <=> o <= 4096 - 256

LEMMA DevmemMaps ==
  ASSUME NEW o \in Page
  PROVE  Seen(o)
<1>0. o \in 0 .. 4095
  BY DEF Page
<1> DEFINE run == <<o, o + 256>>
<1>1. Dwords(o, 64) = {run}
  BY <1>0, SMT DEF Dwords
<1>2. run[1] = o /\ run[2] = o + 256
  OBVIOUS
<1> HIDE DEF run
<1>3. Devmem(o).runs = {run} /\ Devmem(o).window[1] = 0 /\ Devmem(o).window[2] = 4096
  BY <1>1, SMT DEF Devmem, Visit
<1>4. Mapped(Devmem(o)) <=> 0 <= run[1] /\ run[2] <= 4096
  BY <1>3, SMT DEF Mapped, Inside
<1> QED
  BY <1>0, <1>2, <1>4, SMT DEF Seen

\* Whatever the number of VFs, and after the steps of the set-up in any order, the
\* programs of scripts/ find each channel and its direction where the driver put
\* them, and clean no other; which lists and pages they miss is as stated.
THEOREM ToolsDoAgree == LayoutSpec => []ToolsAgree
<1>1. ASSUME ChannelInv PROVE ToolsAgree
  <2>1. ASSUME pf_info # <<>>, NEW ch \in VMs
        PROVE  /\ Inside(print_channel_reg_wr(PCIE_MT_DMA_CH + \h1000 * ch),
                         ChannelBlock(pf_info[0][ch]))
               /\ Inside(print_channel_reg_rd(PCIE_MT_DMA_CH + \h1000 * ch),
                         ChannelBlock(pf_info[1][ch]))
               /\ \A r \in mtmda_reg_clean(ch) :
                    \/ Inside({r}, CommBlock)
                    \/ \E d \in 0 .. 1 : Inside({r}, ChannelBlock(pf_info[d][ch]))
               /\ \A d \in 0 .. 1 :
                    desc_place(d, ch) = ListOffset(pf_info[d][ch]) <=> d = 0 /\ ch = 0
    BY <1>1, <2>1, PfChannels, SMT DEF ChannelInv
  <2>2. ASSUME vf_info # <<>>
        PROVE  /\ Inside(print_channel_reg_wr(\h3000), ChannelBlock(vf_info[1][0]))
               /\ Inside(print_channel_reg_rd(\h3000), ChannelBlock(vf_info[1][1]))
               /\ ~Mapped(DumpVf)
    <3>1. vf_info \in Seq(VfInfos)
      BY <1>1, SMT DEF ChannelInv
    <3>2. 1 \in 1 .. Len(vf_info) /\ 1 - 1 = 0
      BY <2>2, <3>1, SMT
    <3>3. vf_info[1] = build_dma_info_vf(0)
      BY <1>1, <3>2, SMT DEF ChannelInv
    <3> QED
      BY <3>3, VfChannel, SMT
  <2>3. ASSUME NEW o \in Offsets PROVE Mapped(Devmem(o)) <=> o <= 4096 - 256
    <3>1. o \in Page
      BY ToolsAssumption, SMT DEF Page
    <3>2. Seen(o)
      BY <3>1, DevmemMaps
    <3> QED
      BY <3>2 DEF Seen
  <2> QED
    BY <2>1, <2>2, <2>3, NoneStrays, SMT DEF ToolsAgree
<1>2. LayoutInv => ToolsAgree
  BY <1>1, SMT DEF LayoutInv
<1> QED
  BY <1>2, LayoutInvariance, PTL
-----------------------------------------------------------------------------
(* What the MMU finds for the page that was set up last.  The index of a   *)
(* page in the pools wraps; as long as the wrap comes at a power of two up *)
(* to 1024 (the code's is 256), a PC entry changes only where the index    *)
(* begins again at 0, so the entries noted for it stay those in memory.    *)

Aligned == IndexMod \in {1, 2, 4, 8, 16, 32, 64, 128, 256, 512, 1024}

Large == va_page_size >= 5

Spans == {1, 2, 4, 16, 64, 512, 8192, 131072}

PdPage == [k \in Indices |-> pd_pool(k)]
PtPage == [k \in Indices |-> pt_pool(k)]
PaPage == [k \in Indices |-> pa_pool(k)]

\* The entries that an array has noted: slot k knows entries of table k, which
\* are in memory.
Finds(ass, page, base, m) ==
  \A k \in Indices :
    \/ ass[k].addr = <<0, 0>>
    \/ (ass[k].addr[1] = page[k] /\ ass[k].base = base[k] /\ ass[k].addr \in DOMAIN m)

\* Every entry of table k leads to the same place.
Holds(m, page, base) ==
  \A a \in DOMAIN m : \A k \in Indices : a[1] = page[k] => m[a] = base[k]

\* The PC entry of the current block of pages is noted in slot 0 alone.
TopFound ==
  /\ \A k \in Indices : k # 0 => pc_ass[k].addr = <<0, 0>>
  /\ pc_ass[0].addr # <<0, 0>> =>
       /\ pc_ass[0].base = pr_pool(0)
       /\ pc_ass[0].addr \in DOMAIN mem
       /\ mem[pc_ass[0].addr] = IF Large THEN pd_pool(0) ELSE pr_pool(0)
  /\ next % IndexMod # 0 => pc_ass[0].addr = <<PC_BASE, pc_index(va_pool(next))>>

WalkInv ==
  /\ va_page_size \in 0 .. 7 /\ va_size \in 0 .. 8
  /\ TopFound
  /\ \A k \in Indices : pr_ass[k].addr[1] \in {0, PC_BASE}
  /\ Finds(pd_ass, PdPage, PtPage, mem) /\ Finds(pt_ass, PtPage, PaPage, mem)
  /\ Holds(mem, PdPage, PtPage) /\ Holds(mem, PtPage, PaPage)
  /\ NewestWalks

LEMMA SpanIs == \A s \in 0 .. 8 : Span[s] \in Spans
  BY SMT DEF Span, Spans

\* Pages of one size do not cross 512 GB within 1024 of them.
LEMMA BlockStep ==
  ASSUME NEW j \in Nat, NEW s \in Spans, (j + 1) % 1024 # 0
  PROVE  ((j + 1) * s) \div 134217728 = (j * s) \div 134217728
<1>1. CASE s = 1
  BY <1>1, SMT
<1>2. CASE s = 2
  BY <1>2, SMT
<1>3. CASE s = 4
  BY <1>3, SMT
<1>4. CASE s = 16
  BY <1>4, SMT
<1>5. CASE s = 64
  BY <1>5, SMT
<1>6. CASE s = 512
  BY <1>6, SMT
<1>7. CASE s = 8192
  BY <1>7, SMT
<1>8. CASE s = 131072
  BY <1>8, SMT
<1> QED
  BY <1>1, <1>2, <1>3, <1>4, <1>5, <1>6, <1>7, <1>8 DEF Spans

LEMMA WrapsTogether ==
  ASSUME Aligned, NEW j \in Nat, j % 1024 = 0
  PROVE  j % IndexMod = 0
<1>1. j % 1 = 0 /\ j % 2 = 0 /\ j % 4 = 0 /\ j % 8 = 0 /\ j % 16 = 0 /\ j % 32 = 0
  BY SMT
<1>2. j % 64 = 0 /\ j % 128 = 0 /\ j % 256 = 0 /\ j % 512 = 0
  BY SMT
<1> QED
  BY <1>1, <1>2 DEF Aligned

LEMMA VaPool ==
  ASSUME NEW j \in Nat, va_size \in 0 .. 8
  PROVE  va_pool(j) \in Nat
<1>1. Span[va_size] \in Spans
  BY SpanIs
<1> QED
  BY <1>1, SMT DEF va_pool, Spans

\* The next page has the same PC entry, unless the index begins again.
LEMMA SameBlock ==
  ASSUME Aligned, NEW j \in Nat, va_size \in 0 .. 8, (j + 1) % IndexMod # 0
  PROVE  pc_index(va_pool(j + 1)) = pc_index(va_pool(j))
<1>1. (j + 1) % 1024 # 0
  <2>1. j + 1 \in Nat
    OBVIOUS
  <2> QED
    BY <2>1, WrapsTogether
<1>2. Span[va_size] \in Spans
  BY SpanIs
<1> DEFINE s == Span[va_size]
<1>3. ((j + 1) * s) \div 134217728 = (j * s) \div 134217728
  BY <1>1, <1>2, BlockStep
<1>4. 2^27 = 134217728
  BY SMT
<1> QED
  BY <1>3, <1>4 DEF pc_index, Bits, va_pool

\* The indices are the fields that the MMU takes.
LEMMA Fields ==
  ASSUME va_page_size \in 0 .. 7, NEW v \in Nat
  PROVE  /\ pc_index(v) = (v \div 512^3) % 512
         /\ ~Large => /\ pr_index(v) = (v \div 512^2) % 512
                      /\ pd_index(v) = (v \div 512^1) % 512
                      /\ pt_index(v) = ((v \div 512^0) % 512) \div Span[va_page_size]
         /\ Large => /\ pd_index(v) = (v \div 512^2) % 512
                     /\ pt_index(v) = (v % (512 * 512)) \div Span[va_page_size]
<1>1. pc_index(v) = (v \div 512^3) % 512
  BY SMT DEF pc_index, Bits
<1>2. ASSUME ~Large
      PROVE  pr_index(v) = (v \div 512^2) % 512 /\ pd_index(v) = (v \div 512^1) % 512
  BY <1>2, SMT DEF pr_index, pd_index, Bits, Large
<1>3. ASSUME Large PROVE pd_index(v) = (v \div 512^2) % 512
  BY <1>3, SMT DEF pd_index, Bits, Large
<1>4. ASSUME ~Large
      PROVE  pt_index(v) = ((v \div 512^0) % 512) \div Span[va_page_size]
  <2>1. va_page_size \in 0 .. 4
    BY <1>4, SMT DEF Large
  <2>2. CASE va_page_size = 0
    BY <2>2, SMT DEF pt_index, Bits, Span
  <2>3. CASE va_page_size = 1
    BY <2>3, SMT DEF pt_index, Bits, Span
  <2>4. CASE va_page_size = 2
    BY <2>4, SMT DEF pt_index, Bits, Span
  <2>5. CASE va_page_size = 3
    BY <2>5, SMT DEF pt_index, Bits, Span
  <2>6. CASE va_page_size = 4
    BY <2>6, SMT DEF pt_index, Bits, Span
  <2> QED
    BY <2>1, <2>2, <2>3, <2>4, <2>5, <2>6, SMT
<1>5. ASSUME Large
      PROVE  pt_index(v) = (v % (512 * 512)) \div Span[va_page_size]
  <2>1. va_page_size \in 5 .. 7
    BY <1>5, SMT DEF Large
  <2>2. CASE va_page_size = 5
    BY <2>2, SMT DEF pt_index, Bits, Span
  <2>3. CASE va_page_size = 6
    BY <2>3, SMT DEF pt_index, Bits, Span
  <2>4. CASE va_page_size = 7
    BY <2>4, SMT DEF pt_index, Bits, Span
  <2> QED
    BY <2>1, <2>2, <2>3, <2>4, SMT
<1> QED
  BY <1>1, <1>2, <1>3, <1>4, <1>5

\* If no slot but m can know an entry, the arrays say what slot m says.
LEMMA OneSlot ==
  ASSUME NEW ass, NEW a, NEW n \in Nat, NEW m \in 0 .. n, NEW fresh,
         \A k \in 0 .. n : ass[k].addr = a => k = m
  PROVE  /\ Known(ass, a, n) <=> ass[m].addr = a
         /\ Known(ass, a, n) => Below(ass, a, n, fresh) = ass[m].base
         /\ ~Known(ass, a, n) => Below(ass, a, n, fresh) = fresh
<1>1. Known(ass, a, n) <=> ass[m].addr = a
  BY DEF Known
<1>2. ASSUME Known(ass, a, n) PROVE Below(ass, a, n, fresh) = ass[m].base
  <2> DEFINE P(k) == ass[k].addr = a /\ \A l \in 0 .. (k - 1) : ass[l].addr # a
  <2>1. m \in 0 .. n /\ P(m)
    <3>1. ASSUME NEW l \in 0 .. (m - 1), ass[l].addr = a PROVE FALSE
      <4>1. l \in 0 .. n /\ l # m
        BY <3>1
      <4> QED
        BY <3>1, <4>1
    <3> QED
      BY <1>1, <1>2, <3>1
  <2>2. PICK x \in 0 .. n : P(x) /\ x = CHOOSE k \in 0 .. n : P(k)
    BY <2>1
  <2>3. x = m
    BY <2>2
  <2> QED
    BY <1>2, <2>2, <2>3 DEF Below, BaseOf
<1>3. ~Known(ass, a, n) => Below(ass, a, n, fresh) = fresh
  BY DEF Below
<1> QED
  BY <1>1, <1>2, <1>3

\* The memory after an entry is written, if its level was not known.
LEMMA WrittenIs ==
  ASSUME NEW m, NEW ass, NEW a, NEW n, NEW base
  PROVE  /\ DOMAIN m \subseteq DOMAIN Written(m, ass, a, n, base)
         /\ DOMAIN Written(m, ass, a, n, base) \subseteq DOMAIN m \cup {a}
         /\ \A x \in DOMAIN m : x # a => Written(m, ass, a, n, base)[x] = m[x]
         /\ Known(ass, a, n) => Written(m, ass, a, n, base) = m
         /\ ~Known(ass, a, n) => /\ a \in DOMAIN Written(m, ass, a, n, base)
                                 /\ Written(m, ass, a, n, base)[a] = base
  BY DEF Written

LEMMA WrittenHolds ==
  ASSUME NEW m, NEW page, NEW base, Holds(m, page, base),
         NEW ass, NEW a, NEW n, NEW b,
         \A k \in Indices : a[1] = page[k] => b = base[k]
  PROVE  Holds(Written(m, ass, a, n, b), page, base)
<1> DEFINE w == Written(m, ass, a, n, b)
<1>1. ASSUME NEW x \in DOMAIN w, NEW k \in Indices, x[1] = page[k] PROVE w[x] = base[k]
  <2>1. CASE Known(ass, a, n)
    BY <1>1, <2>1, WrittenIs DEF Holds
  <2>2. CASE ~Known(ass, a, n) /\ x = a
    BY <1>1, <2>2, WrittenIs
  <2>3. CASE x # a
    <3>1. x \in DOMAIN m /\ w[x] = m[x]
      BY <2>3, WrittenIs
    <3> QED
      BY <1>1, <3>1 DEF Holds
  <2> QED
    BY <2>1, <2>2, <2>3
<1> HIDE DEF w
<1>2. Holds(w, page, base)
  BY <1>1 DEF Holds
<1> QED
  BY <1>2 DEF w

\* One level below the PR's: table n is found again or new, and is the same.
LEMMA LevelFacts ==
  ASSUME NEW ass, DOMAIN ass = Indices, NEW page, NEW base, NEW m, Finds(ass, page, base, m),
         \A k \in Indices, l \in Indices : page[k] = page[l] => k = l,
         \A k \in Indices : page[k] # 0,
         NEW n \in Indices, NEW a, a[1] = page[n]
  PROVE  /\ Below(ass, a, n, base[n]) = base[n]
         /\ Known(ass, a, n) => a \in DOMAIN m
         /\ \A w : DOMAIN m \subseteq DOMAIN w /\ a \in DOMAIN w =>
              Finds(Noted(ass, a, n, a, base[n]), page, base, w)
<1>1. a # <<0, 0>>
  OBVIOUS
<1>2. 0 .. n \subseteq Indices /\ n \in 0 .. n /\ n \in Nat
  BY PoolFacts DEF Indices
<1>3. \A k \in 0 .. n : ass[k].addr = a => k = n
  BY <1>1, <1>2 DEF Finds
<1>4. /\ Known(ass, a, n) <=> ass[n].addr = a
      /\ Known(ass, a, n) => Below(ass, a, n, base[n]) = ass[n].base
      /\ ~Known(ass, a, n) => Below(ass, a, n, base[n]) = base[n]
  BY <1>2, <1>3, OneSlot
<1>5. Below(ass, a, n, base[n]) = base[n] /\ (Known(ass, a, n) => a \in DOMAIN m)
  BY <1>1, <1>4 DEF Finds
<1>6. ASSUME NEW w, DOMAIN m \subseteq DOMAIN w, a \in DOMAIN w
      PROVE  Finds(Noted(ass, a, n, a, base[n]), page, base, w)
  <2>1. CASE Known(ass, a, n)
    BY <1>6, <2>1 DEF Noted, Finds
  <2>2. CASE ~Known(ass, a, n)
    <3> DEFINE new == [addr |-> a, base |-> base[n]]
               b == [ass EXCEPT ![n] = new]
    <3>1. Noted(ass, a, n, a, base[n]) = b
      BY <2>2 DEF Noted
    <3>2. new.addr = a /\ new.base = base[n]
      OBVIOUS
    <3> HIDE DEF new
    <3>3. b[n] = new /\ \A k \in Indices : k # n => b[k] = ass[k]
      OBVIOUS
    <3> HIDE DEF b
    <3>4. Finds(b, page, base, w)
      BY <1>6, <3>2, <3>3 DEF Finds
    <3> QED
      BY <3>1, <3>4
  <2> QED
    BY <2>1, <2>2
<1> QED
  BY <1>5, <1>6

\* The pools of the levels do not share a page.
LEMMA PoolsApart ==
  /\ \A k \in Indices, l \in Indices : PdPage[k] = PdPage[l] => k = l
  /\ \A k \in Indices, l \in Indices : PtPage[k] = PtPage[l] => k = l
  /\ \A k \in Indices, l \in Indices : PdPage[k] # PtPage[l]
  /\ \A k \in Indices : PdPage[k] \notin {0, PC_BASE, pr_pool(0)}
  /\ \A k \in Indices : PtPage[k] \notin {0, PC_BASE, pr_pool(0)}
  /\ PC_BASE # 0 /\ pr_pool(0) # 0 /\ pr_pool(0) # PC_BASE
<1>1. IndexMod \in Nat \ {0}
  BY PageTableAssumption
<1>2. \A k \in Indices : PdPage[k] = 8404993 + 4 * k /\ PtPage[k] = 8413186 + 4 * k
  BY <1>1, SMT DEF PdPage, PtPage, pd_pool, pt_pool, PD_BASE, PT_BASE, PC_BASE, Indices
<1>3. PC_BASE = 8388608 /\ pr_pool(0) = 8396800
  BY SMT DEF PC_BASE, pr_pool, PR_BASE
<1> QED
  BY <1>1, <1>2, <1>3, SMT DEF Indices

LEMMA InitWalk == PtInit => WalkInv
<1> SUFFICES ASSUME PtInit PROVE WalkInv
  OBVIOUS
<1> DEFINE none == [n \in Indices |-> Unused]
<1>1. pc_ass = none /\ pr_ass = none /\ pd_ass = none /\ pt_ass = none
  BY DEF PtInit, Indices
<1>2. Unused.addr = <<0, 0>> /\ Unused.addr[1] = 0
  BY DEF Unused
<1>3. \A k \in Indices : none[k].addr = <<0, 0>> /\ none[k].addr[1] = 0
  BY <1>2
<1>4. next = 0 /\ mem = <<>> /\ va_page_size \in 0 .. 7 /\ va_size \in 0 .. 8
  BY PageTableAssumption DEF PtInit
<1>5. DOMAIN mem = {} /\ 0 % IndexMod = 0 /\ 0 \in Indices
  <2>1. IndexMod \in Nat \ {0}
    BY PageTableAssumption
  <2> QED
    BY <1>4, <2>1 DEF Indices
<1> HIDE DEF none
<1> QED
  BY <1>1, <1>3, <1>4, <1>5 DEF WalkInv, TopFound, Finds, Holds, NewestWalks

LEMMA WalkStep ==
  ASSUME Aligned, PtInv, WalkInv, setup_page_desc
  PROVE  WalkInv'
<1> DEFINE j == next
           n == j % IndexMod
           v == va_pool(j)
           pcA == <<PC_BASE, pc_index(v)>>
           pr_base == Below(pc_ass, pcA, n, pr_pool(n))
           prA == <<pr_base, pr_index(v)>>
           pd_base == Below(pr_ass, prA, n, pd_pool(n))
           pdA == <<pd_base, pd_index(v)>>
           pt_base == Below(pd_ass, pdA, n, pt_pool(n))
           ptA == <<pt_base, pt_index(v)>>
           pa_page == Below(pt_ass, ptA, n, pa_pool(n))
           m1 == Written(mem, pc_ass, pcA, n, IF Large THEN pd_base ELSE pr_base)
           m2 == IF Large THEN m1 ELSE Written(m1, pr_ass, prA, n, pd_base)
           m3 == Written(m2, pd_ass, pdA, n, pt_base)
           top == IF Large THEN pd_pool(0) ELSE pr_pool(0)
<1>1. /\ pc_ass' = Noted(pc_ass, pcA, n, pcA, pr_base)
      /\ pr_ass' = Noted(pr_ass, prA, n, pcA, pd_base)
      /\ pd_ass' = Noted(pd_ass, pdA, n, pdA, pt_base)
      /\ pt_ass' = Noted(pt_ass, ptA, n, ptA, pa_page)
      /\ mem' = Written(m3, pt_ass, ptA, n, pa_page)
  BY Zenon DEF setup_page_desc, gen_page_desc, Large
<1>2. /\ j \in Nat /\ next' = j + 1
      /\ va_page_size' = va_page_size /\ va_size' = va_size
      /\ va_page_size \in 0 .. 7 /\ va_size \in 0 .. 8
  BY DEF setup_page_desc, PtInv, WalkInv
<1>3. /\ n \in Indices /\ 0 \in Indices /\ 0 \in 0 .. n /\ n \in Nat
      /\ 0 .. n \subseteq Indices
  <2>1. IndexMod \in Nat \ {0}
    BY PageTableAssumption
  <2> QED
    BY <1>2, <2>1 DEF Indices
<1>4. v \in Nat
  BY <1>2, VaPool
<1>5. /\ PdPage[n] = pd_pool(n) /\ PtPage[n] = pt_pool(n) /\ PaPage[n] = pa_pool(n)
      /\ PdPage[0] = pd_pool(0)
  BY <1>3 DEF PdPage, PtPage, PaPage
<1>6. /\ DOMAIN pc_ass = Indices /\ DOMAIN pr_ass = Indices
      /\ DOMAIN pd_ass = Indices /\ DOMAIN pt_ass = Indices
  BY DEF PtInv
<1>7. pcA # <<0, 0>> /\ pcA[1] = PC_BASE
  BY PoolsApart
<1>8. n # 0 => pc_ass[0].addr = pcA
  BY DEF WalkInv, TopFound
<1> HIDE DEF n
<1> HIDE DEF v, pcA, j
<1>9. \A k \in 0 .. n : pc_ass[k].addr = pcA => k = 0
  BY <1>3, <1>7 DEF WalkInv, TopFound
<1>10. /\ Known(pc_ass, pcA, n) <=> pc_ass[0].addr = pcA
       /\ Known(pc_ass, pcA, n) => pr_base = pc_ass[0].base
       /\ ~Known(pc_ass, pcA, n) => pr_base = pr_pool(n)
  BY <1>3, <1>9, OneSlot
<1>11. pr_base = pr_pool(0) /\ (~Known(pc_ass, pcA, n) => n = 0)
  <2>1. pc_ass[0].addr = pcA => pc_ass[0].base = pr_pool(0)
    BY <1>7 DEF WalkInv, TopFound
  <2>2. ~Known(pc_ass, pcA, n) => n = 0
    BY <1>8, <1>10
  <2> QED
    BY <1>10, <2>1, <2>2
<1>12. prA[1] = pr_pool(0)
  BY <1>11
<1> HIDE DEF pr_base, prA
<1>13. ~Known(pr_ass, prA, n)
  <2>1. ASSUME NEW k \in 0 .. n, pr_ass[k].addr = prA PROVE FALSE
    <3>1. pr_ass[k].addr[1] \in {0, PC_BASE}
      BY <1>3, <2>1 DEF WalkInv
    <3> QED
      BY <1>12, <2>1, <3>1, PoolsApart
  <2> QED
    BY <2>1 DEF Known
<1>14. pd_base = PdPage[n]
  BY <1>5, <1>13 DEF Below
<1>15. pdA[1] = PdPage[n]
  BY <1>14
<1> HIDE DEF pd_base, pdA
<1>16. /\ pt_base = PtPage[n]
       /\ Known(pd_ass, pdA, n) => pdA \in DOMAIN mem
       /\ \A w : DOMAIN mem \subseteq DOMAIN w /\ pdA \in DOMAIN w =>
            Finds(pd_ass', PdPage, PtPage, w)
  <2>1. pt_base = Below(pd_ass, pdA, n, PtPage[n])
    BY <1>5
  <2>2. Finds(pd_ass, PdPage, PtPage, mem)
    BY DEF WalkInv
  <2>3. \A k \in Indices : PdPage[k] # 0
    BY PoolsApart
  <2> HIDE DEF pt_base
  <2>4. /\ pt_base = PtPage[n]
        /\ Known(pd_ass, pdA, n) => pdA \in DOMAIN mem
        /\ \A w : DOMAIN mem \subseteq DOMAIN w /\ pdA \in DOMAIN w =>
             Finds(Noted(pd_ass, pdA, n, pdA, PtPage[n]), PdPage, PtPage, w)
    BY <1>3, <1>6, <1>15, <2>1, <2>2, <2>3, LevelFacts, PoolsApart
  <2> QED
    BY <1>1, <2>4
<1>17. ptA[1] = PtPage[n]
  BY <1>16
<1> HIDE DEF pt_base, ptA
<1>18. /\ pa_page = PaPage[n]
       /\ Known(pt_ass, ptA, n) => ptA \in DOMAIN mem
       /\ \A w : DOMAIN mem \subseteq DOMAIN w /\ ptA \in DOMAIN w =>
            Finds(pt_ass', PtPage, PaPage, w)
  <2>1. pa_page = Below(pt_ass, ptA, n, PaPage[n])
    BY <1>5
  <2>2. Finds(pt_ass, PtPage, PaPage, mem)
    BY DEF WalkInv
  <2>3. \A k \in Indices : PtPage[k] # 0
    BY PoolsApart
  <2> HIDE DEF pa_page
  <2>4. /\ pa_page = PaPage[n]
        /\ Known(pt_ass, ptA, n) => ptA \in DOMAIN mem
        /\ \A w : DOMAIN mem \subseteq DOMAIN w /\ ptA \in DOMAIN w =>
             Finds(Noted(pt_ass, ptA, n, ptA, PaPage[n]), PtPage, PaPage, w)
    BY <1>3, <1>6, <1>17, <2>1, <2>2, <2>3, LevelFacts, PoolsApart
  <2> QED
    BY <1>1, <2>4
<1> HIDE DEF pa_page
<1>19. /\ pcA # prA /\ pcA # pdA /\ pcA # ptA /\ prA # pdA /\ prA # ptA /\ pdA # ptA
       /\ \A k \in Indices : /\ pcA[1] # PdPage[k] /\ pcA[1] # PtPage[k]
                             /\ prA[1] # PdPage[k] /\ prA[1] # PtPage[k]
                             /\ pdA[1] # PtPage[k] /\ ptA[1] # PdPage[k]
                             /\ pdA[1] = PdPage[k] => k = n
                             /\ ptA[1] = PtPage[k] => k = n
  BY <1>3, <1>7, <1>12, <1>15, <1>17, PoolsApart
<1>20. Holds(mem, PdPage, PtPage) /\ Holds(mem, PtPage, PaPage)
  BY DEF WalkInv
\* The four writes, one after the other.
<1>21. /\ Holds(m1, PdPage, PtPage) /\ Holds(m1, PtPage, PaPage)
       /\ DOMAIN mem \subseteq DOMAIN m1 /\ pcA \in DOMAIN m1 /\ m1[pcA] = top
  <2>1. CASE Known(pc_ass, pcA, n)
    <3>1. pc_ass[0].addr = pcA /\ m1 = mem
      BY <1>10, <2>1, WrittenIs
    <3> QED
      BY <1>7, <1>20, <3>1 DEF WalkInv, TopFound
  <2>2. CASE ~Known(pc_ass, pcA, n)
    <3> DEFINE b == IF Large THEN pd_base ELSE pr_base
    <3>1. b = top
      BY <1>5, <1>11, <1>14, <2>2
    <3> HIDE DEF b, top
    <3>2. /\ DOMAIN mem \subseteq DOMAIN m1 /\ pcA \in DOMAIN m1 /\ m1[pcA] = b
      BY <2>2, WrittenIs DEF b
    <3>3. Holds(m1, PdPage, PtPage) /\ Holds(m1, PtPage, PaPage)
      BY <1>19, <1>20, WrittenHolds
    <3> QED
      BY <3>1, <3>2, <3>3
  <2> QED
    BY <2>1, <2>2
<1> HIDE DEF m1, top
<1>22. /\ Holds(m2, PdPage, PtPage) /\ Holds(m2, PtPage, PaPage)
       /\ DOMAIN mem \subseteq DOMAIN m2 /\ pcA \in DOMAIN m2 /\ m2[pcA] = top
       /\ ~Large => prA \in DOMAIN m2 /\ m2[prA] = PdPage[n]
  <2>1. CASE Large
    BY <1>21, <2>1
  <2>2. CASE ~Large
    <3> DEFINE w == Written(m1, pr_ass, prA, n, pd_base)
    <3>1. Holds(w, PdPage, PtPage) /\ Holds(w, PtPage, PaPage)
      BY <1>19, <1>21, WrittenHolds
    <3>2. /\ DOMAIN m1 \subseteq DOMAIN w /\ w[pcA] = m1[pcA]
          /\ prA \in DOMAIN w /\ w[prA] = PdPage[n]
      BY <1>13, <1>14, <1>19, <1>21, WrittenIs
    <3> HIDE DEF w
    <3>3. m2 = w
      BY <2>2 DEF w
    <3> QED
      BY <1>21, <3>1, <3>2, <3>3
  <2> QED
    BY <2>1, <2>2
<1> HIDE DEF m2
<1>23. /\ Holds(m3, PdPage, PtPage) /\ Holds(m3, PtPage, PaPage)
       /\ DOMAIN mem \subseteq DOMAIN m3 /\ pcA \in DOMAIN m3 /\ m3[pcA] = top
       /\ ~Large => prA \in DOMAIN m3 /\ m3[prA] = PdPage[n]
       /\ pdA \in DOMAIN m3
  <2>1. Holds(m3, PdPage, PtPage) /\ Holds(m3, PtPage, PaPage)
    BY <1>16, <1>19, <1>22, WrittenHolds
  <2>2. /\ DOMAIN m2 \subseteq DOMAIN m3
        /\ \A x \in DOMAIN m2 : x # pdA => m3[x] = m2[x]
        /\ pdA \in DOMAIN m2 \/ pdA \in DOMAIN m3
    BY <1>16, <1>22, WrittenIs
  <2> HIDE DEF m3
  <2> QED
    BY <1>19, <1>22, <2>1, <2>2
<1> HIDE DEF m3
<1>24. /\ Holds(mem', PdPage, PtPage) /\ Holds(mem', PtPage, PaPage)
       /\ DOMAIN mem \subseteq DOMAIN mem' /\ pcA \in DOMAIN mem' /\ mem'[pcA] = top
       /\ ~Large => prA \in DOMAIN mem' /\ mem'[prA] = PdPage[n]
       /\ pdA \in DOMAIN mem' /\ ptA \in DOMAIN mem'
  <2>1. Holds(mem', PdPage, PtPage) /\ Holds(mem', PtPage, PaPage)
    BY <1>1, <1>18, <1>19, <1>23, WrittenHolds
  <2>2. /\ DOMAIN m3 \subseteq DOMAIN mem'
        /\ \A x \in DOMAIN m3 : x # ptA => mem'[x] = m3[x]
        /\ ptA \in DOMAIN m3 \/ ptA \in DOMAIN mem'
    BY <1>1, <1>18, <1>23, WrittenIs
  <2> QED
    BY <1>19, <1>23, <2>1, <2>2
<1>25. mem'[pdA] = PtPage[n] /\ mem'[ptA] = PaPage[n]
  BY <1>3, <1>15, <1>17, <1>24 DEF Holds
<1>26. TopFound'
  <2>1. ASSUME NEW k \in Indices, k # 0 PROVE pc_ass'[k].addr = <<0, 0>>
    <3>1. pc_ass'[k] = pc_ass[k]
      BY <1>1, <1>6, <1>11, <2>1 DEF Noted
    <3> QED
      BY <2>1, <3>1 DEF WalkInv, TopFound
  <2>2. pc_ass'[0].addr = pcA /\ pc_ass'[0].base = pr_pool(0)
    <3>1. CASE Known(pc_ass, pcA, n)
      BY <1>1, <1>7, <1>10, <3>1 DEF Noted, WalkInv, TopFound
    <3>2. CASE ~Known(pc_ass, pcA, n)
      <4> DEFINE new == [addr |-> pcA, base |-> pr_base]
      <4>1. new.addr = pcA /\ new.base = pr_pool(0)
        BY <1>11
      <4> HIDE DEF new
      <4>2. pc_ass' = [pc_ass EXCEPT ![n] = new]
        BY <1>1, <3>2 DEF Noted, new
      <4> QED
        BY <1>3, <1>6, <1>11, <3>2, <4>1, <4>2
    <3> QED
      BY <3>1, <3>2
  <2>3. next' % IndexMod # 0 => pcA = <<PC_BASE, pc_index(va_pool(next'))>>
    BY <1>2, SameBlock DEF pcA, v
  <2>4. va_pool(next') = va_pool(next)'
    BY <1>2 DEF va_pool
  <2>5. (next % IndexMod # 0)' => pc_ass'[0].addr = <<PC_BASE, pc_index(va_pool(next)')>>
    BY <2>2, <2>3, <2>4
  <2>6. mem'[pcA] = (IF Large THEN pd_pool(0) ELSE pr_pool(0))'
    BY <1>2, <1>24 DEF top, Large, pd_pool, pr_pool
  <2> QED
    BY <1>24, <2>1, <2>2, <2>5, <2>6 DEF TopFound, pc_index, Bits, pr_pool, Indices
<1>27. \A k \in Indices : pr_ass'[k].addr[1] \in {0, PC_BASE}
  <2> DEFINE new == [addr |-> pcA, base |-> pd_base]
  <2>1. new.addr[1] = PC_BASE
    BY <1>7
  <2> HIDE DEF new
  <2>2. pr_ass' = [pr_ass EXCEPT ![n] = new]
    BY <1>1, <1>13 DEF Noted, new
  <2> QED
    BY <1>6, <2>1, <2>2 DEF WalkInv
<1>28. PdPage' = PdPage /\ PtPage' = PtPage /\ PaPage' = PaPage
  BY <1>2 DEF PdPage, PtPage, PaPage, pd_pool, pt_pool, pa_pool
<1>29. Finds(pd_ass', PdPage, PtPage, mem') /\ Finds(pt_ass', PtPage, PaPage, mem')
  BY <1>16, <1>18, <1>24
<1>30. NewestWalks'
  <2> SUFFICES ASSUME ~Large \/ n = 0
               PROVE  Walk(va_pool(next - 1))' = pa_pool((next - 1) % IndexMod)'
    <3>1. va_page_size' < 5 => ~Large
      BY <1>2 DEF Large
    <3>2. (next' - 1) % IndexMod = n
      BY <1>2 DEF n, j
    <3>3. (next' > 0 /\ (va_page_size' < 5 \/ (next' - 1) % IndexMod = 0)) => ~Large \/ n = 0
      BY <3>1, <3>2
    <3> QED
      BY <3>3, Zenon DEF NewestWalks
  <2>1. va_pool(next - 1)' = v
    BY <1>2 DEF va_pool, v, j
  <2>2. pa_pool((next - 1) % IndexMod)' = PaPage[n]
    BY <1>2, <1>5 DEF pa_pool, n, j
  <2>3. CASE ~Large
    <3>1. /\ pcA = <<PC_BASE, (v \div 512^3) % 512>>
          /\ prA = <<pr_pool(0), (v \div 512^2) % 512>>
          /\ pdA = <<PdPage[n], (v \div 512^1) % 512>>
          /\ ptA = <<PtPage[n], ((v \div 512^0) % 512) \div Span[va_page_size]>>
      BY <1>2, <1>4, <1>11, <1>14, <1>16, <2>3, Fields DEF pcA, prA, pdA, ptA
    <3>2. mem'[pcA] = pr_pool(0)
      BY <1>24, <2>3 DEF top
    <3> QED
      BY <1>2, <1>24, <1>25, <2>1, <2>2, <2>3, <3>1, <3>2 DEF Walk, Entry, Large
  <2>4. CASE Large /\ n = 0
    <3>1. /\ pcA = <<PC_BASE, (v \div 512^3) % 512>>
          /\ pdA = <<PdPage[n], (v \div 512^2) % 512>>
          /\ ptA = <<PtPage[n], (v % (512 * 512)) \div Span[va_page_size]>>
      BY <1>2, <1>4, <1>14, <1>16, <2>4, Fields DEF pcA, pdA, ptA
    <3>2. mem'[pcA] = PdPage[n]
      BY <1>5, <1>24, <2>4 DEF top
    <3> QED
      BY <1>2, <1>24, <1>25, <2>1, <2>2, <2>4, <3>1, <3>2 DEF Walk, Entry, Large
  <2> QED
    BY <2>3, <2>4
<1> QED
  BY <1>2, <1>24, <1>26, <1>27, <1>28, <1>29, <1>30 DEF WalkInv, Finds, Holds

LEMMA StutterWalk == WalkInv /\ UNCHANGED <<va_page_size, va_size, next, pc_ass, pr_ass, pd_ass,
                                             pt_ass, mem>> => WalkInv'
  BY DEF WalkInv, TopFound, Finds, Holds, NewestWalks, Walk, Entry, Large, Indices,
     PdPage, PtPage, PaPage, pr_pool, pd_pool, pt_pool, pa_pool, va_pool, pc_index, Bits

LEMMA NextWalk == Aligned /\ PtInv /\ WalkInv /\ [PtNext]_ptVars => WalkInv'
<1> SUFFICES ASSUME Aligned, PtInv, WalkInv, [PtNext]_ptVars PROVE WalkInv'
  OBVIOUS
<1>1. CASE setup_page_desc
  BY <1>1, WalkStep
<1>2. CASE pcie_mmu_cfg_init \/ UNCHANGED ptVars
  BY <1>2, StutterWalk DEF pcie_mmu_cfg_init, ptVars
<1> QED
  BY <1>1, <1>2 DEF PtNext

\* With any pool, page size and distance of the pages, and any power of two up to
\* 1024 at which the index wraps (256 in the code): the page set up last is
\* translated through all the levels to the physical page of its index, or, of
\* pages of 2 MB and more, the first of the pool is.
THEOREM NewestPageWalks == Aligned => (LayoutSpec => []NewestWalks)
<1> DEFINE Inv == PtInv /\ WalkInv
<1>1. LayoutInit => Inv
  BY InitPt, InitWalk DEF LayoutInit
<1>2. Aligned /\ Inv /\ [LayoutNext]_layoutVars => Inv'
  <2>1. [LayoutNext]_layoutVars => [PtNext]_ptVars
    BY DEF LayoutNext, phy_init, eata_init, SetupWindows, pcie_intr_init, irq_init,
       mtdma_comm_init, SetupChannels, pcie_mmu_init, ProbeVf, layoutVars, mapVars
  <2> QED
    BY <2>1, NextPt, NextWalk
<1>3. Inv => NewestWalks
  BY DEF WalkInv
<1>4. ASSUME Aligned PROVE LayoutSpec => []NewestWalks
  <2>1. Inv /\ [LayoutNext]_layoutVars => Inv'
    BY <1>2, <1>4
  <2> HIDE DEF Inv
  <2> QED
    BY <1>1, <1>3, <2>1, PTL DEF LayoutSpec
<1> QED
  BY <1>4
-----------------------------------------------------------------------------
(* The registers.  Every bank has a place, the addresses between which it  *)
(* writes; each place is in the bank's unit, and no two places share an    *)
(* address but those of the outbound windows and of the VFs' inbound       *)
(* windows, which alternate, and from 49 VFs on those of the VFs' windows  *)
(* and of the PF's and the APU's.                                          *)

\* The banks that the set-up may have written with n VFs, but for those of
\* irq_init
Others(n) ==
  {<<"phy", 0>>, <<"mmu", 0>>, <<"channels", 0>>, <<"comm", n>>}
    \cup IatuBanks(n) \cup IntrBanks \cup VfBanks \cup EataBanks

DoneInv ==
  /\ ~Muxed => done \subseteq Others(vf_num)
  /\ Muxed => \E k \in Vectors : /\ <<"claim", k>> \in done
                                 /\ done \subseteq Others(vf_num) \cup MuxBanks(k)

\* Only irq_init writes banks of its own.
LEMMA NoClaims == \A n, k : <<"claim", k>> \notin Others(n)
  BY DEF Others, IatuBanks, IntrBanks, VfBanks, EataBanks

LEMMA NextDone == vf_num \in VfNums /\ DoneInv /\ [LayoutNext]_layoutVars => DoneInv'
<1> SUFFICES ASSUME DoneInv, [LayoutNext]_layoutVars PROVE DoneInv'
  OBVIOUS
<1>1. ASSUME NEW W \in SUBSET Others(vf_num), done' = done \cup W, vf_num' = vf_num
      PROVE  DoneInv'
  <2>1. \A k : <<"claim", k>> \in done' <=> <<"claim", k>> \in done
    BY <1>1, NoClaims
  <2>2. (Muxed)' <=> Muxed
    BY <2>1 DEF Muxed
  <2>3. Others(vf_num)' = Others(vf_num)
    BY <1>1 DEF Others, IatuBanks, IntrBanks, VfBanks, EataBanks
  <2>4. \A k : MuxBanks(k)' = MuxBanks(k)
    BY DEF MuxBanks
  <2> QED
    BY <1>1, <2>1, <2>2, <2>3, <2>4 DEF DoneInv, MuxBanks
<1>2. CASE irq_init
  <2>1. PICK k \in Vectors : done' = done \cup MuxBanks(k)
    BY <1>2 DEF irq_init, Writes
  <2>2. ~Muxed /\ vf_num' = vf_num
    BY <1>2 DEF irq_init, mapVars
  <2>3. <<"claim", k>> \in MuxBanks(k)
    BY DEF MuxBanks
  <2>4. done' \subseteq Others(vf_num) \cup MuxBanks(k) /\ <<"claim", k>> \in done'
    BY <2>1, <2>2, <2>3 DEF DoneInv
  <2>5. (Muxed)'
    BY <2>4 DEF Muxed
  <2> QED
    BY <2>2, <2>4, <2>5 DEF DoneInv, Others, IatuBanks, IntrBanks, VfBanks, EataBanks, MuxBanks
<1>3. CASE phy_init
  BY <1>1, <1>3 DEF phy_init, Writes, Others, mapVars
<1>4. CASE eata_init
  BY <1>1, <1>4 DEF eata_init, Writes, Others
<1>5. CASE SetupWindows
  <2>1. IatuBanks(vf_num) \cup {<<"dma_ds", 0>>} \subseteq Others(vf_num)
    BY DEF Others, EataBanks
  <2> QED
    BY <1>1, <1>5, <2>1 DEF SetupWindows, Writes, iatu_init
<1>6. CASE pcie_intr_init
  BY <1>1, <1>6 DEF pcie_intr_init, Writes, Others, mapVars
<1>7. CASE mtdma_comm_init
  BY <1>1, <1>7 DEF mtdma_comm_init, Writes, Others, mapVars
<1>8. CASE SetupChannels
  BY <1>1, <1>8 DEF SetupChannels, Writes, Others, mtdma_bare_init
<1>9. CASE pcie_mmu_init
  <2>1. (IF pcbase' # pcbase THEN {<<"mmu", 0>>} ELSE {}) \subseteq Others(vf_num)
    BY DEF Others
  <2> QED
    BY <1>1, <1>9, <2>1 DEF pcie_mmu_init, Writes, mapVars
<1>10. CASE ProbeVf
  BY <1>1, <1>10 DEF ProbeVf, Writes, Others, mtdma_bare_init_vf
<1>11. CASE UNCHANGED layoutVars
  <2>1. {} \in SUBSET Others(vf_num) /\ done' = done \cup {}
    BY <1>11 DEF layoutVars
  <2> QED
    BY <1>1, <1>11, <2>1 DEF layoutVars, mapVars
<1> QED
  BY <1>2, <1>3, <1>4, <1>5, <1>6, <1>7, <1>8, <1>9, <1>10, <1>11 DEF LayoutNext

\* What the table of banks says of each kind
LEMMA BankOf ==
  ASSUME NEW b \in AllBanks
  PROVE  /\ b[1] \in {"inbound", "outbound", "inbound_vf"} => Banks[b] = IatuBank(b[1], b[2])
         /\ b[1] \in {"gpu_tf", "gpu_gc", "gpu_ds"} => Banks[b] = GpuBank(b[1], b[2])
         /\ b[1] \in {"vid_tf", "vid_gc", "vid_ds"} => Banks[b] = VidBank(b[1], b[2])
         /\ b[1] \in {"dma_tf", "dma_gc", "dma_ds"} => Banks[b] = MtdmaEataBank(b[1])
         /\ b[1] = "dma_vf" => Banks[b] = VfEataBank(b[2])
         /\ b[1] \in {"bd_spi", "cd_spi"} => Banks[b] = IntrBank(b[1])
         /\ b[1] \in {"src_soft", "target_soft", "enable", "claim"} =>
              Banks[b] = MuxBank(b[1], b[2])
         /\ b[1] \in {"vf_src_soft", "vf_target_soft", "vf_enable", "vf_claim"} =>
              Banks[b] = VfMuxBank(b[1])
         /\ b[1] \in {"comm", "channels", "vf_channel"} => Banks[b] = DmaBank(b[1], b[2])
         /\ b[1] = "mmu" => Banks[b] = MmuBank
         /\ b[1] = "phy" => Banks[b] = PhyBank
<1> DEFINE k == b[1]
           i == b[2]
<1>1. Banks[b] =
     CASE k \in {"inbound", "outbound", "inbound_vf"} -> IatuBank(k, i)
       [] k \in {"gpu_tf", "gpu_gc", "gpu_ds"} -> GpuBank(k, i)
       [] k \in {"vid_tf", "vid_gc", "vid_ds"} -> VidBank(k, i)
       [] k \in {"dma_tf", "dma_gc", "dma_ds"} -> MtdmaEataBank(k)
       [] k = "dma_vf" -> VfEataBank(i)
       [] k \in {"bd_spi", "cd_spi"} -> IntrBank(k)
       [] k \in {"src_soft", "target_soft", "enable", "claim"} -> MuxBank(k, i)
       [] k \in {"vf_src_soft", "vf_target_soft", "vf_enable", "vf_claim"} -> VfMuxBank(k)
       [] k \in {"comm", "channels", "vf_channel"} -> DmaBank(k, i)
       [] k = "mmu" -> MmuBank
       [] k = "phy" -> PhyBank
  BY Zenon DEF Banks
<1> HIDE DEF k, i
<1>2. /\ k \in {"inbound", "outbound", "inbound_vf"} => Banks[b] = IatuBank(k, i)
      /\ k \in {"gpu_tf", "gpu_gc", "gpu_ds"} => Banks[b] = GpuBank(k, i)
      /\ k \in {"vid_tf", "vid_gc", "vid_ds"} => Banks[b] = VidBank(k, i)
      /\ k \in {"dma_tf", "dma_gc", "dma_ds"} => Banks[b] = MtdmaEataBank(k)
      /\ k = "dma_vf" => Banks[b] = VfEataBank(i)
      /\ k \in {"bd_spi", "cd_spi"} => Banks[b] = IntrBank(k)
      /\ k \in {"src_soft", "target_soft", "enable", "claim"} => Banks[b] = MuxBank(k, i)
      /\ k \in {"vf_src_soft", "vf_target_soft", "vf_enable", "vf_claim"} =>
           Banks[b] = VfMuxBank(k)
      /\ k \in {"comm", "channels", "vf_channel"} => Banks[b] = DmaBank(k, i)
      /\ k = "mmu" => Banks[b] = MmuBank
      /\ k = "phy" => Banks[b] = PhyBank
  BY <1>1, SMT
<1> QED
  BY <1>2, Zenon DEF k, i

Within(regs, lo, hi) ==
  \A r \in regs : r[1] \in Int /\ r[2] \in Int /\ lo <= r[1] /\ r[2] <= hi

\* A bank whose registers are at lo .. hi - 1, in its unit
Fits(bank, bar, lo, hi) ==
  /\ bank.bar = bar /\ lo \in Int /\ hi \in Int
  /\ bank.unit[1] \in Int /\ bank.unit[2] \in Int
  /\ bank.unit[1] <= lo /\ hi <= bank.unit[2]
  /\ Within(bank.regs, lo, hi)

LEMMA FitsIs ==
  ASSUME NEW bar, NEW u1 \in Int, NEW u2 \in Int, NEW regs, NEW lo \in Int, NEW hi \in Int,
         u1 <= lo, hi <= u2, Within(regs, lo, hi)
  PROVE  Fits(Bank(bar, <<u1, u2>>, regs), bar, lo, hi)
<1> DEFINE bank == Bank(bar, <<u1, u2>>, regs)
<1>1. /\ bank.bar = bar /\ bank.unit = <<u1, u2>> /\ bank.regs = regs
  BY DEF Bank
<1>2. <<u1, u2>>[1] = u1 /\ <<u1, u2>>[2] = u2
  OBVIOUS
<1> HIDE DEF bank
<1>3. Fits(bank, bar, lo, hi)
  BY <1>1, <1>2 DEF Fits
<1> QED
  BY <1>3 DEF bank

LEMMA AtWithin ==
  ASSUME NEW base \in Int, NEW n \in Nat, NEW offsets \in SUBSET (0 .. n),
         NEW lo \in Int, NEW hi \in Int, lo <= base, base + n + 4 <= hi
  PROVE  Within(At(base, offsets), lo, hi)
<1>1. ASSUME NEW o \in offsets PROVE Within({<<base + o, base + o + 4>>}, lo, hi)
  BY SMT DEF Within
<1> QED
  BY <1>1, SMT DEF At, Within

LEMMA DwordsWithin ==
  ASSUME NEW base \in Int, NEW n \in Nat,
         NEW lo \in Int, NEW hi \in Int, lo <= base, base + 4 * n <= hi
  PROVE  Within(Dwords(base, n), lo, hi)
<1>1. Within({<<base, base + 4 * n>>}, lo, hi)
  BY SMT DEF Within
<1> QED
  BY <1>1 DEF Dwords, Within

LEMMA WithinBoth ==
  ASSUME NEW A, NEW B, NEW lo, NEW hi, Within(A, lo, hi), Within(B, lo, hi)
  PROVE  Within(A \cup B, lo, hi)
  BY DEF Within

\* The translation units of the PCIe controller
LEMMA PlaceInbound == Fits(IatuBank("inbound", 0), 0, \h3e6100, \h3e6400)
<1> DEFINE regs == pcie_prog_inbound_regs(IATU_NUM - 1) \cup pcie_prog_inbound_regs(IATU_NUM - 2)
<1>1. IatuBank("inbound", 0) = Bank(0, <<\h200000, \h400000>>, regs)
  BY SMT DEF IatuBank, PCIE_CTRL, Block, PcieBlocks, One, Row, Many
<1>2. /\ REG_PCIE_IP_IATU(IATU_NUM - 1, 1) = \h3e6300
      /\ REG_PCIE_IP_IATU(IATU_NUM - 2, 1) = \h3e6100
  BY SMT DEF REG_PCIE_IP_IATU, IATU_NUM, PCIE_CTRL, Block, PcieBlocks, One, Row, Many
<1>3. Within(regs, \h3e6100, \h3e6400)
  BY <1>2, SMT DEF pcie_prog_inbound_regs, At, Within
<1> HIDE DEF regs
<1> QED
  BY <1>1, <1>3, FitsIs, SMT

LEMMA PlaceOutbound == Fits(IatuBank("outbound", 0), 0, \h3e0000, \h3e0300)
<1> DEFINE regs == pcie_prog_outbound_regs(0) \cup pcie_prog_outbound_regs(1)
<1>1. IatuBank("outbound", 0) = Bank(0, <<\h200000, \h400000>>, regs)
  BY SMT DEF IatuBank, PCIE_CTRL, Block, PcieBlocks, One, Row, Many
<1>2. REG_PCIE_IP_IATU(0, 0) = \h3e0000 /\ REG_PCIE_IP_IATU(1, 0) = \h3e0200
  BY SMT DEF REG_PCIE_IP_IATU, PCIE_CTRL, Block, PcieBlocks, One, Row, Many
<1>3. Within(regs, \h3e0000, \h3e0300)
  BY <1>2, SMT DEF pcie_prog_outbound_regs, At, Within
<1> HIDE DEF regs
<1> QED
  BY <1>1, <1>3, FitsIs, SMT

\* The window of VF w
LEMMA VfWindowRegs ==
  ASSUME NEW w \in Nat
  PROVE  Within(pcie_prog_inbound_vf_regs(w), \h3e0100 + 512 * w, \h3e0120 + 512 * w)
<1>1. REG_PCIE_IP_IATU(w, 1) = \h3e0100 + 512 * w
  BY SMT DEF REG_PCIE_IP_IATU, PCIE_CTRL, Block, PcieBlocks, One, Row, Many
<1> QED
  BY <1>1, SMT DEF pcie_prog_inbound_vf_regs, At, Within

LEMMA PlaceInboundVf ==
  ASSUME NEW n \in 0 .. 64
  PROVE  /\ Fits(IatuBank("inbound_vf", n), 0, \h3e0100, \h3e0100 + 512 * n)
         /\ IatuBank("inbound_vf", n).regs =
              UNION {pcie_prog_inbound_vf_regs(w) : w \in 0 .. (n - 1)}
<1> DEFINE regs == UNION {pcie_prog_inbound_vf_regs(w) : w \in 0 .. (n - 1)}
<1>1. IatuBank("inbound_vf", n) = Bank(0, <<\h200000, \h400000>>, regs)
  BY SMT DEF IatuBank, PCIE_CTRL, Block, PcieBlocks, One, Row, Many
<1>2. ASSUME NEW r \in regs PROVE Within({r}, \h3e0100, \h3e0100 + 512 * n)
  <2>1. PICK w \in 0 .. (n - 1) : r \in pcie_prog_inbound_vf_regs(w)
    OBVIOUS
  <2>2. w \in 0 .. 63 /\ w + 1 <= n
    BY SMT
  <2> HIDE DEF regs
  <2>3. Within(pcie_prog_inbound_vf_regs(w), \h3e0100 + 512 * w, \h3e0120 + 512 * w)
    BY <2>2, VfWindowRegs, SMT
  <2> QED
    BY <2>1, <2>2, <2>3, SMT DEF Within
<1> HIDE DEF regs
<1>3. Within(regs, \h3e0100, \h3e0100 + 512 * n)
  BY <1>2, SMT DEF Within
<1>4. IatuBank("inbound_vf", n).regs = regs
  BY <1>1 DEF Bank
<1>5. Fits(IatuBank("inbound_vf", n), 0, \h3e0100, \h3e0100 + 512 * n)
  <2> DEFINE hi == \h3e0100 + 512 * n
  <2>1. hi \in Int /\ hi <= \h400000 /\ Within(regs, \h3e0100, hi)
    BY <1>3, SMT
  <2> HIDE DEF hi
  <2>2. Fits(Bank(0, <<\h200000, \h400000>>, regs), 0, \h3e0100, hi)
    BY <2>1, FitsIs, SMT
  <2> QED
    BY <1>1, <2>2 DEF hi
<1> QED
  BY <1>4, <1>5 DEF regs

\* The translations and filters of one unit
LEMMA TzcWithin ==
  ASSUME NEW base \in Int
  PROVE  Within(eata_tzc_init(base), base, base + \h1000)
  BY SMT DEF eata_tzc_init, At, Within

LEMMA CommonWithin ==
  ASSUME NEW base \in Int
  PROVE  /\ Within(eata_common_init(base), base, base + \h800)
         /\ Within(gpu_eata_common_init(base), base, base + \h800)
<1>1. Within(eata_common_init(base), base, base + \h800)
  BY SMT DEF eata_common_init, At, Within
<1>2. Within(At(base, {\h34}), base, base + \h800)
  BY SMT DEF At, Within
<1>3. Within(Dwords(base + \h38, EATA_VF_NUM_PER_GPU), base, base + \h800)
  BY SMT DEF Dwords, Within, EATA_VF_NUM_PER_GPU
<1> QED
  BY <1>1, <1>2, <1>3, SMT DEF gpu_eata_common_init, Within

Room(vms, size) == vms \in Nat /\ size \in Nat /\ 256 * vms <= size

DescFit(base, vms, size) == Within(eata_desc_init(base, vms), base, base + size)

LEMMA DescWithin ==
  ASSUME NEW base \in Int, NEW vms, NEW size, Room(vms, size)
  PROVE  DescFit(base, vms, size)
<1>1. ASSUME NEW vm \in 0 .. (vms - 1)
      PROVE  Within(Dwords(base + 256 * vm, EATA_DESC_NUM), base, base + size)
  <2>1. Dwords(base + 256 * vm, EATA_DESC_NUM) = {<<base + 256 * vm, base + 256 * vm + 4 * 48>>}
    BY SMT DEF Dwords, EATA_DESC_NUM, Room
  <2> QED
    BY <2>1, SMT DEF Within, Room
<1>2. eata_desc_init(base, vms) =
        UNION {Dwords(base + 256 * vm, EATA_DESC_NUM) : vm \in 0 .. (vms - 1)}
  BY DEF eata_desc_init
<1> QED
  BY <1>1, <1>2, SMT DEF Within, DescFit

LEMMA PlaceGpu ==
  ASSUME NEW i \in 0 .. 7
  PROVE  /\ Fits(GpuBank("gpu_tf", i), 0, \hb02000 + \h8000 * i, \hb03000 + \h8000 * i)
         /\ Fits(GpuBank("gpu_gc", i), 0, \hb03000 + \h8000 * i, \hb03800 + \h8000 * i)
         /\ Fits(GpuBank("gpu_ds", i), 0, \hb03800 + \h8000 * i, \hb04000 + \h8000 * i)
<1> DEFINE tf == \hb02000 + \h8000 * i
           gc == \hb03000 + \h8000 * i
           ds == \hb03800 + \h8000 * i
<1>1. GpuBank("gpu_tf", i) = Bank(0, <<tf, tf + \h1000>>, eata_tzc_init(tf))
  BY SMT DEF GpuBank, Block, GpuBlocks, Many, GPU_EATA_TF_CFG_BASE, ClampedBase
<1>2. GpuBank("gpu_gc", i) = Bank(0, <<gc, gc + \h800>>, gpu_eata_common_init(gc))
  BY SMT DEF GpuBank, Block, GpuBlocks, Many, GPU_EATA_GC_CFG_BASE, ClampedBase
<1>3. GpuBank("gpu_ds", i) =
        Bank(0, <<ds, ds + \h800>>, eata_desc_init(ds, EATA_VF_NUM_PER_GPU))
  BY SMT DEF GpuBank, Block, GpuBlocks, Many, GPU_EATA_DS_CFG_BASE, ClampedBase
<1>4. Within(eata_tzc_init(tf), tf, tf + \h1000)
  BY TzcWithin, SMT
<1>5. Within(gpu_eata_common_init(gc), gc, gc + \h800)
  BY CommonWithin, SMT
<1>6. Within(eata_desc_init(ds, EATA_VF_NUM_PER_GPU), ds, ds + \h800)
  <2>1. Room(EATA_VF_NUM_PER_GPU, \h800) /\ ds \in Int
    BY SMT DEF EATA_VF_NUM_PER_GPU, Room
  <2>2. DescFit(ds, EATA_VF_NUM_PER_GPU, \h800)
    BY <2>1, DescWithin, SMT
  <2> QED
    BY <2>2, SMT DEF DescFit
<1>7. /\ tf \in Int /\ tf + \h1000 = \hb03000 + \h8000 * i
      /\ gc \in Int /\ gc + \h800 = \hb03800 + \h8000 * i
      /\ ds \in Int /\ ds + \h800 = \hb04000 + \h8000 * i
  BY SMT
<1> HIDE DEF tf, gc, ds
<1>8. Fits(GpuBank("gpu_tf", i), 0, tf, tf + \h1000)
  BY <1>1, <1>4, <1>7, FitsIs, SMT
<1>9. Fits(GpuBank("gpu_gc", i), 0, gc, gc + \h800)
  BY <1>2, <1>5, <1>7, FitsIs, SMT
<1>10. Fits(GpuBank("gpu_ds", i), 0, ds, ds + \h800)
  BY <1>3, <1>6, <1>7, FitsIs, SMT
<1> QED
  BY <1>7, <1>8, <1>9, <1>10, SMT DEF tf, gc, ds

LEMMA PlaceVid ==
  ASSUME NEW i \in 0 .. 1
  PROVE  /\ Fits(VidBank("vid_tf", i), 0, \ha3a000 + \h8000 * i, \ha3b000 + \h8000 * i)
         /\ Fits(VidBank("vid_gc", i), 0, \ha3b000 + \h8000 * i, \ha3b800 + \h8000 * i)
         /\ Fits(VidBank("vid_ds", i), 0, \ha3c000 + \h8000 * i, \ha40000 + \h8000 * i)
<1> DEFINE tf == \ha3a000 + \h8000 * i
           gc == \ha3b000 + \h8000 * i
           ds == \ha3c000 + \h8000 * i
<1>1. VidBank("vid_tf", i) = Bank(0, <<tf, tf + \h1000>>, eata_tzc_init(tf))
  BY SMT DEF VidBank, Block, VideoBlocks, Many, VID_SS_EATA_TF_CFG_BASE, BaseOrZero
<1>2. VidBank("vid_gc", i) = Bank(0, <<gc, gc + \h800>>, eata_common_init(gc))
  BY SMT DEF VidBank, Block, VideoBlocks, Many, VID_SS_EATA_GC_CFG_BASE, BaseOrZero
<1>3. VidBank("vid_ds", i) = Bank(0, <<ds, ds + \h4000>>, eata_desc_init(ds, EATA_VF_NUM))
  BY SMT DEF VidBank, Block, VideoBlocks, Many, VID_SS_EATA_DS_CFG_BASE, BaseOrZero
<1>4. Within(eata_tzc_init(tf), tf, tf + \h1000)
  BY TzcWithin, SMT
<1>5. Within(eata_common_init(gc), gc, gc + \h800)
  BY CommonWithin, SMT
<1>6. Within(eata_desc_init(ds, EATA_VF_NUM), ds, ds + \h4000)
  <2>1. Room(EATA_VF_NUM, \h4000) /\ ds \in Int
    BY SMT DEF EATA_VF_NUM, Room
  <2>2. DescFit(ds, EATA_VF_NUM, \h4000)
    BY <2>1, DescWithin, SMT
  <2> QED
    BY <2>2, SMT DEF DescFit
<1>7. /\ tf \in Int /\ tf + \h1000 = \ha3b000 + \h8000 * i
      /\ gc \in Int /\ gc + \h800 = \ha3b800 + \h8000 * i
      /\ ds \in Int /\ ds + \h4000 = \ha40000 + \h8000 * i
  BY SMT
<1> HIDE DEF tf, gc, ds
<1>8. Fits(VidBank("vid_tf", i), 0, tf, tf + \h1000)
  BY <1>1, <1>4, <1>7, FitsIs, SMT
<1>9. Fits(VidBank("vid_gc", i), 0, gc, gc + \h800)
  BY <1>2, <1>5, <1>7, FitsIs, SMT
<1>10. Fits(VidBank("vid_ds", i), 0, ds, ds + \h4000)
  BY <1>3, <1>6, <1>7, FitsIs, SMT
<1> QED
  BY <1>7, <1>8, <1>9, <1>10, SMT DEF tf, gc, ds

LEMMA PlaceDma ==
  /\ Fits(MtdmaEataBank("dma_tf"), 0, \h880000, \h881000)
  /\ Fits(MtdmaEataBank("dma_gc"), 0, \h881000, \h881800)
  /\ Fits(MtdmaEataBank("dma_ds"), 0, \h884000, \h887000)
<1>1. MtdmaEataBank("dma_tf") = Bank(0, <<\h880000, \h881000>>, eata_tzc_init(\h880000))
  BY SMT DEF MtdmaEataBank, Block, PcieBlocks, One, Row, Many
<1>2. MtdmaEataBank("dma_gc") = Bank(0, <<\h881000, \h881800>>, eata_common_init(\h881000))
  BY SMT DEF MtdmaEataBank, Block, PcieBlocks, One, Row, Many
<1>3. MtdmaEataBank("dma_ds") =
        Bank(0, <<\h884000, \h888000>>, eata_desc_init(\h884000, EATA_VF_NUM))
  BY SMT DEF MtdmaEataBank, Block, PcieBlocks, One, Row, Many
<1>4. Within(eata_tzc_init(\h880000), \h880000, \h881000)
  BY SMT DEF eata_tzc_init, At, Within
<1>5. Within(eata_common_init(\h881000), \h881000, \h881800)
  BY SMT DEF eata_common_init, At, Within
<1>6. Within(eata_desc_init(\h884000, EATA_VF_NUM), \h884000, \h887000)
  <2>1. Room(EATA_VF_NUM, \h3000)
    BY SMT DEF EATA_VF_NUM, Room
  <2>2. DescFit(\h884000, EATA_VF_NUM, \h3000)
    BY <2>1, DescWithin, SMT
  <2> QED
    BY <2>2, SMT DEF DescFit
<1>7. Fits(MtdmaEataBank("dma_tf"), 0, \h880000, \h881000)
  BY <1>1, <1>4, FitsIs, SMT
<1>8. Fits(MtdmaEataBank("dma_gc"), 0, \h881000, \h881800)
  BY <1>2, <1>5, FitsIs, SMT
<1>9. Fits(MtdmaEataBank("dma_ds"), 0, \h884000, \h887000)
  BY <1>3, <1>6, FitsIs, SMT
<1> QED
  BY <1>7, <1>8, <1>9, SMT

\* The descriptors of the VFs that are not cleared
LEMMA PlaceDmaVf ==
  ASSUME NEW n \in 0 .. 64
  PROVE  Fits(VfEataBank(n), 0, \h887000, \h888000)
<1> DEFINE regs == At(\h884000, {256 * vm : vm \in EATA_VF_NUM .. (n - 1)})
<1>1. VfEataBank(n) = Bank(0, <<\h884000, \h888000>>, regs)
  BY SMT DEF VfEataBank, Block, PcieBlocks, One, Row, Many
<1>2. Within(regs, \h887000, \h888000)
  <2>1. ASSUME NEW r \in regs PROVE Within({r}, \h887000, \h888000)
    <3>1. PICK vm \in EATA_VF_NUM .. (n - 1) :
            r = <<\h884000 + 256 * vm, \h884000 + 256 * vm + 4>>
      BY DEF At
    <3>2. vm \in 48 .. 63
      BY <3>1, SMT DEF EATA_VF_NUM
    <3> QED
      BY <3>1, <3>2, SMT DEF Within
  <2> HIDE DEF regs
  <2> QED
    BY <2>1 DEF Within
<1> HIDE DEF regs
<1> QED
  BY <1>1, <1>2, FitsIs, SMT

\* The distributors: an interrupt of the tables has a register below 251.
SpiFit(base, S) == Within(SpiRegs(base, S), base, base + \h1000)

LEMMA SpiWithin ==
  ASSUME NEW base \in Int, NEW S, \A s \in S \ {NoSpi} : s \in 0 .. 250
  PROVE  SpiFit(base, S)
<1>1. ASSUME NEW s \in S \ {NoSpi}
      PROVE  Within({<<base + (\h800 + 4 * s), base + (\h800 + 4 * s) + 4>>}, base,
                    base + \h1000)
  <2>1. s \in 0 .. 250
    BY <1>1
  <2> QED
    BY <2>1, SMT DEF Within
<1>2. \A r \in SpiRegs(base, S) : \E s \in S \ {NoSpi} :
        r = <<base + (\h800 + 4 * s), base + (\h800 + 4 * s) + 4>>
  BY SMT DEF SpiRegs, At
<1> QED
  BY <1>1, <1>2, SMT DEF Within, SpiFit

LEMMA PlaceIntr ==
  /\ Fits(IntrBank("bd_spi"), 0, \hbfc000, \hbfd000)
  /\ Fits(IntrBank("cd_spi"), 0, \hbfe000, \hbff000)
<1> DEFINE S == {host_bd_int_table(x) : x \in HostInts}
           T == {host_cd_int_table(x) : x \in HostInts}
<1>1. \A s \in S \ {NoSpi} : s \in 0 .. 250
  BY SMT DEF HostInts, host_bd_int_table
<1>2. \A s \in T \ {NoSpi} : s \in 0 .. 250
  BY SMT DEF HostInts, host_cd_int_table
<1>3. /\ IntrBank("bd_spi") = Bank(0, <<\hbfc000, \hc00000>>, SpiRegs(\hbfc000, S))
      /\ IntrBank("cd_spi") = Bank(0, <<\hbfc000, \hc00000>>, SpiRegs(\hbfe000, T))
  BY SMT DEF IntrBank, PH_BD_INTD
<1> HIDE DEF S, T
<1>4. SpiFit(\hbfc000, S) /\ SpiFit(\hbfe000, T)
  BY <1>1, <1>2, SpiWithin, SMT
<1>5. /\ Within(SpiRegs(\hbfc000, S), \hbfc000, \hbfd000)
      /\ Within(SpiRegs(\hbfe000, T), \hbfe000, \hbff000)
  BY <1>4, SMT DEF SpiFit
<1>6. Fits(IntrBank("bd_spi"), 0, \hbfc000, \hbfd000)
  BY <1>3, <1>5, FitsIs, SMT
<1>7. Fits(IntrBank("cd_spi"), 0, \hbfe000, \hbff000)
  BY <1>3, <1>5, FitsIs, SMT
<1> QED
  BY <1>6, <1>7, SMT

\* The multiplexer of a GPU with n vectors, and of a VF
LEMMA PlaceMux ==
  ASSUME NEW n \in 1 .. 32
  PROVE  /\ Fits(MuxBank("src_soft", 0), 0, \h2c8000, \h2c8400)
         /\ Fits(MuxBank("target_soft", 0), 0, \h2c8410, \h2c8490)
         /\ Fits(MuxBank("enable", n), 0, \h2c8494, \h2c8894)
         /\ Fits(MuxBank("claim", n), 0, \h2c8938, \h2c89b8)
<1>1. /\ MuxBank("src_soft", 0) = Bank(0, <<\h200000, \h400000>>, Dwords(\h2c8000, 256))
      /\ MuxBank("target_soft", 0) = Bank(0, <<\h200000, \h400000>>, Dwords(\h2c8410, 32))
      /\ MuxBank("enable", n) = Bank(0, <<\h200000, \h400000>>, Dwords(\h2c8494, 8 * n))
      /\ MuxBank("claim", n) = Bank(0, <<\h200000, \h400000>>, Dwords(\h2c8938, n))
  BY SMT DEF MuxBank, PCIE_CTRL, Block, PcieBlocks, One, Row, Many, REG_PCIE_PF_INT_MUX_BASE
<1>2. /\ Within(Dwords(\h2c8000, 256), \h2c8000, \h2c8400)
      /\ Within(Dwords(\h2c8410, 32), \h2c8410, \h2c8490)
      /\ Within(Dwords(\h2c8494, 8 * n), \h2c8494, \h2c8894)
      /\ Within(Dwords(\h2c8938, n), \h2c8938, \h2c89b8)
  BY SMT DEF Dwords, Within
<1>3. Fits(MuxBank("src_soft", 0), 0, \h2c8000, \h2c8400)
  BY <1>1, <1>2, FitsIs, SMT
<1>4. Fits(MuxBank("target_soft", 0), 0, \h2c8410, \h2c8490)
  BY <1>1, <1>2, FitsIs, SMT
<1>5. Fits(MuxBank("enable", n), 0, \h2c8494, \h2c8894)
  BY <1>1, <1>2, FitsIs, SMT
<1>6. Fits(MuxBank("claim", n), 0, \h2c8938, \h2c89b8)
  BY <1>1, <1>2, FitsIs, SMT
<1> QED
  BY <1>3, <1>4, <1>5, <1>6, SMT

LEMMA PlaceVfMux ==
  /\ Fits(VfMuxBank("vf_src_soft"), 1, \h2080, \h2090)
  /\ Fits(VfMuxBank("vf_target_soft"), 1, \h2098, \h20b8)
  /\ Fits(VfMuxBank("vf_enable"), 1, \h20b8, \h20d8)
  /\ Fits(VfMuxBank("vf_claim"), 1, \h20d8, \h20f8)
<1>1. /\ VfMuxBank("vf_src_soft") = Bank(1, <<\h2000, \h3000>>, Dwords(\h2080, 4))
      /\ VfMuxBank("vf_target_soft") = Bank(1, <<\h2000, \h3000>>, Dwords(\h2098, 8))
      /\ VfMuxBank("vf_enable") = Bank(1, <<\h2000, \h3000>>, Dwords(\h20b8, 8))
      /\ VfMuxBank("vf_claim") = Bank(1, <<\h2000, \h3000>>, Dwords(\h20d8, 8))
  BY SMT DEF VfMuxBank
<1>2. /\ Within(Dwords(\h2080, 4), \h2080, \h2090)
      /\ Within(Dwords(\h2098, 8), \h2098, \h20b8)
      /\ Within(Dwords(\h20b8, 8), \h20b8, \h20d8)
      /\ Within(Dwords(\h20d8, 8), \h20d8, \h20f8)
  BY SMT DEF Dwords, Within
<1>3. Fits(VfMuxBank("vf_src_soft"), 1, \h2080, \h2090)
  BY <1>1, <1>2, FitsIs, SMT
<1>4. Fits(VfMuxBank("vf_target_soft"), 1, \h2098, \h20b8)
  BY <1>1, <1>2, FitsIs, SMT
<1>5. Fits(VfMuxBank("vf_enable"), 1, \h20b8, \h20d8)
  BY <1>1, <1>2, FitsIs, SMT
<1>6. Fits(VfMuxBank("vf_claim"), 1, \h20d8, \h20f8)
  BY <1>1, <1>2, FitsIs, SMT
<1> QED
  BY <1>3, <1>4, <1>5, <1>6, SMT

\* The DMA engine, with n VFs; the MMU; the PHY
LEMMA PlaceEngine ==
  ASSUME NEW n \in 0 .. 64
  PROVE  /\ Fits(DmaBank("comm", n), 0, \h380000, \h383000)
         /\ Fits(DmaBank("channels", 0), 0, \h383000, \h3c3000)
         /\ Fits(DmaBank("vf_channel", 0), 1, \h3000, \h4000)
         /\ Fits(MmuBank, 0, \h2c0400, \h2c0408)
         /\ Fits(PhyBank, 0, \h71c018, \h71c01c)
<1> DEFINE comm == mtdma_comm_regs(n)
           all == UNION {ChannelRegs(REG_DMA_CHAN_BASE + \h1000 * i) : i \in VMs}
           vf == ChannelRegs(\h3000)
           mmu == At(\h2c0400, {0, 4})
           phy == At(\h71c018, {0})
<1>1. /\ DmaBank("comm", n) = Bank(0, <<\h200000, \h400000>>, comm)
      /\ DmaBank("channels", 0) = Bank(0, <<\h200000, \h400000>>, all)
      /\ DmaBank("vf_channel", 0) = Bank(1, <<\h3000, \h4000>>, vf)
      /\ MmuBank = Bank(0, <<\h200000, \h400000>>, mmu)
      /\ PhyBank = Bank(0, <<\h700000, \h7c0000>>, phy)
  BY SMT DEF DmaBank, MmuBank, PhyBank, PCIE_CTRL, Block, PcieBlocks, One, Row, Many
<1>2. Within(comm, \h380000, \h383000)
  <2>1. Within(At(REG_DMA_COMM_BASE, {\hc00, \h400, \h408, \h608, \hc20, \hc24, \hc40, \hc44}),
               \h380000, \h383000)
    BY SMT DEF At, Within, REG_DMA_COMM_BASE
  <2>2. Within(Dwords(REG_DMA_COMM_BASE + \h20, n), \h380000, \h383000)
    BY SMT DEF Dwords, Within, REG_DMA_COMM_BASE
  <2>3. Within(Dwords(REG_DMA_COMM_BASE + \h2000, n), \h380000, \h383000)
    BY SMT DEF Dwords, Within, REG_DMA_COMM_BASE
  <2> QED
    BY <2>1, <2>2, <2>3, SMT DEF mtdma_comm_regs, Within
<1>3. ASSUME NEW base \in Int PROVE Within(ChannelRegs(base), base, base + \h1000)
  <2>1. \A d \in 0 .. 1 : Within(Dwords(base + \h800 * d, CH_REGS \div 4), base, base + \h1000)
    BY SMT DEF Dwords, CH_REGS, Within
  <2> QED
    BY <2>1, SMT DEF ChannelRegs, Within
<1>4. Within(vf, \h3000, \h4000)
  <2>1. \A d \in 0 .. 1 : Within(Dwords(\h3000 + \h800 * d, CH_REGS \div 4), \h3000, \h4000)
    BY SMT DEF Dwords, CH_REGS, Within
  <2> QED
    BY <2>1, SMT DEF ChannelRegs, Within
<1>5. Within(all, \h383000, \h3c3000)
  <2>1. ASSUME NEW i \in VMs
        PROVE  Within(ChannelRegs(REG_DMA_CHAN_BASE + \h1000 * i), \h383000, \h3c3000)
    <3> DEFINE base == REG_DMA_CHAN_BASE + \h1000 * i
    <3>1. base \in Int /\ \h383000 <= base /\ base + \h1000 <= \h3c3000
      BY SMT DEF VMs, PCIE_DMA_CH_NUM, REG_DMA_CHAN_BASE
    <3> HIDE DEF base
    <3>2. Within(ChannelRegs(base), base, base + \h1000)
      BY <1>3, <3>1, SMT
    <3>3. Within(ChannelRegs(base), \h383000, \h3c3000)
      BY <3>1, <3>2, SMT DEF Within
    <3> QED
      BY <3>3, SMT DEF base
  <2> QED
    BY <2>1, SMT DEF Within
<1>6. /\ Within(mmu, \h2c0400, \h2c0408) /\ Within(phy, \h71c018, \h71c01c)
  BY SMT DEF At, Within
<1> HIDE DEF comm, all, vf, mmu, phy
<1>7. Fits(DmaBank("comm", n), 0, \h380000, \h383000)
  BY <1>1, <1>2, FitsIs, SMT
<1>8. Fits(DmaBank("channels", 0), 0, \h383000, \h3c3000)
  BY <1>1, <1>5, FitsIs, SMT
<1>9. Fits(DmaBank("vf_channel", 0), 1, \h3000, \h4000)
  BY <1>1, <1>4, FitsIs, SMT
<1>10. Fits(MmuBank, 0, \h2c0400, \h2c0408)
  BY <1>1, <1>6, FitsIs, SMT
<1>11. Fits(PhyBank, 0, \h71c018, \h71c01c)
  BY <1>1, <1>6, FitsIs, SMT
<1> QED
  BY <1>7, <1>8, <1>9, <1>10, <1>11, SMT

Possible(n, k) == Others(n) \cup MuxBanks(k)

\* The BAR and the place of every bank
PlaceAt(kind, i) ==
  CASE kind = "outbound"       -> <<0, \h3e0000, \h3e0300>>
    [] kind = "inbound_vf"     -> <<0, \h3e0100, \h3e0100 + 512 * i>>
    [] kind = "inbound"        -> <<0, \h3e6100, \h3e6400>>
    [] kind = "mmu"            -> <<0, \h2c0400, \h2c0408>>
    [] kind = "src_soft"       -> <<0, \h2c8000, \h2c8400>>
    [] kind = "target_soft"    -> <<0, \h2c8410, \h2c8490>>
    [] kind = "enable"         -> <<0, \h2c8494, \h2c8894>>
    [] kind = "claim"          -> <<0, \h2c8938, \h2c89b8>>
    [] kind = "comm"           -> <<0, \h380000, \h383000>>
    [] kind = "channels"       -> <<0, \h383000, \h3c3000>>
    [] kind = "phy"            -> <<0, \h71c018, \h71c01c>>
    [] kind = "dma_tf"         -> <<0, \h880000, \h881000>>
    [] kind = "dma_gc"         -> <<0, \h881000, \h881800>>
    [] kind = "dma_ds"         -> <<0, \h884000, \h887000>>
    [] kind = "dma_vf"         -> <<0, \h887000, \h888000>>
    [] kind = "vid_tf"         -> <<0, \ha3a000 + \h8000 * i, \ha3b000 + \h8000 * i>>
    [] kind = "vid_gc"         -> <<0, \ha3b000 + \h8000 * i, \ha3b800 + \h8000 * i>>
    [] kind = "vid_ds"         -> <<0, \ha3c000 + \h8000 * i, \ha40000 + \h8000 * i>>
    [] kind = "gpu_tf"         -> <<0, \hb02000 + \h8000 * i, \hb03000 + \h8000 * i>>
    [] kind = "gpu_gc"         -> <<0, \hb03000 + \h8000 * i, \hb03800 + \h8000 * i>>
    [] kind = "gpu_ds"         -> <<0, \hb03800 + \h8000 * i, \hb04000 + \h8000 * i>>
    [] kind = "bd_spi"         -> <<0, \hbfc000, \hbfd000>>
    [] kind = "cd_spi"         -> <<0, \hbfe000, \hbff000>>
    [] kind = "vf_src_soft"    -> <<1, \h2080, \h2090>>
    [] kind = "vf_target_soft" -> <<1, \h2098, \h20b8>>
    [] kind = "vf_enable"      -> <<1, \h20b8, \h20d8>>
    [] kind = "vf_claim"       -> <<1, \h20d8, \h20f8>>
    [] kind = "vf_channel"     -> <<1, \h3000, \h4000>>

FitsAt(bank, place) == Fits(bank, place[1], place[2], place[3])

LEMMA PlaceIs ==
  ASSUME NEW i
  PROVE  /\ PlaceAt("outbound", i) = <<0, \h3e0000, \h3e0300>>
         /\ PlaceAt("inbound_vf", i) = <<0, \h3e0100, \h3e0100 + 512 * i>>
         /\ PlaceAt("inbound", i) = <<0, \h3e6100, \h3e6400>>
         /\ PlaceAt("mmu", i) = <<0, \h2c0400, \h2c0408>>
         /\ PlaceAt("src_soft", i) = <<0, \h2c8000, \h2c8400>>
         /\ PlaceAt("target_soft", i) = <<0, \h2c8410, \h2c8490>>
         /\ PlaceAt("enable", i) = <<0, \h2c8494, \h2c8894>>
         /\ PlaceAt("claim", i) = <<0, \h2c8938, \h2c89b8>>
         /\ PlaceAt("comm", i) = <<0, \h380000, \h383000>>
         /\ PlaceAt("channels", i) = <<0, \h383000, \h3c3000>>
         /\ PlaceAt("phy", i) = <<0, \h71c018, \h71c01c>>
         /\ PlaceAt("dma_tf", i) = <<0, \h880000, \h881000>>
         /\ PlaceAt("dma_gc", i) = <<0, \h881000, \h881800>>
         /\ PlaceAt("dma_ds", i) = <<0, \h884000, \h887000>>
         /\ PlaceAt("dma_vf", i) = <<0, \h887000, \h888000>>
         /\ PlaceAt("vid_tf", i) = <<0, \ha3a000 + \h8000 * i, \ha3b000 + \h8000 * i>>
         /\ PlaceAt("vid_gc", i) = <<0, \ha3b000 + \h8000 * i, \ha3b800 + \h8000 * i>>
         /\ PlaceAt("vid_ds", i) = <<0, \ha3c000 + \h8000 * i, \ha40000 + \h8000 * i>>
         /\ PlaceAt("gpu_tf", i) = <<0, \hb02000 + \h8000 * i, \hb03000 + \h8000 * i>>
         /\ PlaceAt("gpu_gc", i) = <<0, \hb03000 + \h8000 * i, \hb03800 + \h8000 * i>>
         /\ PlaceAt("gpu_ds", i) = <<0, \hb03800 + \h8000 * i, \hb04000 + \h8000 * i>>
         /\ PlaceAt("bd_spi", i) = <<0, \hbfc000, \hbfd000>>
         /\ PlaceAt("cd_spi", i) = <<0, \hbfe000, \hbff000>>
         /\ PlaceAt("vf_src_soft", i) = <<1, \h2080, \h2090>>
         /\ PlaceAt("vf_target_soft", i) = <<1, \h2098, \h20b8>>
         /\ PlaceAt("vf_enable", i) = <<1, \h20b8, \h20d8>>
         /\ PlaceAt("vf_claim", i) = <<1, \h20d8, \h20f8>>
         /\ PlaceAt("vf_channel", i) = <<1, \h3000, \h4000>>
<1>1. /\ PlaceAt("outbound", i) = <<0, \h3e0000, \h3e0300>>
      /\ PlaceAt("inbound_vf", i) = <<0, \h3e0100, \h3e0100 + 512 * i>>
      /\ PlaceAt("inbound", i) = <<0, \h3e6100, \h3e6400>>
      /\ PlaceAt("mmu", i) = <<0, \h2c0400, \h2c0408>>
  BY SMT DEF PlaceAt
<1>2. /\ PlaceAt("src_soft", i) = <<0, \h2c8000, \h2c8400>>
      /\ PlaceAt("target_soft", i) = <<0, \h2c8410, \h2c8490>>
      /\ PlaceAt("enable", i) = <<0, \h2c8494, \h2c8894>>
      /\ PlaceAt("claim", i) = <<0, \h2c8938, \h2c89b8>>
  BY SMT DEF PlaceAt
<1>3. /\ PlaceAt("comm", i) = <<0, \h380000, \h383000>>
      /\ PlaceAt("channels", i) = <<0, \h383000, \h3c3000>>
      /\ PlaceAt("phy", i) = <<0, \h71c018, \h71c01c>>
  BY SMT DEF PlaceAt
<1>4. /\ PlaceAt("dma_tf", i) = <<0, \h880000, \h881000>>
      /\ PlaceAt("dma_gc", i) = <<0, \h881000, \h881800>>
      /\ PlaceAt("dma_ds", i) = <<0, \h884000, \h887000>>
      /\ PlaceAt("dma_vf", i) = <<0, \h887000, \h888000>>
  BY SMT DEF PlaceAt
<1>5. /\ PlaceAt("vid_tf", i) = <<0, \ha3a000 + \h8000 * i, \ha3b000 + \h8000 * i>>
      /\ PlaceAt("vid_gc", i) = <<0, \ha3b000 + \h8000 * i, \ha3b800 + \h8000 * i>>
      /\ PlaceAt("vid_ds", i) = <<0, \ha3c000 + \h8000 * i, \ha40000 + \h8000 * i>>
  BY SMT DEF PlaceAt
<1>6. /\ PlaceAt("gpu_tf", i) = <<0, \hb02000 + \h8000 * i, \hb03000 + \h8000 * i>>
      /\ PlaceAt("gpu_gc", i) = <<0, \hb03000 + \h8000 * i, \hb03800 + \h8000 * i>>
      /\ PlaceAt("gpu_ds", i) = <<0, \hb03800 + \h8000 * i, \hb04000 + \h8000 * i>>
  BY SMT DEF PlaceAt
<1>7. /\ PlaceAt("bd_spi", i) = <<0, \hbfc000, \hbfd000>>
      /\ PlaceAt("cd_spi", i) = <<0, \hbfe000, \hbff000>>
  BY SMT DEF PlaceAt
<1>8. /\ PlaceAt("vf_src_soft", i) = <<1, \h2080, \h2090>>
      /\ PlaceAt("vf_target_soft", i) = <<1, \h2098, \h20b8>>
      /\ PlaceAt("vf_enable", i) = <<1, \h20b8, \h20d8>>
  BY SMT DEF PlaceAt
<1>9. /\ PlaceAt("vf_claim", i) = <<1, \h20d8, \h20f8>>
      /\ PlaceAt("vf_channel", i) = <<1, \h3000, \h4000>>
  BY SMT DEF PlaceAt
<1> QED
  BY <1>1, <1>2, <1>3, <1>4, <1>5, <1>6, <1>7, <1>8, <1>9, SMT

\* A bank that may have been written: its kind, and the unit or number
KindOf(b, kind, i, n, k) ==
  /\ b = <<kind, i>> /\ b[1] = kind /\ b[2] = i
  /\ \/ (kind \in {"phy", "mmu", "channels", "inbound", "outbound", "bd_spi", "cd_spi",
                   "src_soft", "target_soft", "dma_tf", "dma_gc", "dma_ds",
                   "vf_src_soft", "vf_target_soft", "vf_enable", "vf_claim",
                   "vf_channel"} /\ i = 0)
     \/ (kind \in {"comm", "inbound_vf", "dma_vf"} /\ i = n)
     \/ (kind \in {"enable", "claim"} /\ i = k)
     \/ (kind \in {"vid_tf", "vid_gc", "vid_ds"} /\ i \in 0 .. 1)
     \/ (kind \in {"gpu_tf", "gpu_gc", "gpu_ds"} /\ i \in 0 .. 7)

LEMMA Kinds ==
  ASSUME NEW n, NEW k, NEW b \in Possible(n, k)
  PROVE  \E kind, i : KindOf(b, kind, i, n, k)
<1>1. CASE b \in EataBanks
  BY <1>1, SMT DEF EataBanks, GPU_CORE_NUM, EATA_VID_NUM, KindOf
<1>2. CASE b \in VfBanks
  BY <1>2, SMT DEF VfBanks, KindOf
<1>3. CASE b \in IatuBanks(n) \cup IntrBanks \cup MuxBanks(k)
  BY <1>3, SMT DEF IatuBanks, IntrBanks, MuxBanks, KindOf
<1>4. CASE b \in {<<"phy", 0>>, <<"mmu", 0>>, <<"channels", 0>>, <<"comm", n>>}
  BY <1>4, SMT DEF KindOf
<1> QED
  BY <1>1, <1>2, <1>3, <1>4 DEF Possible, Others

\* Every bank writes in its place.
LEMMA KindFits ==
  ASSUME NEW n \in 0 .. 64, NEW k \in 1 .. 32
  PROVE  /\ FitsAt(IatuBank("inbound", 0), PlaceAt("inbound", 0))
         /\ FitsAt(IatuBank("outbound", 0), PlaceAt("outbound", 0))
         /\ FitsAt(IatuBank("inbound_vf", n), PlaceAt("inbound_vf", n))
         /\ \A i \in 0 .. 7 : /\ FitsAt(GpuBank("gpu_tf", i), PlaceAt("gpu_tf", i))
                              /\ FitsAt(GpuBank("gpu_gc", i), PlaceAt("gpu_gc", i))
                              /\ FitsAt(GpuBank("gpu_ds", i), PlaceAt("gpu_ds", i))
         /\ \A i \in 0 .. 1 : /\ FitsAt(VidBank("vid_tf", i), PlaceAt("vid_tf", i))
                              /\ FitsAt(VidBank("vid_gc", i), PlaceAt("vid_gc", i))
                              /\ FitsAt(VidBank("vid_ds", i), PlaceAt("vid_ds", i))
         /\ FitsAt(MtdmaEataBank("dma_tf"), PlaceAt("dma_tf", 0))
         /\ FitsAt(MtdmaEataBank("dma_gc"), PlaceAt("dma_gc", 0))
         /\ FitsAt(MtdmaEataBank("dma_ds"), PlaceAt("dma_ds", 0))
         /\ FitsAt(VfEataBank(n), PlaceAt("dma_vf", n))
         /\ FitsAt(IntrBank("bd_spi"), PlaceAt("bd_spi", 0))
         /\ FitsAt(IntrBank("cd_spi"), PlaceAt("cd_spi", 0))
         /\ FitsAt(MuxBank("src_soft", 0), PlaceAt("src_soft", 0))
         /\ FitsAt(MuxBank("target_soft", 0), PlaceAt("target_soft", 0))
         /\ FitsAt(MuxBank("enable", k), PlaceAt("enable", k))
         /\ FitsAt(MuxBank("claim", k), PlaceAt("claim", k))
         /\ FitsAt(VfMuxBank("vf_src_soft"), PlaceAt("vf_src_soft", 0))
         /\ FitsAt(VfMuxBank("vf_target_soft"), PlaceAt("vf_target_soft", 0))
         /\ FitsAt(VfMuxBank("vf_enable"), PlaceAt("vf_enable", 0))
         /\ FitsAt(VfMuxBank("vf_claim"), PlaceAt("vf_claim", 0))
         /\ FitsAt(DmaBank("comm", n), PlaceAt("comm", n))
         /\ FitsAt(DmaBank("channels", 0), PlaceAt("channels", 0))
         /\ FitsAt(DmaBank("vf_channel", 0), PlaceAt("vf_channel", 0))
         /\ FitsAt(MmuBank, PlaceAt("mmu", 0)) /\ FitsAt(PhyBank, PlaceAt("phy", 0))
<1>0. ASSUME NEW bank, NEW bar, NEW lo, NEW hi, Fits(bank, bar, lo, hi)
      PROVE  FitsAt(bank, <<bar, lo, hi>>)
  BY <1>0 DEF FitsAt
<1>1. /\ FitsAt(IatuBank("inbound", 0), PlaceAt("inbound", 0))
      /\ FitsAt(IatuBank("outbound", 0), PlaceAt("outbound", 0))
      /\ FitsAt(IatuBank("inbound_vf", n), PlaceAt("inbound_vf", n))
  BY <1>0, PlaceIs, PlaceInbound, PlaceOutbound, PlaceInboundVf, SMT
<1>2. ASSUME NEW i \in 0 .. 7
      PROVE  /\ FitsAt(GpuBank("gpu_tf", i), PlaceAt("gpu_tf", i))
             /\ FitsAt(GpuBank("gpu_gc", i), PlaceAt("gpu_gc", i))
             /\ FitsAt(GpuBank("gpu_ds", i), PlaceAt("gpu_ds", i))
  BY <1>0, PlaceIs, PlaceGpu, SMT
<1>3. ASSUME NEW i \in 0 .. 1
      PROVE  /\ FitsAt(VidBank("vid_tf", i), PlaceAt("vid_tf", i))
             /\ FitsAt(VidBank("vid_gc", i), PlaceAt("vid_gc", i))
             /\ FitsAt(VidBank("vid_ds", i), PlaceAt("vid_ds", i))
  BY <1>0, PlaceIs, PlaceVid, SMT
<1>4. /\ FitsAt(MtdmaEataBank("dma_tf"), PlaceAt("dma_tf", 0))
      /\ FitsAt(MtdmaEataBank("dma_gc"), PlaceAt("dma_gc", 0))
      /\ FitsAt(MtdmaEataBank("dma_ds"), PlaceAt("dma_ds", 0))
      /\ FitsAt(VfEataBank(n), PlaceAt("dma_vf", n))
      /\ FitsAt(IntrBank("bd_spi"), PlaceAt("bd_spi", 0))
      /\ FitsAt(IntrBank("cd_spi"), PlaceAt("cd_spi", 0))
  BY <1>0, PlaceIs, PlaceDma, PlaceDmaVf, PlaceIntr, SMT
<1>5. /\ FitsAt(MuxBank("src_soft", 0), PlaceAt("src_soft", 0))
      /\ FitsAt(MuxBank("target_soft", 0), PlaceAt("target_soft", 0))
      /\ FitsAt(MuxBank("enable", k), PlaceAt("enable", k))
      /\ FitsAt(MuxBank("claim", k), PlaceAt("claim", k))
  BY <1>0, PlaceIs, PlaceMux, SMT
<1>6. /\ FitsAt(VfMuxBank("vf_src_soft"), PlaceAt("vf_src_soft", 0))
      /\ FitsAt(VfMuxBank("vf_target_soft"), PlaceAt("vf_target_soft", 0))
      /\ FitsAt(VfMuxBank("vf_enable"), PlaceAt("vf_enable", 0))
      /\ FitsAt(VfMuxBank("vf_claim"), PlaceAt("vf_claim", 0))
  BY <1>0, PlaceIs, PlaceVfMux, SMT
<1>7. /\ FitsAt(DmaBank("comm", n), PlaceAt("comm", n))
      /\ FitsAt(DmaBank("channels", 0), PlaceAt("channels", 0))
      /\ FitsAt(DmaBank("vf_channel", 0), PlaceAt("vf_channel", 0))
      /\ FitsAt(MmuBank, PlaceAt("mmu", 0)) /\ FitsAt(PhyBank, PlaceAt("phy", 0))
  BY <1>0, PlaceIs, PlaceEngine, SMT
<1> QED
  BY <1>1, <1>2, <1>3, <1>4, <1>5, <1>6, <1>7, SMT

LEMMA BankFits ==
  ASSUME NEW n \in VfNums, NEW k \in 1 .. 32,
         NEW b \in Possible(n, k), b \in AllBanks
  PROVE  FitsAt(Banks[b], PlaceAt(b[1], b[2]))
<1>0. n \in 0 .. 64
  BY AddrMapAssumption
<1>1. b \in AllBanks
  OBVIOUS
<1>2. PICK kind, i : KindOf(b, kind, i, n, k)
  BY Kinds
<1>3. b[1] = kind /\ b[2] = i
  BY <1>2, Zenon DEF KindOf
<1>4. FitsAt(Banks[b], PlaceAt(kind, i))
  <2>1. CASE kind \in {"inbound", "outbound"}
    <3>1. Banks[b] = IatuBank(kind, i)
      BY <1>1, <1>3, <2>1, BankOf, Zenon
    <3>2. i = 0
      BY <1>2, <2>1, SMT DEF KindOf
    <3>3. /\ FitsAt(IatuBank("inbound", i), PlaceAt("inbound", i))
          /\ FitsAt(IatuBank("outbound", i), PlaceAt("outbound", i))
      BY <1>0, <3>2, KindFits
    <3> QED
      BY <2>1, <3>1, <3>3, Zenon
  <2>2. CASE kind = "inbound_vf"
    <3>1. Banks[b] = IatuBank(kind, i)
      BY <1>1, <1>3, <2>2, BankOf, Zenon
    <3>2. i = n
      BY <1>2, <2>2, SMT DEF KindOf
    <3>3. FitsAt(IatuBank("inbound_vf", i), PlaceAt("inbound_vf", i))
      BY <1>0, <3>2, KindFits
    <3> QED
      BY <2>2, <3>1, <3>3, Zenon
  <2>3. CASE kind \in {"gpu_tf", "gpu_gc", "gpu_ds"}
    <3>1. Banks[b] = GpuBank(kind, i)
      BY <1>1, <1>3, <2>3, BankOf, Zenon
    <3>2. i \in 0 .. 7
      BY <1>2, <2>3, SMT DEF KindOf
    <3>3. /\ FitsAt(GpuBank("gpu_tf", i), PlaceAt("gpu_tf", i))
          /\ FitsAt(GpuBank("gpu_gc", i), PlaceAt("gpu_gc", i))
          /\ FitsAt(GpuBank("gpu_ds", i), PlaceAt("gpu_ds", i))
      BY <1>0, <3>2, KindFits
    <3> QED
      BY <2>3, <3>1, <3>3, Zenon
  <2>4. CASE kind \in {"vid_tf", "vid_gc", "vid_ds"}
    <3>1. Banks[b] = VidBank(kind, i)
      BY <1>1, <1>3, <2>4, BankOf, Zenon
    <3>2. i \in 0 .. 1
      BY <1>2, <2>4, SMT DEF KindOf
    <3>3. /\ FitsAt(VidBank("vid_tf", i), PlaceAt("vid_tf", i))
          /\ FitsAt(VidBank("vid_gc", i), PlaceAt("vid_gc", i))
          /\ FitsAt(VidBank("vid_ds", i), PlaceAt("vid_ds", i))
      BY <1>0, <3>2, KindFits
    <3> QED
      BY <2>4, <3>1, <3>3, Zenon
  <2>5. CASE kind \in {"dma_tf", "dma_gc", "dma_ds"}
    <3>1. Banks[b] = MtdmaEataBank(kind)
      BY <1>1, <1>3, <2>5, BankOf, Zenon
    <3>2. i = 0
      BY <1>2, <2>5, SMT DEF KindOf
    <3>3. /\ FitsAt(MtdmaEataBank("dma_tf"), PlaceAt("dma_tf", i))
          /\ FitsAt(MtdmaEataBank("dma_gc"), PlaceAt("dma_gc", i))
          /\ FitsAt(MtdmaEataBank("dma_ds"), PlaceAt("dma_ds", i))
      BY <1>0, <3>2, KindFits
    <3> QED
      BY <2>5, <3>1, <3>3, Zenon
  <2>6. CASE kind \in {"bd_spi", "cd_spi"}
    <3>1. Banks[b] = IntrBank(kind)
      BY <1>1, <1>3, <2>6, BankOf, Zenon
    <3>2. i = 0
      BY <1>2, <2>6, SMT DEF KindOf
    <3>3. /\ FitsAt(IntrBank("bd_spi"), PlaceAt("bd_spi", i))
          /\ FitsAt(IntrBank("cd_spi"), PlaceAt("cd_spi", i))
      BY <1>0, <3>2, KindFits
    <3> QED
      BY <2>6, <3>1, <3>3, Zenon
  <2>7. CASE kind \in {"src_soft", "target_soft"}
    <3>1. Banks[b] = MuxBank(kind, i)
      BY <1>1, <1>3, <2>7, BankOf, Zenon
    <3>2. i = 0
      BY <1>2, <2>7, SMT DEF KindOf
    <3>3. /\ FitsAt(MuxBank("src_soft", i), PlaceAt("src_soft", i))
          /\ FitsAt(MuxBank("target_soft", i), PlaceAt("target_soft", i))
      BY <1>0, <3>2, KindFits
    <3> QED
      BY <2>7, <3>1, <3>3, Zenon
  <2>8. CASE kind \in {"enable", "claim"}
    <3>1. Banks[b] = MuxBank(kind, i)
      BY <1>1, <1>3, <2>8, BankOf, Zenon
    <3>2. i = k
      BY <1>2, <2>8, SMT DEF KindOf
    <3>3. /\ FitsAt(MuxBank("enable", i), PlaceAt("enable", i))
          /\ FitsAt(MuxBank("claim", i), PlaceAt("claim", i))
      BY <1>0, <3>2, KindFits
    <3> QED
      BY <2>8, <3>1, <3>3, Zenon
  <2>9. CASE kind \in {"vf_src_soft", "vf_target_soft", "vf_enable", "vf_claim"}
    <3>1. Banks[b] = VfMuxBank(kind)
      BY <1>1, <1>3, <2>9, BankOf, Zenon
    <3>2. i = 0
      BY <1>2, <2>9, SMT DEF KindOf
    <3>3. /\ FitsAt(VfMuxBank("vf_src_soft"), PlaceAt("vf_src_soft", i))
          /\ FitsAt(VfMuxBank("vf_target_soft"), PlaceAt("vf_target_soft", i))
          /\ FitsAt(VfMuxBank("vf_enable"), PlaceAt("vf_enable", i))
          /\ FitsAt(VfMuxBank("vf_claim"), PlaceAt("vf_claim", i))
      BY <1>0, <3>2, KindFits
    <3> QED
      BY <2>9, <3>1, <3>3, Zenon
  <2>10. CASE kind \in {"channels", "vf_channel"}
    <3>1. Banks[b] = DmaBank(kind, i)
      BY <1>1, <1>3, <2>10, BankOf, Zenon
    <3>2. i = 0
      BY <1>2, <2>10, SMT DEF KindOf
    <3>3. /\ FitsAt(DmaBank("channels", i), PlaceAt("channels", i))
          /\ FitsAt(DmaBank("vf_channel", i), PlaceAt("vf_channel", i))
      BY <1>0, <3>2, KindFits
    <3> QED
      BY <2>10, <3>1, <3>3, Zenon
  <2>11. CASE kind = "comm"
    <3>1. Banks[b] = DmaBank(kind, i)
      BY <1>1, <1>3, <2>11, BankOf, Zenon
    <3>2. i = n
      BY <1>2, <2>11, SMT DEF KindOf
    <3>3. FitsAt(DmaBank("comm", i), PlaceAt("comm", i))
      BY <1>0, <3>2, KindFits
    <3> QED
      BY <2>11, <3>1, <3>3, Zenon
  <2>12. CASE kind = "mmu"
    <3>1. Banks[b] = MmuBank
      BY <1>1, <1>3, <2>12, BankOf, Zenon
    <3>2. i = 0
      BY <1>2, <2>12, SMT DEF KindOf
    <3>3. FitsAt(MmuBank, PlaceAt("mmu", i))
      BY <1>0, <3>2, KindFits
    <3> QED
      BY <2>12, <3>1, <3>3, Zenon
  <2>13. CASE kind = "phy"
    <3>1. Banks[b] = PhyBank
      BY <1>1, <1>3, <2>13, BankOf, Zenon
    <3>2. i = 0
      BY <1>2, <2>13, SMT DEF KindOf
    <3>3. FitsAt(PhyBank, PlaceAt("phy", i))
      BY <1>0, <3>2, KindFits
    <3> QED
      BY <2>13, <3>1, <3>3, Zenon
  <2>14. CASE kind = "dma_vf"
    <3>1. Banks[b] = VfEataBank(i)
      BY <1>1, <1>3, <2>14, BankOf, Zenon
    <3>2. i = n
      BY <1>2, <2>14, SMT DEF KindOf
    <3>3. FitsAt(VfEataBank(i), PlaceAt("dma_vf", i))
      BY <1>0, <3>2, KindFits
    <3> QED
      BY <2>14, <3>1, <3>3, Zenon
  <2> QED
    BY <1>2, <2>1, <2>2, <2>3, <2>4, <2>5, <2>6, <2>7, <2>8, <2>9, <2>10, <2>11,
       <2>12, <2>13, <2>14, SMT DEF KindOf
<1> QED
  BY <1>3, <1>4, Zenon

\* Places that share no address
Disjoint(p, q) == p[1] # q[1] \/ p[3] <= q[2] \/ q[3] <= p[2]

InZone(p, bar, lo, hi) ==
  /\ p[1] = bar /\ p[2] \in Int /\ p[3] \in Int /\ lo \in Int /\ hi \in Int
  /\ lo <= p[2] /\ p[3] <= hi

\* The places are in seven zones.
Zones(kind, p) ==
  \/ /\ kind \in {"outbound", "inbound_vf", "inbound", "mmu", "src_soft", "target_soft",
                  "enable", "claim", "comm", "channels"}
     /\ InZone(p, 0, \h200000, \h400000)
  \/ kind = "phy" /\ InZone(p, 0, \h400000, \h800000)
  \/ kind \in {"dma_tf", "dma_gc", "dma_ds", "dma_vf"} /\ InZone(p, 0, \h800000, \h900000)
  \/ kind \in {"vid_tf", "vid_gc", "vid_ds"} /\ InZone(p, 0, \ha00000, \hb00000)
  \/ kind \in {"gpu_tf", "gpu_gc", "gpu_ds"} /\ InZone(p, 0, \hb00000, \hbfc000)
  \/ kind \in {"bd_spi", "cd_spi"} /\ InZone(p, 0, \hbfc000, \hc00000)
  \/ /\ kind \in {"vf_src_soft", "vf_target_soft", "vf_enable", "vf_claim", "vf_channel"}
     /\ InZone(p, 1, 0, \h4000)

LEMMA ZoneIs ==
  ASSUME NEW b, NEW kind, NEW i, NEW n, NEW k, KindOf(b, kind, i, n, k), n \in 0 .. 64
  PROVE  Zones(kind, PlaceAt(kind, i))
<1>1. CASE kind \in {"outbound", "inbound_vf", "inbound", "mmu", "src_soft", "target_soft",
                     "enable", "claim", "comm", "channels"}
  <2>1. kind = "inbound_vf" => i \in 0 .. 64
    BY SMT DEF KindOf
  <2>2. InZone(PlaceAt(kind, i), 0, \h200000, \h400000)
    BY <1>1, <2>1, PlaceIs, SMT DEF InZone
  <2> QED
    BY <1>1, <2>2 DEF Zones
<1>2. CASE kind = "phy"
  <2>1. InZone(PlaceAt(kind, i), 0, \h400000, \h800000)
    BY <1>2, PlaceIs, SMT DEF InZone
  <2> QED
    BY <1>2, <2>1 DEF Zones
<1>3. CASE kind \in {"dma_tf", "dma_gc", "dma_ds", "dma_vf"}
  <2>1. InZone(PlaceAt(kind, i), 0, \h800000, \h900000)
    BY <1>3, PlaceIs, SMT DEF InZone
  <2> QED
    BY <1>3, <2>1 DEF Zones
<1>4. CASE kind \in {"vid_tf", "vid_gc", "vid_ds"}
  <2>1. i \in 0 .. 1
    BY <1>4, SMT DEF KindOf
  <2>2. InZone(PlaceAt(kind, i), 0, \ha00000, \hb00000)
    BY <1>4, <2>1, PlaceIs, SMT DEF InZone
  <2> QED
    BY <1>4, <2>2 DEF Zones
<1>5. CASE kind \in {"gpu_tf", "gpu_gc", "gpu_ds"}
  <2>1. i \in 0 .. 7
    BY <1>5, SMT DEF KindOf
  <2>2. InZone(PlaceAt(kind, i), 0, \hb00000, \hbfc000)
    BY <1>5, <2>1, PlaceIs, SMT DEF InZone
  <2> QED
    BY <1>5, <2>2 DEF Zones
<1>6. CASE kind \in {"bd_spi", "cd_spi"}
  <2>1. InZone(PlaceAt(kind, i), 0, \hbfc000, \hc00000)
    BY <1>6, PlaceIs, SMT DEF InZone
  <2> QED
    BY <1>6, <2>1 DEF Zones
<1>7. CASE kind \in {"vf_src_soft", "vf_target_soft", "vf_enable", "vf_claim", "vf_channel"}
  <2>1. InZone(PlaceAt(kind, i), 1, 0, \h4000)
    BY <1>7, PlaceIs, SMT DEF InZone
  <2> QED
    BY <1>7, <2>1 DEF Zones
<1> QED
  BY <1>1, <1>2, <1>3, <1>4, <1>5, <1>6, <1>7, SMT DEF KindOf

LEMMA PlacesApart ==
  ASSUME NEW n, NEW k, NEW a, NEW kind, NEW i, KindOf(a, kind, i, n, k),
         NEW b, NEW other, NEW j, KindOf(b, other, j, n, k),
         a # b, {kind, other} # {"outbound", "inbound_vf"}, n \in 0 .. 64,
         {kind, other} = {"inbound", "inbound_vf"} => n <= 48
  PROVE  Disjoint(PlaceAt(kind, i), PlaceAt(other, j))
<1>1. CASE /\ kind \in {"outbound", "inbound_vf", "inbound", "mmu", "src_soft", "target_soft",
                        "enable", "claim", "comm", "channels"}
           /\ other \in {"outbound", "inbound_vf", "inbound", "mmu", "src_soft", "target_soft",
                         "enable", "claim", "comm", "channels"}
  <2>1. kind # other
    BY <1>1, SMT DEF KindOf
  <2>2. /\ kind = "inbound_vf" => i = n
        /\ other = "inbound_vf" => j = n
    BY SMT DEF KindOf
  <2>3. ASSUME NEW x, x \notin {"outbound", "inbound_vf"}, x = "inbound" => n <= 48,
               x \in {"outbound", "inbound_vf", "inbound", "mmu", "src_soft", "target_soft",
                      "enable", "claim", "comm", "channels"}, NEW l
        PROVE  Disjoint(PlaceAt(x, l), PlaceAt("inbound_vf", n))
               /\ Disjoint(PlaceAt("inbound_vf", n), PlaceAt(x, l))
    <3> DEFINE hi == \h3e0100 + 512 * n
               p == PlaceAt(x, l)
    <3>1. hi \in Int /\ (n <= 48 => hi <= \h3e6100)
      BY SMT
    <3>2. /\ p[1] = 0 /\ p[2] \in Int /\ p[3] \in Int
          /\ p[3] <= \h3e0100 \/ (p[2] = \h3e6100 /\ n <= 48)
      BY <2>3, PlaceIs, SMTT(30)
    <3>3. PlaceAt("inbound_vf", n) = <<0, \h3e0100, hi>>
      BY PlaceIs
    <3> HIDE DEF hi, p
    <3>4. Disjoint(p, <<0, \h3e0100, hi>>) /\ Disjoint(<<0, \h3e0100, hi>>, p)
      BY <3>1, <3>2, SMT DEF Disjoint
    <3> QED
      BY <3>3, <3>4 DEF p
  <2>4. CASE kind = "inbound_vf"
    <3>1. other # "outbound" /\ (other = "inbound" => n <= 48)
      BY <2>4
    <3>2. other # "inbound_vf"
      BY <2>1, <2>4
    <3>3. Disjoint(PlaceAt("inbound_vf", n), PlaceAt(other, j))
      BY <1>1, <2>3, <3>1, <3>2, Zenon
    <3> QED
      BY <2>2, <2>4, <3>3, Zenon
  <2>5. CASE other = "inbound_vf"
    <3>1. kind # "outbound" /\ (kind = "inbound" => n <= 48)
      BY <2>5
    <3>2. kind # "inbound_vf"
      BY <2>1, <2>5
    <3>3. Disjoint(PlaceAt(kind, i), PlaceAt("inbound_vf", n))
      BY <1>1, <2>3, <3>1, <3>2, Zenon
    <3> QED
      BY <2>2, <2>5, <3>3, Zenon
  <2>6. CASE kind # "inbound_vf" /\ other # "inbound_vf"
    BY <1>1, <2>1, <2>6, PlaceIs, SMTT(30) DEF Disjoint
  <2> QED
    BY <2>4, <2>5, <2>6
<1>2. CASE /\ kind \in {"dma_tf", "dma_gc", "dma_ds", "dma_vf"}
           /\ other \in {"dma_tf", "dma_gc", "dma_ds", "dma_vf"}
  <2>1. kind # other
    BY <1>2, SMT DEF KindOf
  <2> QED
    BY <1>2, <2>1, PlaceIs, SMT DEF Disjoint
<1>3. CASE /\ kind \in {"vid_tf", "vid_gc", "vid_ds"}
           /\ other \in {"vid_tf", "vid_gc", "vid_ds"}
  <2>1. i \in 0 .. 1 /\ j \in 0 .. 1 /\ (kind # other \/ i # j)
    BY <1>3, SMT DEF KindOf
  <2>2. \A l : /\ PlaceAt("vid_tf", l) = <<0, \ha3a000 + \h8000 * l, \ha3b000 + \h8000 * l>>
              /\ PlaceAt("vid_gc", l) = <<0, \ha3b000 + \h8000 * l, \ha3b800 + \h8000 * l>>
              /\ PlaceAt("vid_ds", l) = <<0, \ha3c000 + \h8000 * l, \ha40000 + \h8000 * l>>
    BY PlaceIs, SMT
  <2> QED
    BY <1>3, <2>1, <2>2, SMT DEF Disjoint
<1>4. CASE /\ kind \in {"gpu_tf", "gpu_gc", "gpu_ds"}
           /\ other \in {"gpu_tf", "gpu_gc", "gpu_ds"}
  <2>1. i \in 0 .. 7 /\ j \in 0 .. 7 /\ (kind # other \/ i # j)
    BY <1>4, SMT DEF KindOf
  <2>2. \A l : /\ PlaceAt("gpu_tf", l) = <<0, \hb02000 + \h8000 * l, \hb03000 + \h8000 * l>>
              /\ PlaceAt("gpu_gc", l) = <<0, \hb03000 + \h8000 * l, \hb03800 + \h8000 * l>>
              /\ PlaceAt("gpu_ds", l) = <<0, \hb03800 + \h8000 * l, \hb04000 + \h8000 * l>>
    BY PlaceIs, SMT
  <2> QED
    BY <1>4, <2>1, <2>2, SMT DEF Disjoint
<1>5. CASE kind \in {"bd_spi", "cd_spi"} /\ other \in {"bd_spi", "cd_spi"}
  <2>1. kind # other
    BY <1>5, SMT DEF KindOf
  <2> QED
    BY <1>5, <2>1, PlaceIs, SMT DEF Disjoint
<1>6. CASE /\ kind \in {"vf_src_soft", "vf_target_soft", "vf_enable", "vf_claim", "vf_channel"}
           /\ other \in {"vf_src_soft", "vf_target_soft", "vf_enable", "vf_claim", "vf_channel"}
  <2>1. kind # other
    BY <1>6, SMT DEF KindOf
  <2> QED
    BY <1>6, <2>1, PlaceIs, SMT DEF Disjoint
<1>7. CASE kind = "phy" /\ other = "phy"
  BY <1>7, SMT DEF KindOf
<1>8. Zones(kind, PlaceAt(kind, i)) /\ Zones(other, PlaceAt(other, j))
  BY ZoneIs
<1> QED
  BY <1>1, <1>2, <1>3, <1>4, <1>5, <1>6, <1>7, <1>8, SMT DEF Zones, InZone, Disjoint
-----------------------------------------------------------------------------
(* The blocks of the register map.  The groups follow each other in the    *)
(* map, and so do four parts of the system's; within these the solver      *)
(* compares every two blocks.                                              *)

\* Ranges <<first address, address after the last>> that share no address
Beside(a, b) == a[2] <= b[1] \/ b[2] <= a[1]

Between(b, lo, hi) ==
  b[1] \in Int /\ b[2] \in Int /\ lo <= b[1] /\ b[1] < b[2] /\ b[2] <= hi

\* Equal or apart
Settle(a, b) == a = b \/ Beside(a, b)

Settled(g) ==
  \A f, h \in DOMAIN g :
    \A i \in 0 .. (g[f].n - 1), j \in 0 .. (g[h].n - 1) : Settle(Block(g[f], i), Block(g[h], j))

Extent(g, lo, hi) ==
  \A f \in DOMAIN g : \A i \in 0 .. (g[f].n - 1) : Between(Block(g[f], i), lo, hi)

LEMMA DisplaySettled == Settled(DisplayBlocks)
<1> SUFFICES ASSUME NEW f \in DOMAIN DisplayBlocks, NEW i \in 0 .. (DisplayBlocks[f].n - 1),
                    NEW h \in DOMAIN DisplayBlocks, NEW j \in 0 .. (DisplayBlocks[h].n - 1),
                    Block(DisplayBlocks[f], i) # Block(DisplayBlocks[h], j)
             PROVE  Beside(Block(DisplayBlocks[f], i), Block(DisplayBlocks[h], j))
  BY Zenon DEF Settled, Settle
<1> QED
  BY SMTT(120) DEF DisplayBlocks, Block, One, Row, Many, Beside

LEMMA PcieSettled == Settled(PcieBlocks)
<1> SUFFICES ASSUME NEW f \in DOMAIN PcieBlocks, NEW i \in 0 .. (PcieBlocks[f].n - 1),
                    NEW h \in DOMAIN PcieBlocks, NEW j \in 0 .. (PcieBlocks[h].n - 1),
                    Block(PcieBlocks[f], i) # Block(PcieBlocks[h], j)
             PROVE  Beside(Block(PcieBlocks[f], i), Block(PcieBlocks[h], j))
  BY Zenon DEF Settled, Settle
<1> QED
  BY SMTT(120) DEF PcieBlocks, Block, One, Row, Many, Beside

LEMMA VideoSettled == Settled(VideoBlocks)
<1> SUFFICES ASSUME NEW f \in DOMAIN VideoBlocks, NEW i \in 0 .. (VideoBlocks[f].n - 1),
                    NEW h \in DOMAIN VideoBlocks, NEW j \in 0 .. (VideoBlocks[h].n - 1),
                    Block(VideoBlocks[f], i) # Block(VideoBlocks[h], j)
             PROVE  Beside(Block(VideoBlocks[f], i), Block(VideoBlocks[h], j))
  BY Zenon DEF Settled, Settle
<1> QED
  BY SMTT(120) DEF VideoBlocks, Block, One, Row, Many, Beside

LEMMA GpuSettled == Settled(GpuBlocks)
<1> SUFFICES ASSUME NEW f \in DOMAIN GpuBlocks, NEW i \in 0 .. (GpuBlocks[f].n - 1),
                    NEW h \in DOMAIN GpuBlocks, NEW j \in 0 .. (GpuBlocks[h].n - 1),
                    Block(GpuBlocks[f], i) # Block(GpuBlocks[h], j)
             PROVE  Beside(Block(GpuBlocks[f], i), Block(GpuBlocks[h], j))
  BY Zenon DEF Settled, Settle
<1> QED
  BY SMTT(120) DEF GpuBlocks, Block, One, Row, Many, Beside

LEMMA NocSettled == Settled(NocBlocks)
<1> SUFFICES ASSUME NEW f \in DOMAIN NocBlocks, NEW i \in 0 .. (NocBlocks[f].n - 1),
                    NEW h \in DOMAIN NocBlocks, NEW j \in 0 .. (NocBlocks[h].n - 1),
                    Block(NocBlocks[f], i) # Block(NocBlocks[h], j)
             PROVE  Beside(Block(NocBlocks[f], i), Block(NocBlocks[h], j))
  BY Zenon DEF Settled, Settle
<1> QED
  BY SMTT(120) DEF NocBlocks, Block, One, Row, Many, Beside

\* The controllers, the PHYs and the rest of the memory channels alternate.
MemoryPart(f, i, b) ==
  \/ /\ f \in {"DDR_CTRL_CFG", "DDR_PHY_CFG", "DDR_MISC_CFG"} /\ i \in 0 .. 11
     /\ Between(b, \h2000000 + \h400000 * i, \h2400000 + \h400000 * i)
  \/ f = "SRAM" /\ Between(b, \h1e00000, \h1e40000)
  \/ f = "FEC_SRAM" /\ Between(b, \h1e40000, \h1e50000)
  \/ f = "CE" /\ Between(b, \h5e00000, \h6000000)
  \/ f = "STM" /\ Between(b, \h6000000, \h7000000)
  \/ f = "FLASH_S" /\ Between(b, \h7000000, \h8000000)
  \/ f = "QSPI_XIP_CFG" /\ Between(b, \h8000000, \h8000100)
  \/ f = "CS_CFG" /\ Between(b, \h40000000, \h41000000)

LEMMA MemorySettled == Settled(MemoryBlocks)
<1> SUFFICES ASSUME NEW f \in DOMAIN MemoryBlocks, NEW i \in 0 .. (MemoryBlocks[f].n - 1),
                    NEW h \in DOMAIN MemoryBlocks, NEW j \in 0 .. (MemoryBlocks[h].n - 1),
                    Block(MemoryBlocks[f], i) # Block(MemoryBlocks[h], j)
             PROVE  Beside(Block(MemoryBlocks[f], i), Block(MemoryBlocks[h], j))
  BY Zenon DEF Settled, Settle
<1> DEFINE a == Block(MemoryBlocks[f], i)
           b == Block(MemoryBlocks[h], j)
<1>1. ASSUME NEW g \in DOMAIN MemoryBlocks, NEW k \in 0 .. (MemoryBlocks[g].n - 1)
      PROVE  MemoryPart(g, k, Block(MemoryBlocks[g], k))
  <2> DEFINE c == Block(MemoryBlocks[g], k)
  <2>1. CASE g \in {"DDR_CTRL_CFG", "DDR_PHY_CFG", "DDR_MISC_CFG"}
    <3>1. CASE g = "DDR_CTRL_CFG"
      <4>1. k \in 0 .. 11 /\ c = <<\h2000000 + \h400000 * k, \h2100000 + \h400000 * k>>
        BY <3>1, SMTT(30) DEF MemoryBlocks, Block, Row, Many
      <4> QED
        BY <3>1, <4>1, SMT DEF MemoryPart, Between
    <3>2. CASE g = "DDR_PHY_CFG"
      <4>1. k \in 0 .. 11 /\ c = <<\h2100000 + \h400000 * k, \h2200000 + \h400000 * k>>
        BY <3>2, SMTT(30) DEF MemoryBlocks, Block, Row, Many
      <4> QED
        BY <3>2, <4>1, SMT DEF MemoryPart, Between
    <3>3. CASE g = "DDR_MISC_CFG"
      <4>1. k \in 0 .. 11 /\ c = <<\h2200000 + \h400000 * k, \h2400000 + \h400000 * k>>
        BY <3>3, SMTT(30) DEF MemoryBlocks, Block, Row, Many
      <4> QED
        BY <3>3, <4>1, SMT DEF MemoryPart, Between
    <3> QED
      BY <2>1, <3>1, <3>2, <3>3, Zenon
  <2>2. CASE g = "SRAM"
    <3>1. k \in 0 .. 1 /\ c = <<\h1e00000 + \h20000 * k, \h1e20000 + \h20000 * k>>
      BY <2>2, SMTT(30) DEF MemoryBlocks, Block, Row, Many
    <3> QED
      BY <2>2, <3>1, SMT DEF MemoryPart, Between
  <2>3. CASE g = "CE"
    <3>1. k \in 0 .. 1 /\ c = <<\h5e00000 + \h100000 * k, \h5f00000 + \h100000 * k>>
      BY <2>3, SMTT(30) DEF MemoryBlocks, Block, Row, Many
    <3> QED
      BY <2>3, <3>1, SMT DEF MemoryPart, Between
  <2>4. CASE g \in {"FEC_SRAM", "STM", "FLASH_S", "QSPI_XIP_CFG", "CS_CFG"}
    <3>1. k = 0
      BY <2>4, SMTT(30) DEF MemoryBlocks, One, Row, Many
    <3>2. /\ g = "FEC_SRAM" => c = <<\h1e40000, \h1e50000>>
          /\ g = "STM" => c = <<\h6000000, \h7000000>>
          /\ g = "FLASH_S" => c = <<\h7000000, \h8000000>>
      BY <3>1, SMTT(30) DEF MemoryBlocks, Block, One, Row, Many
    <3>3. /\ g = "QSPI_XIP_CFG" => c = <<\h8000000, \h8000100>>
          /\ g = "CS_CFG" => c = <<\h40000000, \h41000000>>
      BY <3>1, SMTT(30) DEF MemoryBlocks, Block, One, Row, Many
    <3> HIDE DEF c
    <3>4. MemoryPart(g, k, c)
      BY <2>4, <3>2, <3>3, SMT DEF MemoryPart, Between
    <3> QED
      BY <3>4 DEF c
  <2>5. g \in {"DDR_CTRL_CFG", "DDR_PHY_CFG", "DDR_MISC_CFG", "SRAM", "CE", "FEC_SRAM",
               "STM", "FLASH_S", "QSPI_XIP_CFG", "CS_CFG"}
    BY SMT DEF MemoryBlocks
  <2> HIDE DEF c
  <2> QED
    BY <2>1, <2>2, <2>3, <2>4, <2>5, SMT DEF c
<1>2. MemoryPart(f, i, a) /\ MemoryPart(h, j, b)
  BY <1>1
<1>3. CASE f = h /\ f \in {"SRAM", "CE"}
  BY <1>3, SMTT(30) DEF MemoryBlocks, Block, One, Row, Many, Beside
<1>4. CASE f = h /\ f \in {"FEC_SRAM", "STM", "FLASH_S", "QSPI_XIP_CFG", "CS_CFG"}
  <2>1. i = j
    BY <1>4, SMTT(30) DEF MemoryBlocks, One, Row, Many
  <2> QED
    BY <1>4, <2>1
<1>5. CASE /\ f \in {"DDR_CTRL_CFG", "DDR_PHY_CFG", "DDR_MISC_CFG"}
           /\ h \in {"DDR_CTRL_CFG", "DDR_PHY_CFG", "DDR_MISC_CFG"} /\ i = j
  BY <1>5, SMTT(30) DEF MemoryBlocks, Block, Many, Beside
<1> HIDE DEF a, b
<1>6. CASE ~(f = h /\ i = j)
  <2> SUFFICES Beside(a, b)
    BY DEF a, b
  <2> QED
    BY <1>2, <1>3, <1>4, <1>5, <1>6, SMTT(60) DEF MemoryPart, Between, Beside, a, b
<1> QED
  BY <1>6

\* The units of the links alternate.
LEMMA LinkSettled == Settled(LinkBlocks)
<1> SUFFICES ASSUME NEW f \in DOMAIN LinkBlocks, NEW i \in 0 .. (LinkBlocks[f].n - 1),
                    NEW h \in DOMAIN LinkBlocks, NEW j \in 0 .. (LinkBlocks[h].n - 1),
                    Block(LinkBlocks[f], i) # Block(LinkBlocks[h], j)
             PROVE  Beside(Block(LinkBlocks[f], i), Block(LinkBlocks[h], j))
  BY Zenon DEF Settled, Settle
<1>1. ASSUME NEW g \in DOMAIN LinkBlocks, NEW k \in 0 .. (LinkBlocks[g].n - 1)
      PROVE  /\ k \in 0 .. 3
             /\ Between(Block(LinkBlocks[g], k), \h1900000 + \h20000 * k, \h1920000 + \h20000 * k)
  BY SMT DEF LinkBlocks, Block, Many, Between
<1>2. CASE i = j
  BY <1>2, SMTT(30) DEF LinkBlocks, Block, Many, Beside
<1>3. CASE i # j
  <2> DEFINE a == Block(LinkBlocks[f], i)
             b == Block(LinkBlocks[h], j)
  <2>1. i \in 0 .. 3 /\ Between(a, \h1900000 + \h20000 * i, \h1920000 + \h20000 * i)
    BY <1>1
  <2>2. j \in 0 .. 3 /\ Between(b, \h1900000 + \h20000 * j, \h1920000 + \h20000 * j)
    BY <1>1
  <2> HIDE DEF a, b
  <2>3. Beside(a, b)
    BY <1>3, <2>1, <2>2, SMT DEF Beside, Between
  <2> QED
    BY <2>3 DEF a, b
<1> QED
  BY <1>2, <1>3

\* The parts of the system's blocks
FrontEnd ==
  {"ROM", "FE_GIC_CFG", "FE_UART_CFG", "FE_SS_CFG_AUD", "FE_SS_CFG_NS", "FE_SS_CFG_S",
   "FE_CRG_CFG", "FE_TZC_CFG", "FE_AMT_CFG", "FE_TS_CFG", "FE_TIMER_CFG", "PWM_CFG_NS"}
Management ==
  {"SM_UART_CFG", "BIF_CFG", "EFUSE_CFG", "SM_DMAC_CFG", "PMU_CFG", "SM_TIMER_CFG",
   "I2C_MST_CFG", "TE_CFG", "SM_GIC_CFG"}
Sensors ==
  {"SM_CRG_CFG", "SM_TS_CFG", "PWM_CFG_S", "SM_TZC_CFG", "SM_AMT_CFG", "PADC_CFG",
   "INTD_CFG", "I2C_SLV_CFG", "PVT_CFG"}

\* Unit f of the system is one block, from lo up to hi.
Only(f, lo, hi) == SystemBlocks[f].n = 1 /\ Block(SystemBlocks[f], 0) = <<lo, hi>>

\* Block i of unit f of the front end lies at b.
FrontEndBlock(f, i, b) ==
  \/ f = "ROM" /\ i = 0 /\ b = <<0, \h20000>>
  \/ f = "FE_GIC_CFG" /\ i = 0 /\ b = <<\h20000, \h28000>>
  \/ f = "FE_UART_CFG" /\ i = 0 /\ b = <<\h28000, \h29000>>
  \/ f = "FE_SS_CFG_AUD" /\ i = 0 /\ b = <<\h29000, \h29400>>
  \/ f = "FE_SS_CFG_NS" /\ i = 0 /\ b = <<\h29400, \h29800>>
  \/ f = "FE_SS_CFG_S" /\ i = 0 /\ b = <<\h29800, \h2a000>>
  \/ f = "FE_CRG_CFG" /\ i = 0 /\ b = <<\h2a000, \h2b000>>
  \/ f = "FE_TZC_CFG" /\ i = 0 /\ b = <<\h2b000, \h2c000>>
  \/ f = "FE_AMT_CFG" /\ i = 0 /\ b = <<\h2c000, \h2d000>>
  \/ /\ f = "FE_TS_CFG" /\ i \in 0 .. 1
     /\ b = <<\h2d000 + \h1000 * i, \h2e000 + \h1000 * i>>
  \/ f = "FE_TIMER_CFG" /\ i = 0 /\ b = <<\h2f000, \h30000>>
  \/ f = "PWM_CFG_NS" /\ i = 0 /\ b = <<\h30000, \h31000>>

LEMMA FrontEndIs ==
  ASSUME NEW f \in FrontEnd, NEW i \in 0 .. (SystemBlocks[f].n - 1)
  PROVE  FrontEndBlock(f, i, Block(SystemBlocks[f], i))
<1>1. /\ Only("ROM", 0, \h20000)
      /\ Only("FE_GIC_CFG", \h20000, \h28000)
      /\ Only("FE_UART_CFG", \h28000, \h29000)
      /\ Only("FE_SS_CFG_AUD", \h29000, \h29400)
      /\ Only("FE_SS_CFG_NS", \h29400, \h29800)
  <2>1. /\ SystemBlocks["ROM"] = One(0, \h20000)
        /\ SystemBlocks["FE_GIC_CFG"] = One(\h20000, \h8000)
        /\ SystemBlocks["FE_UART_CFG"] = One(\h28000, \h1000)
        /\ SystemBlocks["FE_SS_CFG_AUD"] = One(\h29000, \h400)
        /\ SystemBlocks["FE_SS_CFG_NS"] = One(\h29400, \h400)
    BY SMT DEF SystemBlocks
  <2> QED
    BY <2>1, SMT DEF Only, One, Row, Many, Block
<1>2. /\ Only("FE_SS_CFG_S", \h29800, \h2a000)
      /\ Only("FE_CRG_CFG", \h2a000, \h2b000)
      /\ Only("FE_TZC_CFG", \h2b000, \h2c000)
      /\ Only("FE_AMT_CFG", \h2c000, \h2d000)
      /\ Only("FE_TIMER_CFG", \h2f000, \h30000)
      /\ Only("PWM_CFG_NS", \h30000, \h31000)
  <2>1. /\ SystemBlocks["FE_SS_CFG_S"] = One(\h29800, \h800)
        /\ SystemBlocks["FE_CRG_CFG"] = One(\h2a000, \h1000)
        /\ SystemBlocks["FE_TZC_CFG"] = One(\h2b000, \h1000)
        /\ SystemBlocks["FE_AMT_CFG"] = One(\h2c000, \h1000)
        /\ SystemBlocks["FE_TIMER_CFG"] = One(\h2f000, \h1000)
        /\ SystemBlocks["PWM_CFG_NS"] = One(\h30000, \h1000)
    BY SMT DEF SystemBlocks
  <2> QED
    BY <2>1, SMT DEF Only, One, Row, Many, Block
<1>3. CASE f = "FE_TS_CFG"
  <2>1. SystemBlocks[f] = Row(\h2d000, \h1000, 2)
    BY <1>3, SMT DEF SystemBlocks
  <2>2. /\ i \in 0 .. 1
        /\ Block(Row(\h2d000, \h1000, 2), i) = <<\h2d000 + \h1000 * i, \h2e000 + \h1000 * i>>
    BY <2>1, SMT DEF Block, Row, Many
  <2> QED
    BY <1>3, <2>1, <2>2, SMT DEF FrontEndBlock
<1>4. CASE f \in {"ROM", "FE_GIC_CFG", "FE_UART_CFG", "FE_SS_CFG_AUD", "FE_SS_CFG_NS"}
  <2>1. i = 0
    BY <1>1, <1>4, SMT DEF Only
  <2> QED
    BY <1>1, <1>4, <2>1, SMT DEF Only, FrontEndBlock
<1>5. CASE f \in {"FE_SS_CFG_S", "FE_CRG_CFG", "FE_TZC_CFG", "FE_AMT_CFG", "FE_TIMER_CFG",
                 "PWM_CFG_NS"}
  <2>1. i = 0
    BY <1>2, <1>5, SMT DEF Only
  <2> QED
    BY <1>2, <1>5, <2>1, SMT DEF Only, FrontEndBlock
<1> QED
  BY <1>3, <1>4, <1>5, Zenon DEF FrontEnd

\* The same of the management processor's units.
ManagementBlock(f, i, b) ==
  \/ f = "SM_UART_CFG" /\ i = 0 /\ b = <<\h80000, \h80400>>
  \/ f = "BIF_CFG" /\ i = 0 /\ b = <<\h80400, \h80800>>
  \/ f = "EFUSE_CFG" /\ i = 0 /\ b = <<\h80800, \h81000>>
  \/ f = "SM_DMAC_CFG" /\ i = 0 /\ b = <<\h81000, \h81400>>
  \/ f = "PMU_CFG" /\ i = 0 /\ b = <<\h81400, \h81800>>
  \/ f = "SM_TIMER_CFG" /\ i = 0 /\ b = <<\h81800, \h81c00>>
  \/ /\ f = "I2C_MST_CFG" /\ i \in 0 .. 1
     /\ b = <<\h82000 + \h1000 * i, \h82400 + \h1000 * i>>
  \/ f = "TE_CFG" /\ i = 0 /\ b = <<\h84000, \h88000>>
  \/ f = "SM_GIC_CFG" /\ i = 0 /\ b = <<\h88000, \h90000>>

LEMMA ManagementIs ==
  ASSUME NEW f \in Management, NEW i \in 0 .. (SystemBlocks[f].n - 1)
  PROVE  ManagementBlock(f, i, Block(SystemBlocks[f], i))
<1>1. /\ Only("SM_UART_CFG", \h80000, \h80400)
      /\ Only("BIF_CFG", \h80400, \h80800)
      /\ Only("EFUSE_CFG", \h80800, \h81000)
      /\ Only("SM_DMAC_CFG", \h81000, \h81400)
      /\ Only("PMU_CFG", \h81400, \h81800)
  <2>1. /\ SystemBlocks["SM_UART_CFG"] = One(\h80000, \h400)
        /\ SystemBlocks["BIF_CFG"] = One(\h80400, \h400)
        /\ SystemBlocks["EFUSE_CFG"] = One(\h80800, \h800)
        /\ SystemBlocks["SM_DMAC_CFG"] = One(\h81000, \h400)
        /\ SystemBlocks["PMU_CFG"] = One(\h81400, \h400)
    BY SMT DEF SystemBlocks
  <2> QED
    BY <2>1, SMT DEF Only, One, Row, Many, Block
<1>2. /\ Only("SM_TIMER_CFG", \h81800, \h81c00)
      /\ Only("TE_CFG", \h84000, \h88000)
      /\ Only("SM_GIC_CFG", \h88000, \h90000)
  <2>1. /\ SystemBlocks["SM_TIMER_CFG"] = One(\h81800, \h400)
        /\ SystemBlocks["TE_CFG"] = One(\h84000, \h4000)
        /\ SystemBlocks["SM_GIC_CFG"] = One(\h88000, \h8000)
    BY SMT DEF SystemBlocks
  <2> QED
    BY <2>1, SMT DEF Only, One, Row, Many, Block
<1>3. CASE f = "I2C_MST_CFG"
  <2>1. SystemBlocks[f] = Many(\h82000, \h400, \h1000, 2)
    BY <1>3, SMT DEF SystemBlocks
  <2>2. /\ i \in 0 .. 1
        /\ Block(Many(\h82000, \h400, \h1000, 2), i) =
             <<\h82000 + \h1000 * i, \h82400 + \h1000 * i>>
    BY <2>1, SMT DEF Block, Row, Many
  <2> QED
    BY <1>3, <2>1, <2>2, SMT DEF ManagementBlock
<1>4. CASE f \in {"SM_UART_CFG", "BIF_CFG", "EFUSE_CFG", "SM_DMAC_CFG", "PMU_CFG"}
  <2>1. i = 0
    BY <1>1, <1>4, SMT DEF Only
  <2> QED
    BY <1>1, <1>4, <2>1, SMT DEF Only, ManagementBlock
<1>5. CASE f \in {"SM_TIMER_CFG", "TE_CFG", "SM_GIC_CFG"}
  <2>1. i = 0
    BY <1>2, <1>5, SMT DEF Only
  <2> QED
    BY <1>2, <1>5, <2>1, SMT DEF Only, ManagementBlock
<1> QED
  BY <1>3, <1>4, <1>5, Zenon DEF Management

\* The same of the sensors and the rest of its half.
SensorsBlock(f, i, b) ==
  \/ f = "SM_CRG_CFG" /\ i = 0 /\ b = <<\h90000, \h91000>>
  \/ f = "SM_TS_CFG" /\ i = 0 /\ b = <<\h91000, \h92000>>
  \/ f = "PWM_CFG_S" /\ i = 0 /\ b = <<\h92000, \h93000>>
  \/ f = "SM_TZC_CFG" /\ i = 0 /\ b = <<\h93000, \h94000>>
  \/ f = "SM_AMT_CFG" /\ i = 0 /\ b = <<\h94000, \h95000>>
  \/ f = "PADC_CFG" /\ i = 0 /\ b = <<\h95000, \h96000>>
  \/ f = "INTD_CFG" /\ i = 0 /\ b = <<\h97000, \h98000>>
  \/ f = "I2C_SLV_CFG" /\ i = 0 /\ b = <<\h98000, \h98400>>
  \/ f = "PVT_CFG" /\ i = 0 /\ b = <<\h99000, \h9b000>>

LEMMA SensorsIs ==
  ASSUME NEW f \in Sensors, NEW i \in 0 .. (SystemBlocks[f].n - 1)
  PROVE  SensorsBlock(f, i, Block(SystemBlocks[f], i))
<1>1. /\ Only("SM_CRG_CFG", \h90000, \h91000)
      /\ Only("SM_TS_CFG", \h91000, \h92000)
      /\ Only("PWM_CFG_S", \h92000, \h93000)
      /\ Only("SM_TZC_CFG", \h93000, \h94000)
      /\ Only("SM_AMT_CFG", \h94000, \h95000)
  <2>1. /\ SystemBlocks["SM_CRG_CFG"] = One(\h90000, \h1000)
        /\ SystemBlocks["SM_TS_CFG"] = One(\h91000, \h1000)
        /\ SystemBlocks["PWM_CFG_S"] = One(\h92000, \h1000)
        /\ SystemBlocks["SM_TZC_CFG"] = One(\h93000, \h1000)
        /\ SystemBlocks["SM_AMT_CFG"] = One(\h94000, \h1000)
    BY SMT DEF SystemBlocks
  <2> QED
    BY <2>1, SMT DEF Only, One, Row, Many, Block
<1>2. /\ Only("PADC_CFG", \h95000, \h96000)
      /\ Only("INTD_CFG", \h97000, \h98000)
      /\ Only("I2C_SLV_CFG", \h98000, \h98400)
      /\ Only("PVT_CFG", \h99000, \h9b000)
  <2>1. /\ SystemBlocks["PADC_CFG"] = One(\h95000, \h1000)
        /\ SystemBlocks["INTD_CFG"] = One(\h97000, \h1000)
        /\ SystemBlocks["I2C_SLV_CFG"] = One(\h98000, \h400)
        /\ SystemBlocks["PVT_CFG"] = One(\h99000, \h2000)
    BY SMT DEF SystemBlocks
  <2> QED
    BY <2>1, SMT DEF Only, One, Row, Many, Block
<1>3. CASE f \in {"SM_CRG_CFG", "SM_TS_CFG", "PWM_CFG_S", "SM_TZC_CFG", "SM_AMT_CFG"}
  <2>1. i = 0
    BY <1>1, <1>3, SMT DEF Only
  <2> QED
    BY <1>1, <1>3, <2>1, SMT DEF Only, SensorsBlock
<1>4. CASE f \in {"PADC_CFG", "INTD_CFG", "I2C_SLV_CFG", "PVT_CFG"}
  <2>1. i = 0
    BY <1>2, <1>4, SMT DEF Only
  <2> QED
    BY <1>2, <1>4, <2>1, SMT DEF Only, SensorsBlock
<1> QED
  BY <1>3, <1>4, Zenon DEF Sensors

PartOf(f, b) ==
  \/ f \in FrontEnd /\ Between(b, 0, \h31000)
  \/ f \in Management /\ Between(b, \h80000, \h90000)
  \/ f \in Sensors /\ Between(b, \h90000, \hb0000)
  \/ f = "NOC_CRG_CFG" /\ Between(b, \hb0000, \hb1000)
  \/ f = "GPU_CRG_CFG" /\ Between(b, \hb1000, \hb2000)
  \/ f = "DDR_CRG_CFG" /\ Between(b, \hb2000, \hc0000)
  \/ f = "NOC_PMU_CFG" /\ Between(b, \hc0000, \hc2000)

PartSettled(A) ==
  \A f, h \in A :
    \A i \in 0 .. (SystemBlocks[f].n - 1), j \in 0 .. (SystemBlocks[h].n - 1) :
      Settle(Block(SystemBlocks[f], i), Block(SystemBlocks[h], j))

\* The clock and power units
LEMMA ClockBlocks ==
  /\ SystemBlocks["NOC_CRG_CFG"].n = 1
  /\ Block(SystemBlocks["NOC_CRG_CFG"], 0) = <<\hb0000, \hb1000>>
  /\ SystemBlocks["GPU_CRG_CFG"].n = 4
  /\ \A i \in 0 .. 3 :
       Block(SystemBlocks["GPU_CRG_CFG"], i) = <<\hb1000 + \h400 * i, \hb1400 + \h400 * i>>
  /\ SystemBlocks["DDR_CRG_CFG"].n = 2
  /\ \A i \in 0 .. 1 :
       Block(SystemBlocks["DDR_CRG_CFG"], i) = <<\hb2000 + \h1000 * i, \hb3000 + \h1000 * i>>
  /\ SystemBlocks["NOC_PMU_CFG"].n = 1
  /\ Block(SystemBlocks["NOC_PMU_CFG"], 0) = <<\hc1000, \hc2000>>
<1>1. /\ SystemBlocks["NOC_CRG_CFG"].n = 1
      /\ Block(SystemBlocks["NOC_CRG_CFG"], 0) = <<\hb0000, \hb1000>>
  BY SMTT(30) DEF SystemBlocks, Block, One, Row, Many
<1>2. /\ SystemBlocks["GPU_CRG_CFG"].n = 4
      /\ \A i \in 0 .. 3 :
           Block(SystemBlocks["GPU_CRG_CFG"], i) = <<\hb1000 + \h400 * i, \hb1400 + \h400 * i>>
  BY SMTT(30) DEF SystemBlocks, Block, Row, Many
<1>3. /\ SystemBlocks["DDR_CRG_CFG"].n = 2
      /\ \A i \in 0 .. 1 :
           Block(SystemBlocks["DDR_CRG_CFG"], i) = <<\hb2000 + \h1000 * i, \hb3000 + \h1000 * i>>
  BY SMTT(30) DEF SystemBlocks, Block, Row, Many
<1>4. /\ SystemBlocks["NOC_PMU_CFG"].n = 1
      /\ Block(SystemBlocks["NOC_PMU_CFG"], 0) = <<\hc1000, \hc2000>>
  BY SMTT(30) DEF SystemBlocks, Block, One, Row, Many
<1> QED
  BY <1>1, <1>2, <1>3, <1>4

LEMMA PartsSettled ==
  /\ PartSettled(FrontEnd) /\ PartSettled(Management) /\ PartSettled(Sensors)
  /\ \A f \in {"NOC_CRG_CFG", "GPU_CRG_CFG", "DDR_CRG_CFG", "NOC_PMU_CFG"} : PartSettled({f})
<1>1. PartSettled(FrontEnd)
  <2>1. ASSUME NEW f, NEW i, NEW a, FrontEndBlock(f, i, a),
               NEW h, NEW j, NEW b, FrontEndBlock(h, j, b)
        PROVE  Settle(a, b)
    BY <2>1, SMTT(30) DEF FrontEndBlock, Settle, Beside
  <2> QED
    BY <2>1, FrontEndIs, Zenon DEF PartSettled
<1>2. PartSettled(Management)
  <2>1. ASSUME NEW f, NEW i, NEW a, ManagementBlock(f, i, a),
               NEW h, NEW j, NEW b, ManagementBlock(h, j, b)
        PROVE  Settle(a, b)
    BY <2>1, SMTT(30) DEF ManagementBlock, Settle, Beside
  <2> QED
    BY <2>1, ManagementIs, Zenon DEF PartSettled
<1>3. PartSettled(Sensors)
  <2>1. ASSUME NEW f, NEW i, NEW a, SensorsBlock(f, i, a),
               NEW h, NEW j, NEW b, SensorsBlock(h, j, b)
        PROVE  Settle(a, b)
    BY <2>1, SMTT(30) DEF SensorsBlock, Settle, Beside
  <2> QED
    BY <2>1, SensorsIs, Zenon DEF PartSettled
<1>4. ASSUME NEW f \in {"NOC_CRG_CFG", "GPU_CRG_CFG", "DDR_CRG_CFG", "NOC_PMU_CFG"}
      PROVE  PartSettled({f})
  <2> SUFFICES ASSUME NEW i \in 0 .. (SystemBlocks[f].n - 1),
                      NEW j \in 0 .. (SystemBlocks[f].n - 1)
               PROVE  Settle(Block(SystemBlocks[f], i), Block(SystemBlocks[f], j))
    BY Zenon DEF PartSettled
  <2> QED
    <3>1. CASE f = "GPU_CRG_CFG"
      <4>1. i \in 0 .. 3 /\ j \in 0 .. 3
        BY <3>1, ClockBlocks, SMT
      <4> QED
        BY <3>1, <4>1, ClockBlocks, SMT DEF Settle, Beside
    <3>2. CASE f = "DDR_CRG_CFG"
      <4>1. i \in 0 .. 1 /\ j \in 0 .. 1
        BY <3>2, ClockBlocks, SMT
      <4> QED
        BY <3>2, <4>1, ClockBlocks, SMT DEF Settle, Beside
    <3>3. CASE f \in {"NOC_CRG_CFG", "NOC_PMU_CFG"}
      <4>1. i = j
        BY <3>3, ClockBlocks, SMT
      <4> QED
        BY <4>1 DEF Settle
    <3> QED
      BY <3>1, <3>2, <3>3
<1> QED
  BY <1>1, <1>2, <1>3, <1>4

LEMMA SystemPart ==
  ASSUME NEW f \in DOMAIN SystemBlocks, NEW i \in 0 .. (SystemBlocks[f].n - 1)
  PROVE  PartOf(f, Block(SystemBlocks[f], i))
<1> DEFINE b == Block(SystemBlocks[f], i)
<1>1. CASE f \in FrontEnd
  <2>1. Between(b, 0, \h31000)
    <3>1. FrontEndBlock(f, i, b)
      BY <1>1, FrontEndIs
    <3> HIDE DEF b
    <3> QED
      BY <3>1, SMT DEF FrontEndBlock, Between
  <2> QED
    BY <1>1, <2>1 DEF PartOf
<1>2. CASE f \in Management
  <2>1. Between(b, \h80000, \h90000)
    <3>1. ManagementBlock(f, i, b)
      BY <1>2, ManagementIs
    <3> HIDE DEF b
    <3> QED
      BY <3>1, SMT DEF ManagementBlock, Between
  <2> QED
    BY <1>2, <2>1 DEF PartOf
<1>3. CASE f \in Sensors
  <2>1. Between(b, \h90000, \hb0000)
    <3>1. SensorsBlock(f, i, b)
      BY <1>3, SensorsIs
    <3> HIDE DEF b
    <3> QED
      BY <3>1, SMT DEF SensorsBlock, Between
  <2> QED
    BY <1>3, <2>1 DEF PartOf
<1>4. CASE f = "NOC_CRG_CFG"
  <2>1. i = 0
    BY <1>4, ClockBlocks, SMT
  <2>2. b = <<\hb0000, \hb1000>>
    BY <1>4, <2>1, ClockBlocks
  <2>3. Between(b, \hb0000, \hb1000)
    BY <2>2, SMT DEF Between
  <2> QED
    BY <1>4, <2>3 DEF PartOf
<1>5. CASE f = "GPU_CRG_CFG"
  <2>1. i \in 0 .. 3
    BY <1>5, ClockBlocks, SMT
  <2>2. b = <<\hb1000 + \h400 * i, \hb1400 + \h400 * i>>
    BY <1>5, <2>1, ClockBlocks
  <2>3. Between(b, \hb1000, \hb2000)
    BY <2>1, <2>2, SMT DEF Between
  <2> QED
    BY <1>5, <2>3 DEF PartOf
<1>6. CASE f = "DDR_CRG_CFG"
  <2>1. i \in 0 .. 1
    BY <1>6, ClockBlocks, SMT
  <2>2. b = <<\hb2000 + \h1000 * i, \hb3000 + \h1000 * i>>
    BY <1>6, <2>1, ClockBlocks
  <2>3. Between(b, \hb2000, \hc0000)
    BY <2>1, <2>2, SMT DEF Between
  <2> QED
    BY <1>6, <2>3 DEF PartOf
<1>7. CASE f = "NOC_PMU_CFG"
  <2>1. i = 0
    BY <1>7, ClockBlocks, SMT
  <2>2. b = <<\hc1000, \hc2000>>
    BY <1>7, <2>1, ClockBlocks
  <2>3. Between(b, \hc0000, \hc2000)
    BY <2>2, SMT DEF Between
  <2> QED
    BY <1>7, <2>3 DEF PartOf
<1>8. f \in FrontEnd \cup Management \cup Sensors
             \cup {"NOC_CRG_CFG", "GPU_CRG_CFG", "DDR_CRG_CFG", "NOC_PMU_CFG"}
  BY SMT DEF SystemBlocks, FrontEnd, Management, Sensors
<1> QED
  BY <1>1, <1>2, <1>3, <1>4, <1>5, <1>6, <1>7, <1>8, Zenon

LEMMA SystemSettled == Settled(SystemBlocks)
<1> SUFFICES ASSUME NEW f \in DOMAIN SystemBlocks, NEW i \in 0 .. (SystemBlocks[f].n - 1),
                    NEW h \in DOMAIN SystemBlocks, NEW j \in 0 .. (SystemBlocks[h].n - 1)
             PROVE  Settle(Block(SystemBlocks[f], i), Block(SystemBlocks[h], j))
  BY Zenon DEF Settled
<1> DEFINE a == Block(SystemBlocks[f], i)
           b == Block(SystemBlocks[h], j)
<1>1. PartOf(f, a) /\ PartOf(h, b)
  BY SystemPart
<1>2. \A A : PartSettled(A) /\ f \in A /\ h \in A => Settle(a, b)
  BY DEF PartSettled
<1> HIDE DEF a, b
<1>3. \/ Settle(a, b)
      \/ ~\E A \in {FrontEnd, Management, Sensors} : f \in A /\ h \in A
  BY <1>2, PartsSettled
<1>4. \A p \in {"NOC_CRG_CFG", "GPU_CRG_CFG", "DDR_CRG_CFG", "NOC_PMU_CFG"} :
        f = p /\ h = p => Settle(a, b)
  BY <1>2, PartsSettled
<1>5. Settle(a, b)
  BY <1>1, <1>3, <1>4, SMT DEF PartOf, Between, Settle, Beside
<1> QED
  BY <1>5 DEF a, b

LEMMA Extents ==
  /\ Extent(SystemBlocks, 0, \hc2000) /\ Extent(DisplayBlocks, \h100000, \h200000)
  /\ Extent(PcieBlocks, \h200000, \ha00000) /\ Extent(VideoBlocks, \ha00000, \hb00000)
  /\ Extent(GpuBlocks, \hb00000, \h1600000) /\ Extent(NocBlocks, \h1600000, \h1900000)
  /\ Extent(LinkBlocks, \h1900000, \h1e00000) /\ Extent(MemoryBlocks, \h1e00000, \h50000000)
<1>1. Extent(SystemBlocks, 0, \hc2000)
  BY SystemPart, SMT DEF PartOf, Between, Extent
<1>2. Extent(DisplayBlocks, \h100000, \h200000)
  BY SMTT(30) DEF DisplayBlocks, Block, One, Row, Many, Between, Extent
<1>3. Extent(PcieBlocks, \h200000, \ha00000)
  BY SMTT(30) DEF PcieBlocks, Block, One, Row, Many, Between, Extent
<1>4. Extent(VideoBlocks, \ha00000, \hb00000)
  BY SMTT(30) DEF VideoBlocks, Block, One, Row, Many, Between, Extent
<1>5. Extent(GpuBlocks, \hb00000, \h1600000)
  BY SMTT(30) DEF GpuBlocks, Block, One, Row, Many, Between, Extent
<1>6. Extent(NocBlocks, \h1600000, \h1900000)
  BY SMTT(30) DEF NocBlocks, Block, One, Row, Many, Between, Extent
<1>7. Extent(LinkBlocks, \h1900000, \h1e00000)
  BY SMTT(30) DEF LinkBlocks, Block, One, Row, Many, Between, Extent
<1>8. Extent(MemoryBlocks, \h1e00000, \h50000000)
  BY SMTT(30) DEF MemoryBlocks, Block, One, Row, Many, Between, Extent
<1> QED
  BY <1>1, <1>2, <1>3, <1>4, <1>5, <1>6, <1>7, <1>8

LEMMA GpuGap ==
  ASSUME NEW f \in DOMAIN GpuBlocks, NEW i \in 0 .. (GpuBlocks[f].n - 1)
  PROVE  Beside(Block(GpuBlocks[f], i), PH_BD_INTD)
<1> DEFINE b == Block(GpuBlocks[f], i)
<1>1. CASE f \in {"GPU_CFG", "GPU_SS_CFG_NS", "GPU_SS_CFG_S"}
  <2>1. Between(b, \hc00000, \h1600000)
    BY <1>1, SMTT(30) DEF GpuBlocks, Block, One, Row, Many, Between
  <2> QED
    BY <2>1, SMT DEF Between, Beside, PH_BD_INTD
<1>2. CASE f \notin {"GPU_CFG", "GPU_SS_CFG_NS", "GPU_SS_CFG_S"}
  <2>1. Between(b, \hb00000, \hb40000)
    BY <1>2, SMTT(30) DEF GpuBlocks, Block, Many, Between
  <2> QED
    BY <2>1, SMT DEF Between, Beside, PH_BD_INTD
<1> QED
  BY <1>1, <1>2

\* The group of a block
GroupOf(g, b) ==
  \/ g = SystemBlocks /\ Between(b, 0, \hc2000)
  \/ g = DisplayBlocks /\ Between(b, \h100000, \h200000)
  \/ g = PcieBlocks /\ Between(b, \h200000, \ha00000)
  \/ g = VideoBlocks /\ Between(b, \ha00000, \hb00000)
  \/ g = GpuBlocks /\ Between(b, \hb00000, \h1600000)
  \/ g = NocBlocks /\ Between(b, \h1600000, \h1900000)
  \/ g = LinkBlocks /\ Between(b, \h1900000, \h1e00000)
  \/ g = MemoryBlocks /\ Between(b, \h1e00000, \h50000000)

MemberOf(b, g) == \E f \in DOMAIN g : \E i \in 0 .. (g[f].n - 1) : b = Block(g[f], i)

LEMMA EveryBlock ==
  ASSUME NEW b \in Blocks
  PROVE  \E g \in Groups : MemberOf(b, g)
<1>1. PICK g \in Groups :
        b \in UNION {{Block(g[f], i) : i \in 0 .. (g[f].n - 1)} : f \in DOMAIN g}
  BY Zenon DEF Blocks
<1> QED
  BY <1>1, Zenon DEF MemberOf

LEMMA BlocksAreApart == BlocksApart
<1>1. ASSUME NEW g \in Groups, NEW b, MemberOf(b, g)
      PROVE  GroupOf(g, b)
  <2>1. \A lo, hi : Extent(g, lo, hi) => Between(b, lo, hi)
    BY <1>1, Zenon DEF Extent, MemberOf
  <2> QED
    BY <2>1, Extents, SMT DEF Groups, GroupOf
<1>2. ASSUME NEW a \in Blocks, NEW b \in Blocks, a # b
      PROVE  Beside(a, b)
  <2>1. PICK g \in Groups : MemberOf(a, g)
    BY EveryBlock
  <2>2. PICK h \in Groups : MemberOf(b, h)
    BY EveryBlock
  <2>3. GroupOf(g, a) /\ GroupOf(h, b)
    BY <1>1, <2>1, <2>2
  <2>4. CASE g = h
    <3>1. Settled(g)
      BY SystemSettled, DisplaySettled, PcieSettled, VideoSettled, GpuSettled, NocSettled,
         LinkSettled, MemorySettled, Zenon DEF Groups
    <3>2. Settle(a, b)
      BY <2>1, <2>2, <2>4, <3>1, ZenonT(30) DEF Settled, MemberOf
    <3> QED
      BY <1>2, <3>2 DEF Settle
  <2>5. CASE g # h
    BY <2>3, <2>5, SMTT(30) DEF GroupOf, Between, Beside
  <2> QED
    BY <2>4, <2>5
<1>3. ASSUME NEW a \in Blocks PROVE Beside(a, PH_BD_INTD)
  <2>1. PICK g \in Groups : MemberOf(a, g)
    BY EveryBlock
  <2>2. GroupOf(g, a)
    BY <1>1, <2>1
  <2>3. CASE g = GpuBlocks
    BY <2>1, <2>3, GpuGap, Zenon DEF MemberOf
  <2>4. CASE g # GpuBlocks
    BY <2>2, <2>4, SMTT(30) DEF GroupOf, Between, Beside, PH_BD_INTD
  <2> QED
    BY <2>3, <2>4
<1> QED
  BY <1>2, <1>3, Zenon DEF BlocksApart, Beside

LEMMA AliasesDoAgree == AliasesAgree
<1> SUFFICES ASSUME NEW i \in 0 .. 7
             PROVE  /\ MC_BASE.EATA_TF_CFG_MC[i] = GPU_EATA_TF_CFG_BASE(i)
                    /\ MC_BASE.EATA_CFG_MC[i] = GPU_EATA_GC_CFG_BASE(i)
                    /\ MC_BASE.EATA_DESC_MC[i] = GPU_EATA_DS_CFG_BASE(i)
                    /\ MC_BASE.AMF_MC[i] = Block(GpuBlocks.GPU_AMT_CFG, i)[1]
                    /\ MC_BASE.TZC_MC[i] = Block(GpuBlocks.GPU_TZC_CFG, i)[1]
                    /\ MC_BASE.MC_CFG[i] = Block(GpuBlocks.GPU_CFG, i)[1]
  BY SMT DEF AliasesAgree, GPU_CORE_NUM
<1>1. /\ MC_BASE.EATA_TF_CFG_MC[i] = GPU_EATA_TF_CFG_BASE(i)
      /\ MC_BASE.EATA_CFG_MC[i] = GPU_EATA_GC_CFG_BASE(i)
      /\ MC_BASE.EATA_DESC_MC[i] = GPU_EATA_DS_CFG_BASE(i)
  BY SMT DEF MC_BASE, GPU_EATA_TF_CFG_BASE, GPU_EATA_GC_CFG_BASE, GPU_EATA_DS_CFG_BASE,
             ClampedBase, Block, GpuBlocks, Many
<1>2. /\ MC_BASE.AMF_MC[i] = Block(GpuBlocks.GPU_AMT_CFG, i)[1]
      /\ MC_BASE.TZC_MC[i] = Block(GpuBlocks.GPU_TZC_CFG, i)[1]
      /\ MC_BASE.MC_CFG[i] = Block(GpuBlocks.GPU_CFG, i)[1]
  BY SMT DEF MC_BASE, Block, GpuBlocks, Row, Many
<1> QED
  BY <1>1, <1>2
-----------------------------------------------------------------------------
(* Banks in places that are apart do not clash.                            *)

LEMMA FitsApart ==
  ASSUME NEW x, NEW y, NEW p, NEW q, FitsAt(x, p), FitsAt(y, q), Disjoint(p, q)
  PROVE  ~Clash(x, y)
<1> SUFFICES ASSUME x.bar = y.bar, NEW r \in x.regs, NEW s \in y.regs, r[1] < s[2], s[1] < r[2]
             PROVE  FALSE
  BY Zenon DEF Clash
<1>1. p[1] = q[1] /\ p[2] \in Int /\ p[3] \in Int /\ q[2] \in Int /\ q[3] \in Int
  BY DEF FitsAt, Fits
<1>2. /\ r[1] \in Int /\ r[2] \in Int /\ p[2] <= r[1] /\ r[2] <= p[3]
      /\ s[1] \in Int /\ s[2] \in Int /\ q[2] <= s[1] /\ s[2] <= q[3]
  BY Zenon DEF FitsAt, Fits, Within
<1> QED
  BY <1>1, <1>2, SMT DEF Disjoint

LEMMA FitsNotStray ==
  ASSUME NEW x, NEW p, FitsAt(x, p)
  PROVE  ~Stray(x)
<1> SUFFICES ASSUME NEW r \in x.regs PROVE ~(r[1] < x.unit[1] \/ r[2] > x.unit[2])
  BY DEF Stray
<1>1. /\ x.unit[1] \in Int /\ x.unit[2] \in Int /\ p[2] \in Int /\ p[3] \in Int
      /\ x.unit[1] <= p[2] /\ p[3] <= x.unit[2]
  BY DEF FitsAt, Fits
<1>2. r[1] \in Int /\ r[2] \in Int /\ p[2] <= r[1] /\ r[2] <= p[3]
  BY Zenon DEF FitsAt, Fits, Within
<1> QED
  BY <1>1, <1>2, SMT

\* The outbound windows and the VFs' alternate: window w has its outbound
\* registers in the first 256 bytes of 512, its inbound ones in the second.
LEMMA WindowsApart ==
  ASSUME NEW n \in 0 .. 64
  PROVE  /\ ~Clash(IatuBank("outbound", 0), IatuBank("inbound_vf", n))
         /\ ~Clash(IatuBank("inbound_vf", n), IatuBank("outbound", 0))
<1> DEFINE out == IatuBank("outbound", 0)
           in == IatuBank("inbound_vf", n)
<1>1. ASSUME NEW r \in out.regs
      PROVE  Within({r}, \h3e0000, \h3e0100) \/ Within({r}, \h3e0200, \h3e0300)
  <2>1. out.regs = pcie_prog_outbound_regs(0) \cup pcie_prog_outbound_regs(1)
    BY SMT DEF IatuBank, Bank
  <2>2. REG_PCIE_IP_IATU(0, 0) = \h3e0000 /\ REG_PCIE_IP_IATU(1, 0) = \h3e0200
    BY SMT DEF REG_PCIE_IP_IATU, PCIE_CTRL, Block, PcieBlocks, One, Row, Many
  <2>3. /\ Within(pcie_prog_outbound_regs(0), \h3e0000, \h3e0100)
        /\ Within(pcie_prog_outbound_regs(1), \h3e0200, \h3e0300)
    BY <2>2, SMT DEF pcie_prog_outbound_regs, At, Within
  <2> HIDE DEF out
  <2> QED
    BY <2>1, <2>3, SMT DEF Within
<1>2. ASSUME NEW s \in in.regs
      PROVE  \E w \in 0 .. 63 : Within({s}, \h3e0100 + 512 * w, \h3e0120 + 512 * w)
  <2>1. in.regs = UNION {pcie_prog_inbound_vf_regs(w) : w \in 0 .. (n - 1)}
    BY PlaceInboundVf, SMTT(30)
  <2> HIDE DEF in
  <2>2. PICK w \in 0 .. (n - 1) : s \in pcie_prog_inbound_vf_regs(w)
    BY <2>1, SMT
  <2>3. w \in 0 .. 63
    BY SMT
  <2>4. Within(pcie_prog_inbound_vf_regs(w), \h3e0100 + 512 * w, \h3e0120 + 512 * w)
    BY <2>3, VfWindowRegs, SMT
  <2>5. Within({s}, \h3e0100 + 512 * w, \h3e0120 + 512 * w)
    BY <2>2, <2>4, SMT DEF Within
  <2> QED
    BY <2>3, <2>5, SMT
<1> HIDE DEF out, in
<1>3. ASSUME NEW r \in out.regs, NEW s \in in.regs
      PROVE  ~(r[1] < s[2] /\ s[1] < r[2])
  <2>1. PICK w \in 0 .. 63 : Within({s}, \h3e0100 + 512 * w, \h3e0120 + 512 * w)
    BY <1>2, SMT
  <2>2. Within({r}, \h3e0000, \h3e0100) \/ Within({r}, \h3e0200, \h3e0300)
    BY <1>1, SMT
  <2> QED
    BY <2>1, <2>2, SMT DEF Within
<1>4. ~Clash(out, in) /\ ~Clash(in, out)
  BY <1>3, Zenon DEF Clash
<1> QED
  BY <1>4 DEF out, in

LEMMA NoClash ==
  ASSUME NEW n \in VfNums, NEW k \in 1 .. 32,
         NEW a \in Possible(n, k), a \in AllBanks, NEW b \in Possible(n, k), b \in AllBanks,
         a # b, ~VfsTakeWindows(<<a, b>>)
  PROVE  ~Clash(Banks[a], Banks[b])
<1>0. n \in 0 .. 64
  BY AddrMapAssumption
<1>1. PICK kind, i : KindOf(a, kind, i, n, k)
  BY Kinds
<1>2. PICK other, j : KindOf(b, other, j, n, k)
  BY Kinds
<1>3. a[1] = kind /\ a[2] = i /\ b[1] = other /\ b[2] = j
  BY <1>1, <1>2, Zenon DEF KindOf
<1>4. CASE {kind, other} # {"outbound", "inbound_vf"}
  <2>1. Disjoint(PlaceAt(kind, i), PlaceAt(other, j))
    <3>1. ASSUME {kind, other} = {"inbound", "inbound_vf"}, n > 48 PROVE FALSE
      <4>1. \/ a = <<"inbound", 0>> /\ b = <<"inbound_vf", n>>
            \/ b = <<"inbound", 0>> /\ a = <<"inbound_vf", n>>
        BY <1>1, <1>2, <3>1, SMT DEF KindOf
      <4>2. {a, b} = {<<"inbound", 0>>, <<"inbound_vf", n>>}
        BY <4>1
      <4>3. <<a, b>>[1] = a /\ <<a, b>>[2] = b /\ n > IATU_NUM - 2
        BY <3>1, SMT DEF IATU_NUM
      <4> QED
        BY <4>2, <4>3, Zenon DEF VfsTakeWindows
    <3>2. {kind, other} = {"inbound", "inbound_vf"} => n <= 48
      BY <1>0, <3>1, SMT
    <3> QED
      BY <1>0, <1>1, <1>2, <1>4, <3>2, PlacesApart, Zenon
  <2>2. FitsAt(Banks[a], PlaceAt(kind, i)) /\ FitsAt(Banks[b], PlaceAt(other, j))
    BY <1>3, BankFits, Zenon
  <2> QED
    BY <2>1, <2>2, FitsApart, Zenon
<1>5. CASE {kind, other} = {"outbound", "inbound_vf"}
  <2>2. Banks[a] = IatuBank(kind, i) /\ Banks[b] = IatuBank(other, j)
    BY <1>3, <1>5, BankOf, Zenon
  <2>3. \/ kind = "outbound" /\ other = "inbound_vf"
        \/ kind = "inbound_vf" /\ other = "outbound"
    BY <1>5
  <2>4. (kind = "outbound" => i = 0) /\ (kind = "inbound_vf" => i = n)
    BY <1>1, SMT DEF KindOf
  <2>5. (other = "outbound" => j = 0) /\ (other = "inbound_vf" => j = n)
    BY <1>2, SMT DEF KindOf
  <2> QED
    BY <1>0, <2>2, <2>3, <2>4, <2>5, WindowsApart, Zenon
<1> QED
  BY <1>4, <1>5

\* Every loop over registers stays in its unit and writes no register of another
\* loop of the set-up, whichever steps run, for every number of vectors and of VFs,
\* but for the windows that more than 48 VFs take from the APU and the PF; the
\* blocks of the register map are apart.
THEOREM RegistersAreApart == LayoutSpec => []RegistersApart
<1>1. LayoutInit => DoneInv
  BY DEF LayoutInit, DoneInv, Muxed
<1>2. LayoutInv /\ DoneInv /\ [LayoutNext]_layoutVars => DoneInv'
  BY NextDone DEF LayoutInv, ChannelInv
<1>3. LayoutInv /\ DoneInv => RegistersApart
  <2> SUFFICES ASSUME LayoutInv, DoneInv PROVE RegistersApart
    OBVIOUS
  <2>1. vf_num \in VfNums
    BY DEF LayoutInv, ChannelInv
  <2>2. PICK k \in 1 .. 32 : done \subseteq Possible(vf_num, k)
    <3>1. CASE Muxed
      BY <3>1, RegSetupAssumption DEF DoneInv, Possible
    <3>2. CASE ~Muxed
      <4>1. 1 \in 1 .. 32 /\ done \subseteq Possible(vf_num, 1)
        BY <3>2 DEF DoneInv, Possible
      <4> QED
        BY <4>1
    <3> QED
      BY <3>1, <3>2
  <2>3. done \cap Strays = {}
    <3> SUFFICES ASSUME NEW b \in done, b \in Strays PROVE FALSE
      OBVIOUS
    <3>1. b \in AllBanks /\ Stray(Banks[b])
      BY DEF Strays
    <3>2. FitsAt(Banks[b], PlaceAt(b[1], b[2]))
      BY <2>1, <2>2, <3>1, BankFits
    <3> QED
      BY <3>1, <3>2, FitsNotStray
  <2>4. \A p \in Clashes : {p[1], p[2]} \subseteq done => VfsTakeWindows(p)
    <3> SUFFICES ASSUME NEW p \in Clashes, p[1] \in done, p[2] \in done
                 PROVE  VfsTakeWindows(p)
      OBVIOUS
    <3>1. PICK a \in AllBanks :
            p \in {<<a, b>> : b \in {x \in AllBanks : x # a /\ Clash(Banks[a], Banks[x])}}
      BY DEF Clashes
    <3>2. PICK b \in AllBanks : b # a /\ Clash(Banks[a], Banks[b]) /\ p = <<a, b>>
      BY <3>1
    <3>3. a \in Possible(vf_num, k) /\ b \in Possible(vf_num, k)
      BY <2>2, <3>2
    <3> QED
      BY <2>1, <3>2, <3>3, NoClash
  <2> QED
    BY <2>3, <2>4, BlocksAreApart, AliasesDoAgree DEF RegistersApart
<1> QED
  BY <1>1, <1>2, <1>3, LayoutInvariance, PTL DEF LayoutSpec
=============================================================================
