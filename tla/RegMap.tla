------------------------------- MODULE RegMap -------------------------------
(***************************************************************************)
(* The register map of comm_define.h, as the host sees it behind BAR 0     *)
(* (REG_BASE is 0 there): the blocks of registers of every unit, and the   *)
(* macros that find the block of the i-th of several equal units.          *)
(***************************************************************************)
EXTENDS Integers

\* n equal blocks of size bytes, the i-th at base + stride * i
Many(base, size, stride, n) == [base |-> base, size |-> size, stride |-> stride, n |-> n]

\* n blocks side by side
Row(base, size, n) == Many(base, size, size, n)

One(base, size) == Row(base, size, 1)

SystemBlocks ==
  [ROM |-> One(0, \h20000),
   FE_GIC_CFG |-> One(\h20000, \h8000),       FE_UART_CFG |-> One(\h28000, \h1000),
   FE_SS_CFG_AUD |-> One(\h29000, \h400),     FE_SS_CFG_NS |-> One(\h29400, \h400),
   FE_SS_CFG_S |-> One(\h29800, \h800),       FE_CRG_CFG |-> One(\h2a000, \h1000),
   FE_TZC_CFG |-> One(\h2b000, \h1000),       FE_AMT_CFG |-> One(\h2c000, \h1000),
   FE_TS_CFG |-> Row(\h2d000, \h1000, 2),     \* the second one read-only
   FE_TIMER_CFG |-> One(\h2f000, \h1000),     PWM_CFG_NS |-> One(\h30000, \h1000),
   SM_UART_CFG |-> One(\h80000, \h400),       BIF_CFG |-> One(\h80400, \h400),
   EFUSE_CFG |-> One(\h80800, \h800),         SM_DMAC_CFG |-> One(\h81000, \h400),
   PMU_CFG |-> One(\h81400, \h400),           SM_TIMER_CFG |-> One(\h81800, \h400),
   I2C_MST_CFG |-> Many(\h82000, \h400, \h1000, 2),
   TE_CFG |-> One(\h84000, \h4000),           SM_GIC_CFG |-> One(\h88000, \h8000),
   SM_CRG_CFG |-> One(\h90000, \h1000),       SM_TS_CFG |-> One(\h91000, \h1000),
   PWM_CFG_S |-> One(\h92000, \h1000),        SM_TZC_CFG |-> One(\h93000, \h1000),
   SM_AMT_CFG |-> One(\h94000, \h1000),       PADC_CFG |-> One(\h95000, \h1000),
   INTD_CFG |-> One(\h97000, \h1000),         I2C_SLV_CFG |-> One(\h98000, \h400),
   PVT_CFG |-> One(\h99000, \h2000),          NOC_CRG_CFG |-> One(\hb0000, \h1000),
   GPU_CRG_CFG |-> Row(\hb1000, \h400, 4),    DDR_CRG_CFG |-> Row(\hb2000, \h1000, 2),
   NOC_PMU_CFG |-> One(\hc1000, \h1000)]

DisplayBlocks ==
  [DPTX_CTRL_CFG |-> Row(\h100000, \h10000, 4), DPTX_PHY_CFG |-> Row(\h140000, \h10000, 4),
   DE_CFG |-> Row(\h180000, \h1000, 4),       DISP_CRG_CFG |-> One(\h184800, \h400),
   DP_CRG_CFG |-> One(\h184c00, \h400),       TRNG_CFG |-> Row(\h185000, \h400, 4),
   HDCP_CFG |-> Row(\h186000, \h200, 4),      DPTX_CUST_CFG |-> Row(\h186800, \h200, 4),
   DSC_CFG |-> Many(\h187000, \h100, \h400, 4),
   I2S_CFG |-> Row(\h188000, \h400, 4),       DISP_SS_TZC_CFG |-> One(\h189000, \h1000),
   DISP_SS_AMT_CFG |-> One(\h18a000, \h1000)]

PcieBlocks ==
  [PCIE_CTRL_CFG |-> One(\h200000, \h200000), PCIE_PLIC_CFG |-> One(\h400000, \h300000),
   PCIE_PHY_CFG |-> One(\h700000, \hc0000),   PCIE_SS_CFG |-> One(\h7c0000, \h3d000),
   PCIE_SS_TZC_CFG |-> One(\h7fe000, \h1000), PCIE_SS_AMT_CFG |-> One(\h7ff000, \h1000),
   PCIE_DMAC_CFG |-> One(\h800000, \h80000),
   PCIE_DMA_EATA_TF_CFG |-> One(\h880000, \h1000),
   PCIE_DMA_EATA_GC_CFG |-> One(\h881000, \h800),
   PCIE_DMA_EATA_DS_CFG |-> One(\h884000, \h4000)]

VideoBlocks ==
  [BODA955_CFG |-> One(\ha00000, \h4000),     WAVE517_CFG |-> Row(\ha04000, \h4000, 6),
   WAVE627_CFG |-> Row(\ha1c000, \h4000, 4),  JPEG_CFG |-> Row(\ha2c000, \h1000, 4),
   VID_SS_CFG |-> One(\ha35000, \h1000),      VID_CRG_CFG |-> One(\ha36000, \h1000),
   VID_PMU_CFG |-> One(\ha37000, \h1000),
   VID_SS_AMT_CFG |-> Many(\ha38000, \h1000, \h8000, 2),
   VID_SS_TZC_CFG |-> Many(\ha39000, \h1000, \h8000, 2),
   VID_SS_EATA_TF_CFG |-> Many(\ha3a000, \h1000, \h8000, 2),
   VID_SS_EATA_GC_CFG |-> Many(\ha3b000, \h800, \h8000, 2),
   VID_SS_EATA_DS_CFG |-> Many(\ha3c000, \h4000, \h8000, 2),
   VID_SS_VM_W517_CFG |-> One(\ha80000, \h40000),
   VID_SS_VM_W627_CFG |-> One(\hac0000, \h40000)]

GpuBlocks ==
  [GPU_AMT_CFG |-> Many(\hb00000, \h1000, \h8000, 8),
   GPU_TZC_CFG |-> Many(\hb01000, \h1000, \h8000, 8),
   GPU_EATA_TF_CFG |-> Many(\hb02000, \h1000, \h8000, 8),
   GPU_EATA_GC_CFG |-> Many(\hb03000, \h800, \h8000, 8),
   GPU_EATA_DS_CFG |-> Many(\hb03800, \h800, \h8000, 8),
   GPU_CFG |-> Row(\hc00000, \h100000, 8),
   GPU_SS_CFG_NS |-> One(\h1400000, \h100000), GPU_SS_CFG_S |-> One(\h1500000, \h100000)]

\* FLASH_NS; the networks of the main bus and of PCIe, the side band, SM, FE,
\* video and display; the caches, two of each memory channel.
NocBlocks ==
  [FLASH_NS |-> One(\h1600000, \h200000),
   NOC_CFG |-> Row(\h1800000, \h10000, 7),
   LLC_WRAP_CFG |-> Row(\h1870000, \h1000, 48)]

LinkBlocks ==
  [LINK_SRD_CFG |-> Many(\h1900000, \h14000, \h20000, 4),
   LINK_ITR_CFG |-> Many(\h1914000, \h1000, \h20000, 4),
   LINK_TZC_CFG |-> Many(\h1915000, \h1000, \h20000, 4),
   LINK_AMT_CFG |-> Many(\h1916000, \h1000, \h20000, 4),
   LINK_WRAP_CFG |-> Many(\h1917000, \h1000, \h20000, 4),
   LINK_WRAP_H_CFG |-> Many(\h1918000, \h1000, \h20000, 4),
   LINK_NOC_CFG |-> Many(\h1919000, \h2000, \h20000, 4)]

\* The flash window also holds QSPI_CFG, its own controller.
MemoryBlocks ==
  [SRAM |-> Row(\h1e00000, \h20000, 2),       FEC_SRAM |-> One(\h1e40000, \h10000),
   DDR_CTRL_CFG |-> Many(\h2000000, \h100000, \h400000, 12),
   DDR_PHY_CFG |-> Many(\h2100000, \h100000, \h400000, 12),
   DDR_MISC_CFG |-> Many(\h2200000, \h200000, \h400000, 12),
   CE |-> Row(\h5e00000, \h100000, 2),        STM |-> One(\h6000000, \h1000000),
   FLASH_S |-> One(\h7000000, \h1000000),     QSPI_XIP_CFG |-> One(\h8000000, \h100),
   CS_CFG |-> One(\h40000000, \h1000000)]

QSPI_CFG == One(\h7000000, \h100)

Groups == {SystemBlocks, DisplayBlocks, PcieBlocks, VideoBlocks, GpuBlocks, NocBlocks,
           LinkBlocks, MemoryBlocks}

\* Every block as [first address, address after the last]
Block(family, i) == <<family.base + family.stride * i,
                      family.base + family.stride * i + family.size>>

Blocks == UNION {UNION {{Block(g[f], i) : i \in 0 .. (g[f].n - 1)} : f \in DOMAIN g} :
                   g \in Groups}
-----------------------------------------------------------------------------
(* Multi-instance macros: X_BASE(i) of an index beyond the last unit.      *)

\* ... is the last unit's
ClampedBase(family, i) == Block(family, IF i < family.n THEN i ELSE family.n - 1)[1]

\* ... is 0, the ROM
BaseOrZero(family, i) == IF i < family.n THEN Block(family, i)[1] ELSE 0

GPU_EATA_TF_CFG_BASE(i) == ClampedBase(GpuBlocks.GPU_EATA_TF_CFG, i)
GPU_EATA_GC_CFG_BASE(i) == ClampedBase(GpuBlocks.GPU_EATA_GC_CFG, i)
GPU_EATA_DS_CFG_BASE(i) == ClampedBase(GpuBlocks.GPU_EATA_DS_CFG, i)
VID_SS_EATA_TF_CFG_BASE(i) == BaseOrZero(VideoBlocks.VID_SS_EATA_TF_CFG, i)
VID_SS_EATA_GC_CFG_BASE(i) == BaseOrZero(VideoBlocks.VID_SS_EATA_GC_CFG, i)
VID_SS_EATA_DS_CFG_BASE(i) == BaseOrZero(VideoBlocks.VID_SS_EATA_DS_CFG, i)

\* The names that the GPU's own code has for its blocks
MC_BASE ==
  [AMF_MC |-> [i \in 0 .. 7 |-> \hb00000 + \h8000 * i],
   TZC_MC |-> [i \in 0 .. 7 |-> \hb01000 + \h8000 * i],
   EATA_TF_CFG_MC |-> [i \in 0 .. 7 |-> \hb02000 + \h8000 * i],
   EATA_CFG_MC |-> [i \in 0 .. 7 |-> \hb03000 + \h8000 * i],
   EATA_DESC_MC |-> [i \in 0 .. 7 |-> \hb03800 + \h8000 * i],
   MC_CFG |-> [i \in 0 .. 7 |-> \hc00000 + \h100000 * i]]
=============================================================================
