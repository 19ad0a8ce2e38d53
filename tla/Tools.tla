------------------------------- MODULE Tools --------------------------------
(***************************************************************************)
(* The programs of scripts/ that look at the hardware behind the driver's  *)
(* back, through /dev/mem.  They have their own idea of where the DMA      *)
(* engine's registers and lists are; here it meets the driver's.           *)
(*                                                                         *)
(* A visit is the window that a program maps and the runs of dwords that   *)
(* it reads or writes, both in addresses of the BAR it is given.           *)
(***************************************************************************)
EXTENDS RegSetup

CONSTANT Offsets    \* bound: the offsets in a page that devmem is called with

ASSUME ToolsAssumption == Offsets \subseteq 0 .. 4095

Visit(window, runs) == [window |-> window, runs |-> runs]

PCIE_MT_DMA_COMM == \h380000
PCIE_MT_DMA_CH == \h383000

channel_reg(base) ==
  Dwords(base, 5) \cup Dwords(base + \h50, 5) \cup Dwords(base + \hc4, 5)
    \cup Dwords(base + \h400, 8)

\* Faulty variant: the offsets of the read channel.
print_channel_reg_wr_rd(ch_base) == channel_reg(ch_base)

print_channel_reg_wr(ch_base) == channel_reg(ch_base + \h800)

print_channel_reg_rd(ch_base) == channel_reg(ch_base)

print_comm_reg(base, ch) ==
  Dwords(base, 1) \cup Dwords(base + \h10, 3) \cup Dwords(base + \h420, 3)
    \cup Dwords(base + \h620, 3) \cup Dwords(base + \hc00, 3) \cup Dwords(base + \hc20, 16)
    \cup At(base, {\h400, \h408, \h608, \hc70, \hc74, \hd00})
    \cup At(base + 4 * ch, {\h20, \h1000, \h1800, \h2000, \h2800})

print_comm_ch_secure(base) == Dwords(base + \h20, 64)
print_ch_osid(base) == Dwords(base + \h2000, 64)

\* Every loop ends one register before the last.
mtmda_reg_clean(ch) ==
  LET ch_base == PCIE_MT_DMA_CH + \h1000 * ch
  IN  {<<PCIE_MT_DMA_COMM, PCIE_MT_DMA_COMM + \hc74>>,
       <<ch_base, ch_base + \h41c>>, <<ch_base + \h800, ch_base + \hc1c>>}

\* mtdma_reg_dump_pf0 without and with its clean argument
DumpPf0(ch) ==
  Visit(<<0, \h2000000>>,
        print_comm_reg(PCIE_MT_DMA_COMM, ch) \cup print_comm_ch_secure(PCIE_MT_DMA_COMM)
          \cup print_ch_osid(PCIE_MT_DMA_COMM)
          \cup print_channel_reg_rd(PCIE_MT_DMA_CH + \h1000 * ch)
          \cup print_channel_reg_wr(PCIE_MT_DMA_CH + \h1000 * ch))

CleanPf0(ch) == Visit(<<0, \h2000000>>, mtmda_reg_clean(ch))

\* mtdma_reg_dump_vf, which ignores the channel it is given
DumpVf == Visit(<<0, 4096>>, print_channel_reg_rd(\h3000) \cup print_channel_reg_wr(\h3000))

\* devmem reads or writes 64 dwords from an address, here in the page at 0.
Devmem(offset) == Visit(<<0, 4096>>, Dwords(offset, 64))

\* dump_desc: where it looks for the list of a channel, in bytes from 2 GB.
desc_place(d, ch) == ch * 65535 * 32 * 2 + 65535 * 32 * d

DumpDesc(ch, n) ==
  Visit(<<0, \h20000000>>,
        {<<desc_place(d, ch), desc_place(d, ch) + 32 * n>> : d \in 0 .. 1})
-----------------------------------------------------------------------------
Inside(runs, block) == \A r \in runs : block[1] <= r[1] /\ r[2] <= block[2]

Mapped(visit) == Inside(visit.runs, visit.window)

Astray(ch) == ~Mapped(DumpPf0(ch)) \/ ~Mapped(CleanPf0(ch)) \/ ~Mapped(DumpDesc(ch, 65535))

Strayed == UNION {IF Astray(ch) THEN {ch} ELSE {} : ch \in VMs}

\* The registers that the driver uses for a channel, given its register address
\* in units of 0x800
ChannelBlock(info) == <<\h800 * info.rg, \h800 * info.rg + CH_REGS>>

CommBlock == <<PCIE_MT_DMA_COMM, PCIE_MT_DMA_CH>>

ListOffset(info) == \h200000 * (info.ll - LL_BASE)

\* What a program shows as a channel's registers, of either direction, the driver
\* uses for that channel and direction; cleaning a channel changes the common
\* registers and none of another channel.  The dump of lists is right for write
\* channel 0 alone, because it expects the lists of a channel side by side.  The
\* dump of a VF is the only one that always leaves the page it maps; devmem does
\* in the last 256 bytes of a page.
ToolsAgree ==
  /\ pf_info # <<>> => \A ch \in VMs :
       /\ Inside(print_channel_reg_wr(PCIE_MT_DMA_CH + \h1000 * ch),
                 ChannelBlock(pf_info[0][ch]))
       /\ Inside(print_channel_reg_rd(PCIE_MT_DMA_CH + \h1000 * ch),
                 ChannelBlock(pf_info[1][ch]))
       /\ \A r \in mtmda_reg_clean(ch) :
            \/ Inside({r}, CommBlock)
            \/ \E d \in 0 .. 1 : Inside({r}, ChannelBlock(pf_info[d][ch]))
       /\ \A d \in 0 .. 1 :
            desc_place(d, ch) = ListOffset(pf_info[d][ch]) <=> d = 0 /\ ch = 0
  /\ vf_info # <<>> =>
       /\ Inside(print_channel_reg_wr(\h3000), ChannelBlock(vf_info[1][0]))
       /\ Inside(print_channel_reg_rd(\h3000), ChannelBlock(vf_info[1][1]))
       /\ ~Mapped(DumpVf)
  /\ Strayed = {}
  /\ \A o \in Offsets : Mapped(Devmem(o)) <=> o <= 4096 - 256
=============================================================================
