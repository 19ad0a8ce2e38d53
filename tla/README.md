# TLA+ models of the MT emulation PCIe driver

This directory holds TLA+ specifications of the PCIe test driver in `driver/`,
TLC configurations that check them on small instances, and TLAPS proofs of the
properties that matter most. `PROJECT.json` lists every run, the source lines
that each definition models, the hazards and the findings.

## The system

The driver binds to the functions of an emulated GPU: a PF for the GPU
(`mt-emu-gpu.c`), one for the audio unit (`mt-emu-apu.c`) and the VFs
(`mt-emu-vgpu.c`). Each function has an `emu_pcie` and a misc device. User
programs (`test/`) map the BARs and call ioctls (`mt-emu-ioctl.c`).

| part | state | operations | shares state with |
|---|---|---|---|
| bare DMA transfers (`mt-emu-mtdma-bare.c`) | per channel: `int_mutex`, `int_done`, `int_error`, the registers; the merge mask of the PF | `MT_IOCTL_MTDMA_BARE_RW` → `dma_bare_xfer`; `emu_dma_isr` → `dma_bare_isr` | other callers of the channel, the engine, the handler |
| bare descriptor lists (same file) | list memory and registers of a channel | the loops of `dma_bare_xfer` | the engine that walks the list |
| interrupt path (`mt-emu-ioctl.c`) | `io_mutex`, `irq_lock`, `irq_test_mode`, `vec_num`, `irq_allocated`, `int_done[]`, the interrupt multiplexer | `pcie_th` and the handler of each kind of function, `irq_init`, `qy_free_irq`, WAIT_INT, TRIG_INT, IRQ_INIT, power ioctls | every ioctl of the function |
| BAR, configuration, power and ROM ioctls | `io_mutex`, the PCI power state, the copy of `pci_save_state`, the ROM enable bit | BAR_RW, CFG_RW, SUSPEND, RESUME, GET_POWER, READ_ROM, DMAISR_SET | each other |
| IPC (`MT_IOCTL_IPC`) | mailboxes, `int_mutex[]`, `int_done[]` | send a command, wait for the answer | the firmware, WAIT_INT, the interrupt path |
| dmaengine core (`mt-emu-mtdma-core.c`, `virt-dma.c`) | virtual channel lists, descriptor / chunk / burst trees, channel status | prepare, submit, issue, done and abort interrupts, terminate, tasklet | the client, the engine |
| dmaengine client (`mt-emu-mtdma-test.c`) | semaphores and completions per channel | `MT_IOCTL_MTDMA_RW` → `emu_dma_rw` | the core |
| probe, remove, AER | every resource of a function | probe, remove and error callbacks of GPU, VGPU and APU, SR-IOV | all of the above |
| channel layout and address translation | `mtdma_info` of PF and VFs, the windows of the iATU, the translations of the DMA engine | `build_dma_info`, `build_dma_info_vf`, `iatu_init` | PF and VFs, which reach the same channels |
| MMU tables (`mmu_init_pagetable.c`) | four levels of tables and the arrays that index them | `pcie_mmu_init` | the MMU |
| vmem allocator (`mm.c`) | two AVL trees of runs, tags on pages | init, alloc, free, info, exit | nobody: no caller |
| dmabuf device (`mt-emu-dmabuf.c`) | a reserved buffer, the file position | probe, remove, file operations | the PF; every thread that uses the descriptor |
| register set-up (`eata_api.c`, `mt-emu-intr.c`, `irq_init`, `mtdma_comm_init`) | the registers, at the places of `comm_define.h` and `reg_define.h` | loops of writes, in the order of probe | the handlers and the channels |
| debug tools (`scripts/*.c`) | none | dump and clean the engine's registers and lists through `/dev/mem` | the registers and lists, behind the driver's back |

What is hard to test here: a wait with a timeout beside a transfer that ends
late; a completion shared by consecutive callers; a merged interrupt that one
handler has to split; registers changed by read-modify-write from threads, handlers
and user programs; an initialisation that removes handlers while they run; a
descriptor list whose slots are computed in five different ways.

What makes each part correct:

- transfers: one caller owns a channel from programming to the end of its wait;
  no completion is lost; a success is the caller's own; every call returns;
  every interrupt bit is served;
- lists: every descriptor is where its predecessor points to, none overwrites
  another, together they cover the data once, the engine executes them all;
- interrupt path: every accepted trigger wakes one waiter; the mode and the set
  of handlers change consistently; nobody waits for ever;
- ioctls: the configuration space survives every order of power operations; an
  IPC that succeeds was answered; every call returns;
- dmaengine core: descriptors finish in order, each is called back once, the
  engine is never started while it runs; a success is the caller's own;
- lifecycle: what probe acquired is released once, on every error path, and not
  before its last user is gone; VFs live under a complete PF;
- layout: PF and VFs agree on the list of a channel, lists of different channels
  are disjoint, VFs reach their own memory only; a mapped page translates;
- register set-up and tools: each loop stays inside the unit it is meant for and
  off the registers of the others; a tool looks where the driver's channel is;
- file operations: no copy or mapping of theirs leaves its buffer or BAR, whatever
  threads that share a descriptor do to its position;
- vmem: the runs tile the pool, the trees stay balanced search trees.

## Modules

| module | models | extended by |
|---|---|---|
| `BareDma` | bare DMA transfers of one function | `MCBareDma` (TLC), `BareDmaProofs` (TLAPS) |
| `DmaDesc` | the descriptor list of one call, and the engine | `MCDmaDesc`, `DmaDescProofs` |
| `IrqPath` | the interrupt path of one function: GPU, VGPU or APU | `MCIrqPath`, `IrqPathProofs` |
| `Ioctl` | the other ioctls of one function, and the firmware behind IPC | `FileOps` |
| `FileOps` | the file operations of the function's and the dmabuf device, beside the ioctls | `MCIoctl`, `IoctlProofs` |
| `MtdmaChan` | one dmaengine channel, its client, handler and tasklet | `MCMtdmaChan`, `MtdmaChanProofs` |
| `DmaEngine` | what a dmaengine channel promises; `MtdmaChan` implements it | (INSTANCE in `MtdmaChan`) |
| `Sums` | the sum of a sequence | `MtdmaChan`, `SumProofs` |
| `SumProofs` | lemmas: the sum of a sequence after a step, the least number of a kind | `MtdmaChanProofs`, `LayoutProofs` |
| `Lifecycle` | probe, remove, SR-IOV and error recovery of the three drivers | `MCLifecycle`, `LifecycleProofs` |
| `AddrMap` | windows, translations and channel layout of PF and VFs | `RegSetup` |
| `RegMap` | the blocks of registers of every unit | `RegSetup` |
| `RegSetup` | the registers that each step of the set-up writes | `Tools` |
| `Tools` | what the debug tools map and touch | `Layout` |
| `PageTable` | the MMU's page tables | `Layout` |
| `Layout` | all five in the order of the PF's probe, then the VFs | `MCLayout`, `LayoutProofs` |
| `Vmem` | the range allocator | `MCVmem` |
| `MemPool` | what a range allocator promises; `Vmem` implements it | (INSTANCE in `Vmem`) |

Definitions named as a *faulty variant* are alternative forms of the definition
that follows them, with one plausible mistake. They are part of no
specification; each property is known to fail when one of them is used.

### BareDma

A thread goes through `dma_bare_xfer` in the order of the code: `Call` (the
ioctl selects the channel), `Lock` (`mutex_lock`, `reinit_completion`),
`Program` (registers and list), `Enable`, `WaitDone` or `WaitTimeout`,
`Unlock`, `Return` (which reads `int_error` after the unlock), `Leave`.
`HwStop` is the engine: it stops and raises a set of RAW bits. The handler is
split where another actor can come in between: `IsrEnterPf` (look at
`MRG_PF0_STS`, mask one direction), `IsrReadPf` (read the channel bitmap),
`IsrScan` (one channel; only a set DONE bit leads to `dma_bare_isr`),
`BareIsrRead`, `BareIsrAck`, `BareIsrComplete`, `IsrExit`. A VF enters with
`IsrEnterVf` and looks at its two channels.

The data of a transfer is the identity of its caller: `desc[c]` is whose
descriptors the channel holds, `run[c]` whose descriptors the engine executes.
A caller that stops waiting becomes `Stale` there. Two history variables are
added: `own` (what the engine raised for the thread's own request) and `clean`
(was the channel quiet when the thread locked it).

Undefined behaviour is a choice: in single mode `dma_bare_xfer` tests the
uninitialised `i`, so `Program` either programs the channel or leaves it as it
was. An engine that is enabled while it still runs may restart or ignore the
enable.

### DmaDesc

One pass of a loop is one step (`BeginBlock`, `GenSize`, `GenEnd`, `WriteDesc`);
then `EngineStart` and `EngineFetch` walk the list the way the registers are
documented: the descriptor in the registers first, then `lar`, for the number of
descriptors in LBAR_BASIC, with the number of the next block in `desc_op` at the
end of a block. Slots are counted in descriptors of 32 bytes, addresses as
offsets from the start of the data. `Word` and `CntMod` keep the widths of
`cnt` (32 bits) and of the count field (16 bits). The start of a block, `BlockStart`,
is the 32-bit product `j * size`.

### IrqPath

Sources are bits of SRC_SOFT, targets are vectors; `Route` is what `irq_init`
writes to INT_MUX_ENABLE. `Asserted` is the level of a target. The handler of a
vector goes through `ThEnter`, `ThLock` (`irq_lock`, target masked), then
`ThDma` in work mode, `ThSoft` for the soft bit of the target, or `ThMutex`,
`ThClaim` / `ThClaimError`, `ThClear`, `ThRestore` for a source; then
`ThComplete`, `ThExit`. `ThMutex` finds `io_mutex` free. A handler that finds it taken
sleeps in a hard interrupt, with `irq_lock` held: it is `Blocked` (`ThBlock`), and
`ThWake`, which nothing obliges to happen, is the case that it goes on after all. IRQ_INIT is `InitLock`, `FreeIrq` / `FreeSync` per
vector (`free_irq` removes the handler, then waits for it), `FreeVectors`,
`AllocVectors`, `RequestIrq` per vector, `Reinit`, `InitUnlock`; allocation and
`request_irq` may fail. `BarSoft` and `BarClear` are the user's writes through
the BAR that the tests use. `conf`, chosen at the beginning and never changed, says
what kind of function it is, in which mode probe or an earlier IRQ_INIT left it and
which ioctls each thread calls; `Confs` is the set of these that a run
covers. `owed` is a history variable: interrupts accepted and not yet waited for.
An APU has one vector, keeps its mask in TARGET_SOFT (so that its handler takes any
set bit there for the soft interrupt, `SoftRaised`) and gets its interrupts from
the user's writes (`BarRaise`) only.

### Ioctl

A thread enters with one of the requests of `mix`, goes through the branch of
`mt_test_ioctl` and comes back to `idle`. The steps end where another thread can
interfere: at a lock, in a loop over dwords, in a wait. CFG_RW has no `break`: its
thread goes on into `Suspend` with the size as the power state. Every write of a
configuration dword puts a new number there, and 0 is its reset value, so that a newer
value, an older one and none can be told apart; `last`, `unsaved` and `lost` are
history: the last write of each dword, the dwords written since the copy was made, and
those whose last write was undone. `PowerAfter`, `pci_save_state` and
`pci_restore_state` are the kernel's. A loop of BAR_RW or CFG_RW counts in `i` how far
into its buffer it has gone, beyond its end too (`Access`, `TailByte`).
`Answer` is the firmware, `Handler` the part of `pcie_gpu_th` that counts the
response (IrqPath has the rest); in test mode it takes `io_mutex`, and sleeps on it if
a power ioctl holds it (`HandlerBlock`, `HandlerWake`). `irqs` and `mark` are history.

### FileOps

`FileOps` adds the system calls that are no ioctls, on one descriptor of each device
that all threads share, as `mt_pcie_f.c` of the test library does. A read or a write
of the dmabuf device is two steps (`TransferBegin`, `emu_dmabuf_read`), because the
kernel takes the position without a lock and writes it back afterwards, so that a
seek in between can be undone. `touched` is history: what the last copy or mapping
reached, and the size of what it was made in.

### MtdmaChan and DmaEngine

`MtdmaRw` … `LoopEnd` is `emu_dma_rw`: request the channel, map the pages, take the
semaphore, then per round `Begin`, `Prep`, `vchan_tx_submit`,
`mtdma_device_issue_pending`, `WaitDone` / `WaitTimeout` and `terminate_all`, which
takes no lock and so is four steps. `IsrRead`, `mtdma_done_interrupt`,
`mtdma_abort_interrupt`, `AbortReset` are `mtdma_isr`; `Splice` and `Callback` are
the tasklet `vchan_complete`. A descriptor is its cookie; `chunks` is what is left
of it to start. `moved`, `called` and `mishap` are history. So is `heap`, the number
of objects that prepare allocated (descriptor, chunks, bursts) and nobody freed yet;
a preparation that runs out of memory frees what it has. `mtdma_device_tx_status`
changes nothing: it is the operator `tx_status`, which `StatusTruthful` compares with
what really happened to the descriptor.

`dma_request_chan` gives a caller the first free one of the 64 channels of a
direction (`mt-emu-gpu.c:556`), whatever number the user named, while the semaphore and
the completion are those of the number (`mt-emu-mtdma-test.c:137-138`). The module
follows the calls that find one channel. Those that name the same number and find
another are `Others`: `OthersDown` and `OthersUp` are a whole call of theirs between
`down_interruptible` and `up`, which the calls of this channel wait for in `Down`, and
`OthersCallback` is the callback of a wait that one of them gave up, which completes
whoever waits now. A signal may end the sleep in `Down` (`DownInterrupted`, lines
210-214). Only when all channels are taken, or the free one is still busy, does
`dma_request_chan` return an error pointer; `emu_dma_rw` tests for NULL, so such a
caller ends in `oops`, from where it does nothing more.

In this tree `emu_dma_isr` does not call `emu_mtdma_isr`; the model is the core as
its interrupt entry is meant to be used (`DRIVER_CODE_OVERVIEW.zh-CN.md:557`).

`DmaEngine` is the abstract channel: descriptors are submitted, issued, finished in
order and called back once. `EngineRefined` maps its four queues to the lists of the
virtual channel, with the tasklet's private list and `desc_completed` together as
`finished`.

### Lifecycle

A probe is a sequence of steps, each with the resource it acquires and what its
failure leads to; a free function is a sequence of releases. `StepOk`, `StepFails`,
`FreeStep` take one step at a time, so users (`Open`, `Close`), VFs, AER callbacks
and writes to `sriov_numvfs` (`sriov_configure`) come in between. `Devres` is what the
driver core releases by itself. An open file keeps the module loaded; an
unbind through sysfs, which does not wait for it, is left out. `failed` and `stray`
are history: the properties say exactly which failures lead to which leaks.

### AddrMap and PageTable

Addresses are counted in units of 2 MB (the size of one list) and of 4 KB (a page);
constants have the values of the headers. `gen_page_desc` is one step per page, with
the arrays that remember which entry is known; `va_size`, which the code never
assigns, is any value. `Walk` is the MMU's translation, from the field widths the
tables are written with.

### RegMap, RegSetup, Tools and Layout

`RegMap` has a family of equal blocks per unit (`Many`, `Row`, `One`) and the macros
that find the i-th. `RegSetup` has a *bank* per loop or run of writes: the BAR it
goes through, the runs of dwords it writes and the unit it is meant for. The next
registers that the handlers and the channels use are banks too, so that `Clashes`
also finds a set-up that writes one of those. `Tools` has a *visit* per program: the
window it maps and the dwords it touches in it.

`Layout` takes the steps of the GPU's probe in their order (`phy_init`, `eata_init`,
`SetupWindows`, `pcie_intr_init`, `irq_init`, `mtdma_comm_init`, `SetupChannels`,
`pcie_mmu_init`, `ProbeVf`) and collects in `done` the banks written so far. The calls
of `iatu_init`, `pcie_intr_init` and `pcie_mmu_init` are commented out in this tree
(`mt-emu-gpu.c:520`, `522`, `578`) and the `*_eata_init` functions of `eata_api.c`
have no caller, so each of these steps may be left out as well. `Isolated` is a
conjunction of parts, each with the number of VFs up to which the memory map and the
50 windows have room for it.

### Vmem and MemPool

The trees are records with their children inside; every function of `mm.c` is an
operator, the rotations included. `MAKE_KEY` keeps its width (`KeyLo`, `KeyHi`). A
failed ASSERT loops for ever: `hung`. `MemPool` says what callers rely on: a
grant is a run of pages nobody holds, a refusal means that no run is long enough, a
free gives back one whole run, granted at an address that MAKE_KEY does not tell from
the one freed.

## Runs

Deadlock is checked except where the program ends: `desc` and `layout` (a finished
set-up), `lifecycle`, `mtdma` and `ioctl` (all probes or calls of the bound are made).

| run | instance | shows |
|---|---|---|
| `bare_pf` | PF, no VFs, one thread, both directions, DONE, error or both | `NoLostDone` and `ReadDoneAcked` behind the merged interrupt |
| `bare_vf` | VF, two threads on one channel, chain and single mode, DONE, error or both | `RegistersOwned`, `OwnDone`, `NoReprogram`, and `XferReturns` whatever the engine does |
| `desc` | fixed sizes 1-9, 1-5 descriptors, 0-3 blocks; every sequence of random sizes 2 and 3 for up to 9 bytes, 0-3 blocks; both memories | `TypeOK`, `Linked`, `NoOverwrite`, `ChainTiles`, `EngineFollows`, `Covers` |
| `irq_safe` | six configurations: PF, VF and APU in test mode, PF and APU in work mode under IRQ_INIT, VF that switches modes | `Conserved`, `NoLeakedVector`, `InitDone`, `ModeStable` |
| `irq_live` | VF in test mode; VF in work mode under IRQ_INIT with an interrupt that never goes away | `SrcServed`, `ReturnsUnlessBlocked` |
| `ioctl` | two threads, two calls each, from the power, IPC, both of these, data, buffer and mapping requests; test and work mode | `Restorable`, `IpcFresh`, `AccessInside`, `CallReturns` |
| `mtdma` | one client and others with its channel number, three rounds of two chunks, errors, timeouts, one failing allocation | `HwOwned`, `OwnSuccess`, `StatusTruthful`, `HeapExact`, `RwReturns`; `EngineRefined`: the channel implements `DmaEngine` |
| `lifecycle` | a GPU probed twice with a VF, a GPU whose VF is probed twice, an APU probed twice | `UsersCovered`, `NothingLeft`, `StraysKnown`, `VfsUnderPf` |
| `layout` | 0, 14 and 60 VFs, 32 vectors, all 64 channels, every page size, every `va_size`, six pages | `RegistersApart`, `ToolsAgree`, `ListsApart`, `Isolated`, `NewestWalks` |
| `vmem` | pools of four pages (as large as MAKE_KEY keeps) and of six (larger); sizes from 0 to six pages; any page address freed, and 4 GB to either side of it | `Partition`, `TreesSound`; `PoolRefined`: mm.c implements `MemPool` |

Two runs are expected to fail; each shows a disagreement between the code and
what a document or a test says of it:

| run | property | what happens |
|---|---|---|
| `bare_late` | `SuccessIsOwn` | the late completion of a call that timed out completes the next call |
| `irq_init_hang` | `IoctlReturns` | IRQ_INIT and a test-mode handler wait for each other, even if handlers could sleep |

### Known deviations

Other places where the code falls short of its documents or tests; the properties
above name them as exceptions and are claimed without them:

- an interrupt without DONE never reaches `dma_bare_isr` (`mt-emu-ioctl.c:646`):
  errors of bare transfers are neither reported nor cleared;
- the write branch of `emu_dma_isr` is an `else` of the read branch (line 658), so a
  read channel that stays pending starves the write channels: `bare_pf` claims
  `ReadDoneAcked` only;
- with VFs the PF's ioctl uses channel 0, which `mtdma_comm_init` masks out of the
  PF's interrupt (`mt-emu-mtdma-bare.c:60`);
- block 0 of a random block list does not advance its addresses (line 540);
- block `j` starts at `sar + j * size`, a product of 32 bits (lines 615-616): from
  4 GB on it wraps, the blocks overlap and the end of the range is not transferred.
  `Covers` says so: from its start every block is transferred whole, and the
  blocks are the whole range only if no start has wrapped;
- the error returns of `pcie_gpu_th` and `pcie_apu_th` leave the target masked
  (`mt-emu-ioctl.c:785-799`, `728-741`);
- a test-mode handler takes `io_mutex` in a hard interrupt and under `irq_lock`
  (`mt-emu-ioctl.c:722`, `779`, `852`), where it cannot sleep. If it has interrupted a
  power ioctl that holds the mutex (lines 298-315), neither goes on. `SrcServed`,
  `ReturnsUnlessBlocked` and `CallReturns` are claimed of the behaviours in which no
  handler stays asleep;
- CFG_RW falls through into SUSPEND (line 295), SUSPEND with D0 leaves D3hot and
  restores nothing, a failed `copy_from_user` loses the buffer (lines 226, 277);
- CFG_RW writes without `io_mutex` (lines 283-285): a RESUME of another thread between
  a write and the SUSPEND that follows it puts back the older value (line 306), and
  the write is lost. `Restorable` claims every other write;
- the loops of BAR_RW and CFG_RW take whole dwords (lines 209, 231, 260, 283), so a size
  that is no multiple of four reads or writes up to three bytes beyond the buffer and
  beyond the user's range of the BAR; after whole dwords the read of CFG_RW goes on by
  one byte (line 267, `<=`). `AccessInside` bounds the overrun by a dword. The offset
  into the BAR is not checked at all, and the model leaves it out;
- a fast IPC answer is wiped by `reinit_completion` (line 438), the DSP's mailbox is
  never written, and in work mode nobody completes `int_done`;
- a STOP that `terminate_all` writes after the completion blocks the dmaengine
  channel; an abort and a failed preparation look like a success to `emu_dma_rw`;
- the semaphore and the completion of `emu_dma_rw` belong to the number that the user
  names, not to the channel that it gets (`mt-emu-mtdma-test.c:137-138`): the late
  callback of a call on another channel completes the wait of a call on this one.
  `OwnSuccess` counts such a time-out like one of its own. When no channel is free the
  test for NULL (line 143) misses the error pointer;
- an engine that raised DONE and ABORT at once would have `mtdma_isr` call both of its
  handlers: the first starts the next chunk, the second takes the descriptor off its
  list while the engine runs. `HwOwned` and `OwnSuccess` are claimed for one at a time;
- `ret` is 0 when `emu_dmabuf_probe` or `emu_mtdma_init` fails: the device stays
  bound without drvdata, AER callbacks dereference it and VFs can be enabled;
- the APU frees `emu_pcie` before it deregisters the miscdev inside it; a failed
  `ioremap` of the buffer loses its region; a VF's dma_device is never unregistered;
- lists lie at 2 GB, not where `mt-emu-drv.h:60-65` puts them. VF memory keeps off
  the page tables up to 14 VFs, off the lists up to 44, inside the device's memory and
  off the APU's up to 47, and off another VF's up to 48: the parts of `Isolated` have
  these limits, and none reaches the `VF_NUM` of 60 this tree is built with;
- with more than 48 VFs `iatu_init` gives windows 48 and 49 to VFs
  (`mt-emu-gpu.c:331-332`) just after it gave them to the APU and the PF (`322-323`):
  the one overlap that `RegistersApart` allows, from 49 VFs on;
- the inbound windows of all VFs have the same target, `LADDR_VGPU_BASE`
  (`mt-emu-gpu.c:332`), which is VF 0's memory (and 0 with 60 VFs). Whether the
  controller adds an offset per VF is not in the code, so `Isolated` says what the VFs'
  DMA translations reach, and of their windows that each VF has one with that target;
- a VF's host lists are offsets from NULL (`mt-emu-vgpu.c:346`);
- only the newest page of the MMU's tables translates (of 2 MB and more only the
  first): the PR level stores the address of the PC entry
  (`mmu_init_pagetable.c:254`);
- MAKE_KEY keeps 32 bits of an address (`mm.h:29`): `vmem_free` of an address that is
  4 GB off frees the run all the same, and in a pool of more than 4 GB two allocated
  runs can have one key, of which `vmem_free` takes the one that it meets first.
  `TreesSound` claims unequal keys of allocated runs for pools of up to 4 GB, and
  `PoolRefined` that what is given back starts at the address or a multiple of 4 GB
  from it;
- `vmem_init` clears one bit of the size instead of rounding it (`mm.c:432`);
- `dump_desc` looks for the lists of a channel side by side, at multiples of
  65535 descriptors; the driver has 2 MB per list and all write lists first, so the
  dump is right for write channel 0 only. `mtdma_reg_dump_vf` maps 4096 bytes and
  reads from 0x3000 on; `devmem` reads 64 dwords, past the end of what it maps in the
  last 256 bytes of a page. The clean option of `mtdma_reg_dump_pf0` also zeroes the
  channel number and the merge masks, which only probe writes, and each of its loops
  ends one register early. `ToolsAgree` says exactly this;
- TARGET_MASK is no multiple of four: the dword that the handler reads, modifies
  and writes covers the SOFT byte of the next target (`mt-emu-ioctl.c:765`);
- in `comm_define.h` LINK_WRAP_CFG_LIMIT lacks its parameter (line 839) and two
  macros name others that do not exist (line 917, LLC_WARP_0_0); QSPI_CFG lies
  inside FLASH_S; the bases of the video units are 0, the ROM, for an index out of
  range where those of the GPU are the last unit's. No code of the driver gets there.

### Bounds

Two threads on one channel, or one thread on two, are enough for the properties
of BareDma: each speaks of one caller and one channel, and a second thread or
channel is everything that can interfere (another caller of the channel, another
channel in the merged interrupt). The invariants are proved for any number of both.

DmaDesc has four slots per 1024 bytes instead of 32, a
count field of 5 values instead of 65536 and 16 values in a word, so that
padding of every length, a count at and beyond its limit, a wrap of `cnt - 1` and
block starts on either side of the word all occur.

In IrqPath two vectors make handlers compete for `irq_lock` and
`io_mutex`; `MaxOwed` bounds the completions that pile up when nobody waits, and
`VfReset` is 1 in place of 4 so that a VF has sources which `irq_init` resets
and others which it does not.

In Ioctl two dwords separate what a write has reached from what it has not; the
sizes reach one dword, two dwords, one and a half and the limit. Two threads with
two calls each let a third party's call meet each of the pairs that share a mutex.

MtdmaChan has one client of the channel at a time, because dmaengine gives it to one
only; the others share `MaxRounds` with it. Three bursts at
`LlMax` = 2 make a full and a rest chunk, and three rounds let a late interrupt of
the first meet the second and its consequence the third, or a late callback of
another client a round of this one. The second call meets what the first one left.

In Lifecycle a function is probed twice so that what the first probe
lost meets the second; one open file is enough to outlive a resource.

In FileOps the buffer has two pages of two units, so that a position or a count can
be inside, at and beyond its end, and a mapping whole or not.

In Layout no VF is the smallest number, 14 the largest for which `Isolated` claims all
its parts, and 60 the `VF_NUM` of this tree, where the VFs' windows meet those of the
APU and the PF. The limits in between are left to the proof, which is for every
number. With page tables in memory one VF is probed (`VfsBeside`): the probe of a VF
touches no table, and where there are no tables every number of them is probed. A VM
shows three of its translations, of which the code sets one. 32 is
the most vectors that `irq_init` accepts for a GPU; the registers it writes for fewer
are among those it writes for 32. The channels are all there. The
offsets of `devmem` are those on either side of its limit. The
index of the page arrays wraps after four pages instead of 256, so that six pages
wrap it. Vmem's six pages give trees of three levels and all four rotations. `KeyHi`
is four pages in place of 4 GB: one pool is just as large, and in the other the first
and the last two pages have the same keys; the addresses of both lie above it.

### Fairness

A thread in the driver and a handler that has begun run on (weak fairness); the
timer of a wait fires; an interrupt that stays asserted is delivered. Mutexes
and spin locks are strongly fair for threads: Linux hands a mutex to its first waiter
after a bounded time and its spin locks are queued. A handler that sleeps on `io_mutex`
is owed nothing, and the liveness properties have the premise that it does not sleep
for ever; only `irq_init_hang` lets it wake fairly, which is more than Linux promises,
and still finds the hang. No engine is required to stop, no
user to make a call, and no claim of a source to be fair, which is why `SrcServed`
is checked with one source per vector. In Ioctl and MtdmaChan the threads, the
handler and the tasklet are weakly fair and nothing else is: the firmware and the
engine may be silent for ever, and no signal need come. Whoever holds the semaphore of
a channel number releases it (`OthersUp`), because every wait in between has a timeout.
A mutex needs no more there, because the calls of a thread are bounded.

## Proofs

The modules below prove every safety property that the passing runs check, but for
those of Vmem.

`BareDmaProofs` proves for every set of threads and channels, PF or VF, every
request and every outcome of the engine: `TypeCorrect`, `RegistersAreOwned`,
`DoneIsNotLost`, `SuccessOfCleanCall` and `RunningIsNotReprogrammed`. They rest on
`ConstantsAssumption` only. `RegistersOwned` is not inductive: it needs that the
holder of `int_mutex` is the only thread between `Lock` and `Unlock`
(`MutexHeld`), and that descriptors of a thread are only in its own channel and
only while it holds it (`DescOwner`, `RunOwner`). `OwnDone` needs that a clean
call sees no completion but its own: while it waits without having been served,
the counter, RAW and the handler are all empty for the channel (`CleanCall`),
and that what the engine raised is forgotten between calls (`Fresh`). The
inductive invariant `IInv` is the conjunction of these parts; `HandlerFrame` and
`FrameInv` dispose of the steps of the handler that leave a channel alone.

`DmaDescProofs` proves for every call, word size, alignment and count width:
`TypeCorrect`, `ListIsLinked`, `SlotsAreDistinct` and `ChainIsTiled`, from
`ParametersAssumption`. The argument: before every write the slot to be written
is the `lar` of the last descriptor (`Linking`), slots ascend (`Ascending`), the
position is the end of the last descriptor and the rest is what is left
(`Tiling`, with `Sizes` for the two ways of computing sizes).

`EngineFollowsList` and `EveryByteIsCovered` say what the engine does with such a
list, without induction along it: one invariant covers the steps that build the list
and those in which the engine walks it. `FollowInv` knows the count field of each
descriptor written (`Counting`), and that the engine has fetched a prefix of the list and is left with
exactly the descriptors up to the end of a block (`Following`). `CoverInv` says which
bytes of each block the list covers when `j` blocks and `i` descriptors are written
(`Covering`, with `Remaining`, how much of the current block is left); `BlocksTile`
then puts the blocks together where no start has wrapped.

`IrqPathProofs` proves `TypeCorrect`, `NoVectorLeaks`, `InitIsComplete`,
`ModeIsStable` and `Conservation` for every number of threads, vectors and sources,
every set of configurations, and every failure of an allocation or of `request_irq`.
The invariants are about single places of `irq_init`, so the proof needs that one
thread at a time is in it (`Locked`: who is inside a critical section holds its
lock), how far each of its loops has come (`Progress`), that the bitmap
`irq_allocated` differs from the handlers that exist only by the vector that
`free_irq` is waiting for (`Allocated`), and that a handler which runs is in the
bitmap (`Handled`). For `Conserved`, `CountInv` adds what each handler has claimed
(`Claimed`) and that TRIG_INT, which reads SRC_SOFT before it writes it back, still
finds the bit clear that it read as clear (`TrigFresh`). The last holds because
everyone who sets a bit takes `irq_lock`, except a user who writes SRC_SOFT through
the BAR. `Conservation` therefore has the hypothesis `RaisedByKind`: only users of
an APU, which has no TRIG_INT, raise through the BAR. A user of a GPU who did both
could have one interrupt counted twice. The configurations of `irq_safe` satisfy it.

`IoctlProofs` proves `ConfigRestorable`, `IpcAnswersAreFresh` and
`AccessStaysInside` for every number of threads, calls, dwords and targets and every
set of requests. All rest on `CallInv`: the place of a thread belongs to the request
it entered with, but for CFG_RW, which falls through into SUSPEND. `Restorable` needs
that whoever suspends or resumes holds `io_mutex`, that the copy of `pci_save_state`
exists whenever the function is not in D0 and has the last write of every dword that
was not written since, and that only a RESUME under way sees another value in the space
(`PowerInv`). `IpcFresh` needs that who waits for a target holds its
`int_mutex`, and that no more completions are there than interrupts since its
`reinit_completion` (`IpcInv`). `FileInv` needs only that the kernel never hands a
negative position to `read` or `write`, `LoopInv` that a loop begins at zero. `IoctlAssumption` and `FileAssumption` say
that request names are not names of places and that offsets are integers, and those
of `mmap` not negative.

`MtdmaChanProofs` proves the refinement `EngineIsRefined` for every number of
clients, rounds and chunks and every behaviour of the engine, also with time-outs and
failed allocations: each step is one of `DmaEngine` or changes none of its lists. A
descriptor is its cookie, so the proof needs that cookies are given in the order of
submission: `ListInv` counts the descriptors on all lists together, with at most one
client between allocation and submission (`OneClient`, `Numbered`). `EngineIsOwned`
and `SuccessIsOwn` need in addition all stations of a round (`RoundInv`): where the
descriptor is, which chunks of it are left and how much of it has been moved, for each
state of engine, handler and tasklet while its thread waits. They have the
hypothesis `OneAtATime`, under which the known deviation above does not arise; the run
`mtdma` satisfies it.

Other clients of the channel number come in at `LateInv`: as long as no wait timed out,
theirs included, none of them has left a callback behind.

`HeapIsExact` and `StatusIsTruthful` have no such hypothesis: they hold with errors,
time-outs and failed allocations, for every size of a chunk and every length of a
scatterlist. Both need `Order`: the lists of the channel, one after the other, are the
cookies from 1 on without a gap. `HeapExact` compares the heap with a sum over all
descriptors, and each step changes, appends or drops one term of it. `SumProofs` has
what that needs: the recursive function of `Sums` obeys its equation (`PartialIs`), and
the sum follows from it when a term is appended, taken off or changed. The induction
there is over an interval of numbers: the numbers of it that lack the property have a
least one (`Least`, `Climb`), from the well-foundedness of inclusion on finite sets.
`StatusTruthful` needs the stations of a round (`Rounds`) as long as there was no
mishap; after one, only its first half is claimed and only `Order` needed.

`LifecycleProofs` proves `TypeCorrect`, `UsersAreCovered`, `NothingIsLeft`,
`StraysAreKnown` and `VfsAreUnderPf` for every machine, any number of probes and of
open files. `NothingLeft` speaks of unbound functions only; `LInv` says of each phase
what is held there: during probe the results of the steps done so far (`Probing`),
when bound everything, or little if the probe failed silently (`Settled`), and on the
way out only what the steps to come, devres or a known leak account for (`Releasing`).
`UsersCovered` needs from the same conjunct that the interrupts are released before
what their handler uses (`Ordered`), and that `emu_pcie` outlives the misc device of
the GPU and the VGPU.

`LayoutProofs` proves `ListsAreApart`, `VfsAreIsolated`, `ToolsDoAgree`,
`NewestPageWalks` and `RegistersAreApart` for every order and
omission of the set-up steps the model has, every number of vectors, page size and
pool. The channels of PF and VFs are entries of one table indexed by direction and
channel (`ChannelInv`, `UsedSlots`), in which two entries with one list are the same
entry (`SlotsDiffer`); that holds for every number of VFs up to the 64 channels.
`Isolated` needs that no clearing of the translations comes after they are set
(`WindowInv`, which says where each VF's one descriptor leads), and that every entry of
the page tables is in one of their pools whatever the arrays that share them lead to
(`PtInv`). What a VF reaches is then one place (`VfPlace`), and each part of the
property is arithmetic on that place, up to the part's own number of VFs
(`VfMemoryApart`, `VfsMemoryApart`). The theorem is for every number of VFs that the
64 channels allow. Its
hypothesis `ByteIndices` is at most 256 page indices, the width of the code's
`uint8_t`, which bounds the tables. That `BaseOf`, the
first entry with an address, is defined rests on `Least` of `SumProofs`.

`ToolsDoAgree` compares the registers of each tool with those of the channel in the
same table (`ChannelRegs4`, `Entries`), for the PF and for every VF that was probed,
and needs no hypothesis.

`NewestPageWalks` speaks of the page set up last, but its tables are those that all
earlier pages wrote to. `WalkInv` says what they hold: every entry in the PD and the PT of an
index leads to that index's own pages (`Holds`), and what their arrays have noted is in
memory (`Finds`), so that a new page overwrites only what leads to the same place; the
PC entry of the current block of addresses is noted in slot 0 of its array and nowhere
else (`TopFound`), and a PR entry that was noted is never found again. The shared PC entry
changes only where the index begins again at 0. That is where the hypothesis is:
`Aligned` says that the number of indices is a power of two up to 1024. The code's is
256, the number of values of a `uint8_t`, and the run's is 4.

`RegistersAreApart` places every bank of registers (`PlaceAt`): the BAR, the first
address it may write and the address after the last. `BankFits` proves that every
register of the bank is in its place and the place in the bank's unit, by one lemma
per kind of loop, for every number of VFs, vectors, units and descriptors;
`PlacesApart`, that two places share no address. The one exception is the outbound
windows of the translation unit, which alternate with the VFs' inbound ones and are
compared register by register (`WindowsApart`). `DoneInv` says which banks can have
been written together, those of one number of VFs and one number of vectors.
`BlocksAreApart` does the same for the register map itself: the groups of blocks
follow each other (`Extents`), and within a group every two blocks are compared
(`Settled`). There is no hypothesis: with more than 48 VFs the place of the VFs'
windows meets that of the APU's and the PF's, which is `VfsTakeWindows`, the only
exception in the property; and `mtdma_eata_desc_en` leaves the VMs that
`mtdma_eata_desc_init` clears but not its unit (`PlaceDmaVf`).

### Only model-checked

- All liveness (`XferReturns`, `ReadDoneAcked`, `SrcServed`, `ReturnsUnlessBlocked`,
  `CallReturns`, `RwReturns`) and the fairness it needs.
- Vmem: its trees need RECURSIVE operators, which the prover does not support;
  `Partition`, `TreesSound` and the refinement `PoolRefined` stay with TLC.

## Not modelled

- Single translations of the GPU and the video units (`gpu_eata_desc_en` and its like),
  `resize_pcie_bar`, `resize_fb_bar`, `map_pci_rom_bar` and the outbound debug buffer:
  nothing calls them.
- Pause and resume of a dmaengine channel and lines 168-228 of `mt-emu-vgpu.c` are
  under `#if 0`; `mtdma_remove` is never called.
- Registers of units that the driver does not touch (most of `reg_define.h`,
  `module_reg.h` and `qy_intd_def.h`): constants without behaviour, more than half of the
  lines of the driver directory. `RegMap` has the blocks they lie in.
- Log messages, the `show_*` attributes, `chan_id` (used for messages only), dummy
  reads, and the contents of the data.
- The user's writes of the routing registers INT_MUX_ENABLE. Interrupts are levels:
  an MSI is sent again when a target is unmasked while it is asserted.
- Tests and the shell are users of the driver, read for what they expect of it; the
  shell scripts load modules and start machines. letter-shell, cJSON, spdlog and
  catch2 are third-party code.

## Plan

1. The PF and a VF on one channel: two instances of BareDma with their own mutexes.
2. Unbind through sysfs beside an open file.
