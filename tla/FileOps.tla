------------------------------ MODULE FileOps ------------------------------
(***************************************************************************)
(* The other system calls on the devices, beside the ioctls of module      *)
(* Ioctl: the file operations of the function's device (mt-emu-ioctl.c)    *)
(* and of the dmabuf device (mt-emu-dmabuf.c), on one descriptor of each   *)
(* that all threads share, as the test library does.                       *)
(*                                                                         *)
(* The buffer counts units of which a page has PageSize; nothing is said   *)
(* of the bytes.  A request for these calls is [cmd, b0, rw, d0]: b0 is    *)
(* the offset of lseek or the page offset of mmap, rw the whence of lseek, *)
(* d0 the count, in units or in pages.                                     *)
(***************************************************************************)
EXTENDS Ioctl

CONSTANTS PageSize,
          BufSize,      \* MTDMA_BUF_SIZE
          RegionSize    \* the sizes of region[0] .. region[6]

BAR_0 == 0
BAR_2 == 2
BAR_4 == 4
ROM == 6

ASSUME FileAssumption ==
  /\ PageSize \in Nat \ {0} /\ BufSize \in Nat
  /\ RegionSize \in [0 .. 6 -> Nat]
  /\ \A r \in UNION Mixes : /\ r.cmd = "LSEEK" => r.b0 \in Int
                            /\ r.cmd = "BUF_MMAP" => r.b0 \in Nat

VARIABLES fpos,      \* f_pos of the dmabuf file
          ppos,      \* of each thread: the position its read or write works on
          touched    \* history: what the last copy or mapping reached,
                     \* [first, n] of [size]

files == <<fpos, ppos, touched>>

Nothing == [first |-> 0, n |-> 0, size |-> 0]

FilesInit == fpos = 0 /\ ppos = [t \in Threads |-> 0] /\ touched = Nothing

Pages(size) == (size + PageSize - 1) \div PageSize

\* A system call that begins and ends here
Call(t, cmd) ==
  /\ Goto(t, cmd, "idle")
  /\ UNCHANGED <<req, i, ok, calls, locks, buffers, pci, ipc, rest, ppos>>
-----------------------------------------------------------------------------
\* open, release, read and write of a function's device do nothing.
mt_test_open(t) == Call(t, "OPEN") /\ UNCHANGED <<fpos, touched>>

\* The page offset names the BAR, and the mapping begins at its start.
mt_test_mmap(t) ==
  /\ Call(t, "BAR_MMAP") /\ UNCHANGED fpos
  /\ \/ /\ req[t].b0 \in {BAR_0, BAR_2, BAR_4, ROM}
        /\ req[t].d0 <= Pages(RegionSize[req[t].b0])
        /\ touched' = [first |-> 0, n |-> req[t].d0, size |-> Pages(RegionSize[req[t].b0])]
     \/ /\ \/ req[t].b0 \notin {BAR_0, BAR_2, BAR_4, ROM}
           \/ req[t].d0 > Pages(RegionSize[req[t].b0])
        /\ UNCHANGED touched

\* The position may go anywhere, also below zero.  SEEK_END stays where it is.
emu_dmabuf_llseek(t) ==
  /\ Call(t, "LSEEK") /\ UNCHANGED touched
  /\ fpos' = CASE req[t].rw = "SET" -> req[t].b0
               [] req[t].rw = "CUR" -> fpos + req[t].b0
               [] OTHER -> fpos

\* read and write: the kernel reads f_pos without a lock and refuses one below
\* zero before it calls the driver.
TransferBegin(t) ==
  /\ pc[t] = "RW_BUF"
  /\ IF fpos < 0
     THEN Goto(t, "RW_BUF", "idle") /\ UNCHANGED ppos
     ELSE Goto(t, "RW_BUF", "copying") /\ ppos' = [ppos EXCEPT ![t] = fpos]
  /\ UNCHANGED <<req, i, ok, calls, locks, buffers, pci, ipc, rest, fpos, touched>>

\* Faulty variant: the count is clipped to the size of the buffer.
Clipped_size(pos, count) == IF count > BufSize THEN BufSize ELSE count

\* emu_dmabuf_read and emu_dmabuf_write clip the count and leave the position
\* alone, which the kernel then writes back, unless the copy faulted.
Clipped(pos, count) == IF pos + count > BufSize THEN BufSize - pos ELSE count

emu_dmabuf_read(t) ==
  /\ Goto(t, "copying", "idle")
  /\ IF ppos[t] >= BufSize
     THEN fpos' = ppos[t] /\ UNCHANGED touched
     ELSE /\ touched' = [first |-> ppos[t], n |-> Clipped(ppos[t], req[t].d0), size |-> BufSize]
          /\ fpos' \in {ppos[t], fpos}
  /\ ppos' = [ppos EXCEPT ![t] = 0]
  /\ UNCHANGED <<req, i, ok, calls, locks, buffers, pci, ipc, rest>>

\* In pages, from the page offset on.
emu_dmabuf_mmap(t) ==
  /\ Call(t, "BUF_MMAP") /\ UNCHANGED fpos
  /\ touched' = IF (req[t].d0 + req[t].b0) * PageSize > BufSize THEN touched
                ELSE [first |-> req[t].b0, n |-> req[t].d0, size |-> Pages(BufSize)]

\* emu_dmabuf_ioctl knows no command.
emu_dmabuf_ioctl(t) == Call(t, "BUF_IOCTL") /\ UNCHANGED <<fpos, touched>>

FileStep(t) ==
  \/ mt_test_open(t) \/ mt_test_mmap(t)
  \/ emu_dmabuf_llseek(t) \/ TransferBegin(t) \/ emu_dmabuf_read(t)
  \/ emu_dmabuf_mmap(t) \/ emu_dmabuf_ioctl(t)

SysNext ==
  \/ Next /\ UNCHANGED files
  \/ \E t \in Threads : FileStep(t)

SysInit == Init /\ FilesInit

SysSpec ==
  /\ SysInit /\ [][SysNext]_<<vars, files>>
  /\ \A t \in Threads : WF_<<vars, files>>((Step(t) /\ UNCHANGED files) \/ FileStep(t))
-----------------------------------------------------------------------------
CopyInside ==
  /\ touched.n >= 0 /\ touched.first >= 0
  /\ touched.first + touched.n <= touched.size

OverrunSmall == \A t \in Threads : pc[t] = "loop" => i[t] < req[t].d0 + 4

\* A copy of the file operations stays in the buffer and a mapping in the pages
\* of the buffer or of its BAR, whatever the shared position (beyond the end or
\* below zero, moved by another thread or put back by its transfer).  BAR_RW and
\* CFG_RW do run over the end of their bounce buffer, in whole dwords and in the
\* byte after them, but by less than a dword.
AccessInside == CopyInside /\ OverrunSmall
=============================================================================
