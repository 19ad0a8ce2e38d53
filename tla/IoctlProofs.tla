---------------------------- MODULE IoctlProofs ----------------------------
(***************************************************************************)
(* Proofs about the system calls of Ioctl and FileOps, for every set of    *)
(* threads, requests, configuration dwords and sizes.                      *)
(***************************************************************************)
EXTENDS FileOps, TLAPS

\* One of the threads or the firmware takes a step.
Move(t) == (Enter(t) \/ Step(t)) /\ UNCHANGED files

Firmware(s) ==
  /\ Answer(s) \/ Handler(s) \/ HandlerBlock(s) \/ HandlerWake(s)
  /\ UNCHANGED files

allVars == <<vars, files>>

LEMMA SysNextIs ==
  SysNext <=> \/ \E t \in Threads : Move(t) \/ FileStep(t)
              \/ \E s \in Targets : Firmware(s)
  BY Zenon DEF SysNext, Next, Move, Firmware

LEMMA MixTypes ==
  ASSUME mix \in Mixes, NEW r \in mix
  PROVE  /\ r.d0 \in Nat /\ r.cmd \notin Places
         /\ r.cmd = "LSEEK" => r.b0 \in Int
         /\ r.cmd = "BUF_MMAP" => r.b0 \in Nat
<1>1. r \in UNION Mixes
  OBVIOUS
<1> QED
  BY <1>1, Zenon, IoctlAssumption, FileAssumption
-----------------------------------------------------------------------------
(* Where the threads are. *)

\* A thread that is at a command executes it, but for CFG_RW, which falls
\* through into SUSPEND; a thread that waits for the firmware is in IPC.
AtCommand ==
  \A t \in Threads :
    /\ pc[t] \notin Places \cup {"SUSPEND"} => req[t].cmd = pc[t]
    /\ pc[t] \in {"sent", "waiting"} => req[t].cmd = "IPC" /\ req[t].b0 \in Targets
    /\ req[t].cmd = "IPC" => pc[t] \in {"idle", "IPC", "sent", "waiting"}
    /\ req[t].cmd = "IPC" /\ ok[t] => pc[t] = "idle"

Requests ==
  /\ mix \in Mixes
  /\ DOMAIN pc = Threads /\ DOMAIN req = Threads /\ DOMAIN ok = Threads
  /\ pc = [t \in Threads |-> pc[t]] /\ req = [t \in Threads |-> req[t]]
  /\ ok = [t \in Threads |-> ok[t]]
  /\ \A t \in Threads :
       /\ req[t].d0 \in Nat
       /\ req[t].cmd = "LSEEK" => req[t].b0 \in Int
       /\ req[t].cmd = "BUF_MMAP" => req[t].b0 \in Nat

CallInv == Requests /\ AtCommand

LEMMA InitCall == SysInit => CallInv
  BY DEF SysInit, Init, CallInv, Requests, AtCommand, NoRequest, Places

\* What the step of a thread leaves alone of the others.
Apart(t) ==
  /\ UNCHANGED mix
  /\ \A u \in Threads \ {t} : pc'[u] = pc[u] /\ req'[u] = req[u] /\ ok'[u] = ok[u]
  /\ pc' = [u \in Threads |-> pc'[u]] /\ req' = [u \in Threads |-> req'[u]]
  /\ ok' = [u \in Threads |-> ok'[u]]

\* The call of a thread that goes on is the one it entered.
Onward(t) ==
  /\ req'[t] = req[t]
  /\ pc'[t] \notin Places \cup {"SUSPEND"} => pc'[t] = pc[t]
  /\ pc'[t] = "sent" => pc[t] = "IPC" /\ req[t].b0 \in Targets
  /\ pc'[t] = "waiting" => pc[t] = "sent"
  /\ req[t].cmd = "IPC" => pc'[t] \in {"idle", "IPC", "sent", "waiting"}
  /\ req[t].cmd = "IPC" /\ ok'[t] => pc'[t] = "idle"

LEMMA EnterApart ==
  ASSUME CallInv, NEW t \in Threads, Enter(t)
  PROVE  Apart(t)
  BY DEF CallInv, Requests, Apart, Enter, Goto, rest

LEMMA StepApart ==
  ASSUME CallInv, NEW t \in Threads, Step(t)
  PROVE  Apart(t) /\ Onward(t)
<1> USE DEF CallInv, Requests, AtCommand, Apart, Onward, Goto, Places, Targets
<1>1. CASE ParamError(t)
  BY <1>1 DEF ParamError, rest
<1>2. CASE Alloc(t)
  BY <1>2 DEF Alloc, rest
<1>3. CASE CopyIn(t)
  BY <1>3 DEF CopyIn, rest
<1>4. CASE Access(t) \/ TailByte(t)
  BY <1>4 DEF Access, TailByte, rest
<1>5. CASE AccessEnd(t)
  BY <1>5 DEF AccessEnd, rest
<1>6. CASE Suspend(t)
  BY <1>6 DEF Suspend, rest
<1>7. CASE SuspendEnd(t)
  BY <1>7 DEF SuspendEnd, rest
<1>8. CASE Resume(t)
  BY <1>8 DEF Resume, rest
<1>9. CASE ResumeEnd(t)
  BY <1>9 DEF ResumeEnd, rest
<1>10. CASE GetPower(t)
  BY <1>10 DEF GetPower, rest
<1>11. CASE WaitInt(t)
  BY <1>11 DEF WaitInt, Wake, rest
<1>12. CASE IpcSend(t)
  BY <1>12 DEF IpcSend, Refused, rest
<1>13. CASE IpcLock(t)
  BY <1>13 DEF IpcLock, rest
<1>14. CASE IpcEnd(t)
  BY <1>14 DEF IpcEnd, Wake, rest
<1>15. CASE RomMap(t)
  BY <1>15 DEF RomMap
<1>16. CASE RomUnmap(t)
  BY <1>16 DEF RomUnmap
<1>17. CASE DmaIsrSet(t)
  BY <1>17 DEF DmaIsrSet
<1> QED
  BY <1>1, <1>2, <1>3, <1>4, <1>5, <1>6, <1>7, <1>8, <1>9, <1>10, <1>11, <1>12,
     <1>13, <1>14, <1>15, <1>16, <1>17 DEF Step

LEMMA FileStepApart ==
  ASSUME CallInv, NEW t \in Threads, FileStep(t)
  PROVE  /\ Apart(t) /\ Onward(t)
         /\ UNCHANGED <<locks, buffers, pci, ipc, rest>>
  BY DEF CallInv, Requests, AtCommand, Apart, Onward, Goto, Places, FileStep, Call,
     mt_test_open, mt_test_mmap, emu_dmabuf_llseek, TransferBegin, emu_dmabuf_read,
     emu_dmabuf_mmap, emu_dmabuf_ioctl, rest

LEMMA NextCall == CallInv /\ [SysNext]_allVars => CallInv'
<1> SUFFICES ASSUME CallInv, [SysNext]_allVars PROVE CallInv'
  OBVIOUS
<1>1. ASSUME NEW t \in Threads, Apart(t), Onward(t) PROVE CallInv'
  BY <1>1 DEF CallInv, Requests, AtCommand, Apart, Onward, Places
<1>2. ASSUME NEW t \in Threads, Enter(t) PROVE CallInv'
  <2>1. PICK r \in mix : /\ Goto(t, "idle", r.cmd) /\ req' = [req EXCEPT ![t] = r]
                         /\ ok' = [ok EXCEPT ![t] = FALSE]
    BY <1>2 DEF Enter
  <2>2. /\ r.d0 \in Nat /\ r.cmd \notin Places
        /\ r.cmd = "LSEEK" => r.b0 \in Int
        /\ r.cmd = "BUF_MMAP" => r.b0 \in Nat
    BY MixTypes DEF CallInv, Requests
  <2>3. pc'[t] = r.cmd /\ req'[t] = r /\ ok'[t] = FALSE
    BY <2>1 DEF CallInv, Requests, Goto
  <2> QED
    BY <1>2, <2>2, <2>3, EnterApart DEF CallInv, Requests, AtCommand, Apart, Places
<1>3. ASSUME NEW s \in Targets, Firmware(s) PROVE CallInv'
  BY <1>3 DEF Firmware, Answer, Handler, HandlerBlock, HandlerWake, CallInv, Requests, AtCommand, thread, rest
<1>4. CASE UNCHANGED allVars
  BY <1>4 DEF allVars, vars, CallInv, Requests, AtCommand, thread, rest
<1> QED
  BY <1>1, <1>2, <1>3, <1>4, StepApart, FileStepApart, SysNextIs DEF Move
-----------------------------------------------------------------------------
(* SUSPEND and RESUME. *)

\* Only the holder of io_mutex suspends or resumes; the copy is there whenever
\* the function is not in D0.  A dword that is not lost holds its last write,
\* but for a RESUME that is under way and about to restore the copy, and in the
\* copy everything is good that was not written since it was made.
Power ==
  /\ \A t \in Threads :
       /\ pc[t] \in {"suspending", "resuming"} => ioMutex = t
       /\ pc[t] = "suspending" => stateSaved
       /\ pc[t] = "resuming" => power = D0
  /\ power # D0 => stateSaved
  /\ stateSaved => \A d \in Dwords \ (unsaved \cup lost) : saved[d] = last[d]
  /\ \A d \in Dwords \ lost :
       config[d] = last[d] \/ (stateSaved /\ \E t \in Threads : pc[t] = "resuming")

PowerTypes ==
  /\ power \in D0 .. D3hot /\ stateSaved \in BOOLEAN
  /\ config \in [Dwords -> Nat] /\ saved \in [Dwords -> Nat]
  /\ last \in [Dwords -> Nat]

PowerInv == PowerTypes /\ Power
-----------------------------------------------------------------------------
(* IPC. *)

\* While a thread waits for the answer it holds the target's int_mutex, and
\* every completion that is there was added after its reinit_completion.
Ipc ==
  \A t \in Threads :
    /\ pc[t] = "waiting" =>
         /\ intMutex[req[t].b0] = t
         /\ intDone[req[t].b0] <= irqs[req[t].b0] - mark[t]
    /\ pc[t] = "idle" /\ req[t].cmd = "IPC" /\ ok[t] =>
         req[t].b0 \in Targets /\ irqs[req[t].b0] > mark[t]

IpcTypes ==
  /\ intDone \in [Targets -> Nat] /\ irqs \in [Targets -> Nat]
  /\ mark \in [Threads -> Nat]
  /\ intMutex \in [Targets -> Threads \cup {Nobody}]

IpcInv == IpcTypes /\ Ipc
-----------------------------------------------------------------------------
(* The files. *)

FileInv ==
  /\ fpos \in Int /\ ppos \in [Threads -> Nat]
  /\ touched \in [first : Nat, n : Nat, size : Nat]
  /\ CopyInside

\* A loop begins at zero and takes whole dwords as long as it is inside.
LoopInv ==
  /\ i \in [Threads -> Nat]
  /\ \A t \in Threads : pc[t] \in {"BAR_RW", "CFG_RW", "copy"} => i[t] = 0
  /\ OverrunSmall
-----------------------------------------------------------------------------
LEMMA InitPower == SysInit => PowerInv
<1> SUFFICES ASSUME SysInit PROVE PowerInv
  OBVIOUS
<1>1. /\ power = D0 /\ config = [d \in Dwords |-> 1] /\ saved = config
      /\ stateSaved = FALSE /\ last = config
      /\ pc = [t \in Threads |-> "idle"]
  BY DEF SysInit, Init
<1>2. PowerTypes
  <2>1. power \in D0 .. D3hot
    BY <1>1 DEF D0, D3hot
  <2>2. config \in [Dwords -> Nat]
    BY <1>1
  <2>3. stateSaved \in BOOLEAN
    BY <1>1
  <2> QED
    BY <1>1, <2>1, <2>2, <2>3 DEF PowerTypes
<1>3. Power
  BY <1>1 DEF Power
<1> QED
  BY <1>2, <1>3 DEF PowerInv

\* A thread outside SUSPEND and RESUME at most writes dwords, and each of them is
\* then neither saved nor lost.
Harmless(t) ==
  /\ UNCHANGED <<ioMutex, power, saved, stateSaved>>
  /\ config' \in [Dwords -> Nat] /\ last' \in [Dwords -> Nat]
  /\ \A d \in Dwords :
       \/ /\ config'[d] = config[d] /\ last'[d] = last[d]
          /\ d \in lost' <=> d \in lost
          /\ d \in unsaved' <=> d \in unsaved
       \/ config'[d] = last'[d] /\ d \in unsaved' /\ d \notin lost'
  /\ pc[t] \notin {"suspending", "resuming"} /\ pc'[t] \notin {"suspending", "resuming"}

LEMMA HarmlessStep ==
  ASSUME CallInv, PowerInv, NEW t \in Threads, Step(t),
         ~Suspend(t), ~SuspendEnd(t), ~Resume(t), ~ResumeEnd(t)
  PROVE  Harmless(t)
<1> USE DEF CallInv, Requests, PowerInv, PowerTypes, Harmless, Goto, locks, pci, written
<1>1. CASE Access(t)
  <2> DEFINE here == IF req[t].cmd = "CFG_RW" /\ req[t].rw = "WR"
                     THEN Dwords \cap {i[t] \div 4} ELSE {}
  <2>1. /\ last' = [d \in Dwords |-> IF d \in here THEN last[d] + 1 ELSE last[d]]
        /\ config' = [d \in Dwords |-> IF d \in here THEN last'[d] ELSE config[d]]
        /\ unsaved' = unsaved \cup here /\ lost' = lost \ here
        /\ pc[t] = "loop" /\ UNCHANGED <<pc, locks, power, saved, stateSaved>>
    BY <1>1 DEF Access
  <2> HIDE DEF here
  <2> QED
    BY <2>1
<1>2. CASE ~Access(t)
  BY <1>2 DEF Step, ParamError, Alloc, CopyIn, TailByte, AccessEnd, GetPower, WaitInt,
     IpcSend, IpcLock, IpcEnd, RomMap, RomUnmap, DmaIsrSet
<1> QED
  BY <1>1, <1>2

LEMMA HarmlessEnter ==
  ASSUME CallInv, PowerInv, NEW t \in Threads, Enter(t)
  PROVE  Harmless(t)
<1>1. PICK r \in mix : Goto(t, "idle", r.cmd)
  BY DEF Enter
<1>2. r.cmd \notin Places
  BY MixTypes DEF CallInv, Requests
<1> QED
  BY <1>1, <1>2 DEF CallInv, Requests, PowerInv, PowerTypes, Harmless, Goto, Enter, locks,
     pci, written, Places

LEMMA HarmlessFile ==
  ASSUME CallInv, PowerInv, NEW t \in Threads, FileStep(t)
  PROVE  Harmless(t)
<1>1. UNCHANGED <<locks, pci>>
  BY FileStepApart
<1>2. pc[t] \notin {"suspending", "resuming"} /\ pc'[t] \notin {"suspending", "resuming"}
  BY DEF CallInv, Requests, FileStep, Call, Goto, mt_test_open, mt_test_mmap,
     emu_dmabuf_llseek, TransferBegin, emu_dmabuf_read, emu_dmabuf_mmap, emu_dmabuf_ioctl
<1> QED
  BY <1>1, <1>2 DEF PowerInv, PowerTypes, Harmless, locks, pci, written

LEMMA PowerOfHarmless ==
  ASSUME CallInv, PowerInv, NEW t \in Threads, Apart(t), Harmless(t)
  PROVE  PowerInv'
<1>1. PowerTypes'
  BY DEF PowerInv, PowerTypes, Harmless
<1>2. \A u \in Threads : pc[u] \in {"suspending", "resuming"} \/
                          pc'[u] \in {"suspending", "resuming"} => pc'[u] = pc[u]
  BY DEF Harmless, Apart
<1>3. UNCHANGED <<ioMutex, power, saved, stateSaved>>
  BY DEF Harmless
<1>4. Power'
  BY <1>2, <1>3 DEF PowerInv, Power, Harmless
<1> QED
  BY <1>1, <1>4 DEF PowerInv

\* Whatever state is asked for, the device gets one of the four.
LEMMA PowerStates ==
  ASSUME NEW p \in D0..D3hot, NEW s \in Nat
  PROVE  PowerAfter(p, s) \in D0..D3hot
  BY SMT DEF PowerAfter, D0, D3hot

LEMMA PowerOfPower ==
  ASSUME CallInv, PowerInv, NEW t \in Threads,
         Suspend(t) \/ SuspendEnd(t) \/ Resume(t) \/ ResumeEnd(t)
  PROVE  PowerInv'
<1> USE DEF CallInv, Requests, PowerInv, PowerTypes, Goto
<1>0. Apart(t)
  BY StepApart DEF Step
<1>1. Nobody \notin Threads
  BY Zenon, IoctlAssumption
<1>2. ASSUME Suspend(t) PROVE PowerInv'
  <2>1. \A u \in Threads : pc[u] \notin {"suspending", "resuming"}
    BY <1>1, <1>2 DEF Suspend, Power
  <2>2. PowerTypes'
    BY <1>2 DEF Suspend, pci_save_state
  <2>3. pc'[t] = "suspending" /\ \A u \in Threads \ {t} : pc'[u] = pc[u]
    BY <1>0, <1>2 DEF Suspend, Apart
  <2>4. /\ UNCHANGED <<power, config, last, lost>> /\ ioMutex' = t
        /\ saved' = config /\ stateSaved' /\ unsaved' = {}
    BY <1>2 DEF Suspend, pci_save_state
  <2>5. \A d \in Dwords \ lost : config[d] = last[d]
    BY <2>1 DEF Power
  <2>6. Power'
    BY <2>1, <2>3, <2>4, <2>5 DEF Power
  <2> QED
    BY <2>2, <2>6
<1>3. ASSUME SuspendEnd(t) PROVE PowerInv'
  <2>1. \A u \in Threads \ {t} : pc[u] \notin {"suspending", "resuming"}
    BY <1>1, <1>3 DEF SuspendEnd, Power
  <2>2. PowerTypes'
    <3>1. req[t].d0 \in Nat /\ power \in D0..D3hot
      BY <1>0
    <3>2. power' \in D0..D3hot
      BY <1>3, <3>1, PowerStates DEF SuspendEnd, pci_set_power_state
    <3>3. config' \in [Dwords -> Nat]
      BY <1>3 DEF SuspendEnd, pci_set_power_state
    <3>4. UNCHANGED <<saved, stateSaved, last>>
      BY <1>3 DEF SuspendEnd
    <3> QED
      BY <3>2, <3>3, <3>4
  <2>3. pc[t] = "suspending" /\ pc'[t] = "idle" /\ \A u \in Threads \ {t} : pc'[u] = pc[u]
    BY <1>0, <1>3 DEF SuspendEnd, Apart
  <2>4. stateSaved /\ UNCHANGED <<saved, stateSaved, last, unsaved>>
    BY <1>3, <2>3 DEF SuspendEnd, Power
  <2>5. \A d \in Dwords \ lost' : d \notin lost /\ config'[d] = config[d]
    BY <1>3 DEF SuspendEnd, pci_set_power_state
  <2>6. \A u \in Threads : pc[u] # "resuming" /\ pc'[u] \notin {"suspending", "resuming"}
    BY <2>1, <2>3
  <2>7. Power'
    BY <2>4, <2>5, <2>6 DEF Power
  <2> QED
    BY <2>2, <2>7
<1>4. ASSUME Resume(t) PROVE PowerInv'
  <2>1. \A u \in Threads : pc[u] \notin {"suspending", "resuming"}
    BY <1>1, <1>4 DEF Resume, Power
  <2>2. power' = D0
    BY <1>4 DEF Resume, pci_set_power_state, PowerAfter, D0, D3hot
  <2>3. PowerTypes'
    BY <1>4, <2>2 DEF Resume, pci_set_power_state, D0, D3hot, written
  <2>4. pc'[t] = "resuming" /\ \A u \in Threads \ {t} : pc'[u] = pc[u]
    BY <1>0, <1>4 DEF Resume, Apart
  <2>5. power = D0 => config' = config
    BY <1>4 DEF Resume, pci_set_power_state, Resets, D0, D3hot
  <2>6. UNCHANGED <<saved, stateSaved, last, unsaved, lost>> /\ ioMutex' = t
    BY <1>4 DEF Resume, written
  <2>7. Power'
    BY <2>1, <2>2, <2>4, <2>5, <2>6 DEF Power
  <2> QED
    BY <2>3, <2>7
<1>5. ASSUME ResumeEnd(t) PROVE PowerInv'
  <2>1. \A u \in Threads \ {t} : pc[u] \notin {"suspending", "resuming"}
    BY <1>1, <1>5 DEF ResumeEnd, Power
  <2>2. PowerTypes'
    BY <1>5 DEF ResumeEnd, pci_restore_state
  <2>3. pc[t] = "resuming" /\ pc'[t] = "idle" /\ \A u \in Threads \ {t} : pc'[u] = pc[u]
    BY <1>0, <1>5 DEF ResumeEnd, Apart
  <2>4. UNCHANGED <<saved, power, last, unsaved>> /\ power = D0 /\ ~stateSaved'
    BY <1>5, <2>3 DEF ResumeEnd, pci_restore_state, Power
  <2>5. \A d \in Dwords \ lost' : config'[d] = last'[d]
    <3>1. CASE stateSaved
      BY <1>5, <2>4, <3>1 DEF ResumeEnd, pci_restore_state, Power
    <3>2. CASE ~stateSaved
      BY <1>5, <2>4, <3>2 DEF ResumeEnd, pci_restore_state, Power
    <3> QED
      BY <3>1, <3>2
  <2>6. \A u \in Threads : pc'[u] \notin {"suspending", "resuming"}
    BY <2>1, <2>3
  <2>7. Power'
    BY <2>4, <2>5, <2>6 DEF Power
  <2> QED
    BY <2>2, <2>7
<1> QED
  BY <1>2, <1>3, <1>4, <1>5

LEMMA NextPower == CallInv /\ PowerInv /\ [SysNext]_allVars => PowerInv'
<1> SUFFICES ASSUME CallInv, PowerInv, [SysNext]_allVars PROVE PowerInv'
  OBVIOUS
<1>1. ASSUME NEW t \in Threads, Step(t) PROVE PowerInv'
  BY <1>1, PowerOfPower, HarmlessStep, StepApart, PowerOfHarmless
<1>2. ASSUME NEW t \in Threads, Enter(t) \/ FileStep(t) PROVE PowerInv'
  BY <1>2, HarmlessEnter, HarmlessFile, EnterApart, FileStepApart, PowerOfHarmless
<1>3. ASSUME NEW s \in Targets, Firmware(s) PROVE PowerInv'
  BY <1>3 DEF Firmware, Answer, Handler, HandlerBlock, HandlerWake, PowerInv, PowerTypes,
     Power, thread, locks, pci, written
<1>4. CASE UNCHANGED allVars
  BY <1>4 DEF allVars, vars, PowerInv, PowerTypes, Power, thread, locks, pci, written
<1> QED
  BY <1>1, <1>2, <1>3, <1>4, SysNextIs DEF Move

\* Restorable for every set of threads, dwords and requests, with CFG_RW's writes
\* outside io_mutex and its fall through into SUSPEND: a write is lost only to a
\* RESUME that comes before the SUSPEND that saves it, or to SUSPEND with PCI_D0.
THEOREM ConfigRestorable == SysSpec => []Restorable
<1>1. CallInv /\ PowerInv /\ [SysNext]_allVars => CallInv' /\ PowerInv'
  BY NextCall, NextPower
<1>2. PowerInv => Restorable
  <2> SUFFICES ASSUME PowerInv, ioMutex = Nobody, NEW d \in Dwords \ lost
               PROVE  /\ config[d] = last[d]
                      /\ power = D3hot /\ d \notin unsaved =>
                           stateSaved /\ saved[d] = last[d]
    BY DEF Restorable
  <2>1. \A t \in Threads : pc[t] # "resuming"
    BY Zenon, IoctlAssumption DEF PowerInv, Power
  <2> QED
    BY <2>1 DEF PowerInv, Power, D0, D3hot
<1> QED
  BY <1>1, <1>2, InitCall, InitPower, PTL DEF SysSpec, allVars
-----------------------------------------------------------------------------
LEMMA InitIpc == SysInit => IpcInv
  BY DEF SysInit, Init, IpcInv, IpcTypes, Ipc, NoRequest, Targets

\* The completions of a thread's own target and its mark: other threads only
\* take completions away from a target whose int_mutex the thread holds.
LEMMA StepIpc ==
  ASSUME CallInv, IpcInv, NEW t \in Threads, Step(t)
  PROVE  IpcInv'
<1> USE DEF CallInv, Requests, IpcInv, IpcTypes, Goto
<1>1. Apart(t) /\ Onward(t)
  BY StepApart
<1>2. CASE WaitInt(t)
  <2>1. req[t].b0 \in Targets /\ req[t].cmd = "WAIT_INT"
    BY <1>2 DEF WaitInt, Refused, AtCommand, Places
  <2>2. \/ intDone' = intDone
        \/ intDone[req[t].b0] > 0 /\ intDone' = [intDone EXCEPT ![req[t].b0] = @ - 1]
    BY <1>2 DEF WaitInt, Wake
  <2>3. UNCHANGED <<intMutex, irqs, mark>> /\ pc'[t] = "idle"
    BY <1>2 DEF WaitInt, locks
  <2>4. IpcTypes'
    BY <2>1, <2>2, <2>3
  <2>5. \A s \in Targets : intDone'[s] <= intDone[s]
    BY <2>1, <2>2
  <2>6. Ipc'
    BY <1>1, <2>1, <2>3, <2>4, <2>5 DEF Ipc, Apart, Onward, AtCommand
  <2> QED
    BY <2>4, <2>6
<1>3. CASE IpcLock(t)
  <2>1. req[t].b0 \in Targets /\ pc'[t] = "waiting"
    BY <1>3 DEF IpcLock, AtCommand
  <2>2. IpcTypes'
    BY <1>3, <2>1 DEF IpcLock
  <2>3. \A u \in Threads : pc[u] = "waiting" => req[u].b0 # req[t].b0
    BY <1>3, Zenon, IoctlAssumption DEF IpcLock, Ipc
  <2>4. irqs' = irqs /\ \A u \in Threads \ {t} : mark'[u] = mark[u]
    BY <1>3 DEF IpcLock
  <2>5. \A s \in Targets \ {req[t].b0} : intDone'[s] = intDone[s] /\ intMutex'[s] = intMutex[s]
    BY <1>3 DEF IpcLock
  <2>6. /\ intMutex'[req[t].b0] = t /\ intDone'[req[t].b0] = 0
        /\ mark'[t] = irqs[req[t].b0]
    BY <1>3, <2>1 DEF IpcLock
  <2>7. Ipc'
    BY <1>1, <2>1, <2>2, <2>3, <2>4, <2>5, <2>6 DEF Ipc, Apart, Onward, AtCommand
  <2> QED
    BY <2>2, <2>7
<1>4. CASE IpcEnd(t)
  <2>1. req[t].b0 \in Targets /\ pc'[t] = "idle"
    BY <1>4 DEF IpcEnd, AtCommand
  <2>2. /\ ok'[t] # ok[t] => intDone[req[t].b0] > 0
        /\ \/ intDone' = intDone
           \/ intDone[req[t].b0] > 0 /\ intDone' = [intDone EXCEPT ![req[t].b0] = @ - 1]
    BY <1>4 DEF IpcEnd, Wake
  <2>3. UNCHANGED <<irqs, mark>> /\ intMutex' = [intMutex EXCEPT ![req[t].b0] = Nobody]
    BY <1>4 DEF IpcEnd
  <2>4. IpcTypes'
    BY <2>1, <2>2, <2>3
  <2>5. \A s \in Targets : intDone'[s] <= intDone[s]
    BY <2>1, <2>2
  <2>6. \A u \in Threads \ {t} : pc[u] = "waiting" => req[u].b0 # req[t].b0
    BY <1>4 DEF IpcEnd, Ipc
  <2>7. intDone[req[t].b0] <= irqs[req[t].b0] - mark[t] /\ ~ok[t]
    BY <1>4 DEF IpcEnd, Ipc, AtCommand
  <2>8. Ipc'
    BY <1>1, <2>1, <2>2, <2>3, <2>4, <2>5, <2>6, <2>7 DEF Ipc, Apart, Onward, AtCommand
  <2> QED
    BY <2>4, <2>8
<1>5. CASE UNCHANGED <<intMutex, intDone, irqs, mark, ok>> /\ pc'[t] # "waiting"
           /\ (pc'[t] = "idle" => req[t].cmd # "IPC" \/ ~ok[t])
  BY <1>1, <1>5 DEF Ipc, Apart, Onward
<1>6. ASSUME ~WaitInt(t), ~IpcLock(t), ~IpcEnd(t)
      PROVE  /\ UNCHANGED <<intMutex, intDone, irqs, mark, ok>> /\ pc'[t] # "waiting"
             /\ (pc'[t] = "idle" => req[t].cmd # "IPC" \/ ~ok[t])
  <2>1. UNCHANGED <<intMutex, intDone, irqs, mark, ok>> /\ pc[t] # "idle"
    BY <1>6 DEF Step, ParamError, Alloc, CopyIn, Access, TailByte, AccessEnd, Suspend, SuspendEnd,
       Resume, ResumeEnd, GetPower, IpcSend, RomMap, RomUnmap, DmaIsrSet, locks, ipc
  <2>2. pc'[t] # "waiting"
    BY <1>6 DEF Step, ParamError, Alloc, CopyIn, Access, TailByte, AccessEnd, Suspend, SuspendEnd,
       Resume, ResumeEnd, GetPower, IpcSend, RomMap, RomUnmap, DmaIsrSet
  <2> QED
    BY <2>1, <2>2 DEF AtCommand
<1> QED
  BY <1>2, <1>3, <1>4, <1>5, <1>6

LEMMA FirmwareIpc ==
  ASSUME CallInv, IpcInv, NEW s \in Targets, Firmware(s)
  PROVE  IpcInv'
<1> USE DEF IpcInv, IpcTypes
<1>1. UNCHANGED <<pc, req, ok, intMutex, mark>>
  BY DEF Firmware, Answer, Handler, HandlerBlock, HandlerWake, thread, locks
<1>2. PICK n \in {0, 1} : /\ intDone' = [intDone EXCEPT ![s] = @ + n]
                          /\ irqs' = [irqs EXCEPT ![s] = @ + n]
  <2>1. CASE Answer(s) \/ HandlerBlock(s)
    BY <2>1 DEF Answer, HandlerBlock
  <2>2. CASE Handler(s) \/ HandlerWake(s)
    BY <2>2 DEF Handler, HandlerWake, Complete
  <2> QED
    BY <2>1, <2>2 DEF Firmware
<1>3. IpcTypes'
  BY <1>1, <1>2
<1>4. \A u \in Targets : irqs'[u] - intDone'[u] = irqs[u] - intDone[u] /\ irqs'[u] >= irqs[u]
  BY <1>2
<1>5. Ipc'
  BY <1>1, <1>3, <1>4 DEF Ipc, CallInv, AtCommand
<1> QED
  BY <1>3, <1>5

LEMMA NextIpc == CallInv /\ IpcInv /\ [SysNext]_allVars => IpcInv'
<1> SUFFICES ASSUME CallInv, IpcInv, [SysNext]_allVars PROVE IpcInv'
  OBVIOUS
<1>1. ASSUME NEW t \in Threads, Step(t) PROVE IpcInv'
  BY <1>1, StepIpc
<1>2. ASSUME NEW t \in Threads, Enter(t) PROVE IpcInv'
  <2>1. PICK r \in mix : Goto(t, "idle", r.cmd) /\ ok' = [ok EXCEPT ![t] = FALSE]
    BY <1>2 DEF Enter
  <2>2. r.cmd \notin Places
    BY MixTypes DEF CallInv, Requests
  <2>3. Apart(t) /\ ~ok'[t] /\ pc'[t] # "waiting"
    BY <1>2, <2>1, <2>2, EnterApart DEF CallInv, Requests, Goto, Places
  <2>4. UNCHANGED <<intMutex, intDone, irqs, mark>>
    BY <1>2 DEF Enter, locks, ipc
  <2> QED
    BY <2>3, <2>4 DEF IpcInv, IpcTypes, Ipc, Apart
<1>3. ASSUME NEW t \in Threads, FileStep(t) PROVE IpcInv'
  <2>1. Apart(t) /\ req' = req /\ ok' = ok /\ UNCHANGED <<intMutex, intDone, irqs, mark>>
    BY <1>3, FileStepApart DEF locks, ipc, FileStep, Call, mt_test_open, mt_test_mmap,
       emu_dmabuf_llseek, TransferBegin, emu_dmabuf_read, emu_dmabuf_mmap, emu_dmabuf_ioctl
  <2>2. pc[t] \notin {"idle", "waiting"} /\ pc'[t] # "waiting"
    BY <1>3 DEF CallInv, Requests, FileStep, Call, Goto, mt_test_open, mt_test_mmap,
       emu_dmabuf_llseek, TransferBegin, emu_dmabuf_read, emu_dmabuf_mmap, emu_dmabuf_ioctl
  <2>3. req[t].cmd = "IPC" => ~ok[t]
    BY <2>2 DEF CallInv, AtCommand
  <2> QED
    BY <2>1, <2>2, <2>3 DEF IpcInv, IpcTypes, Ipc, Apart
<1>4. ASSUME NEW s \in Targets, Firmware(s) PROVE IpcInv'
  BY <1>4, FirmwareIpc
<1>5. CASE UNCHANGED allVars
  BY <1>5 DEF allVars, vars, IpcInv, IpcTypes, Ipc, thread, locks, ipc
<1> QED
  BY <1>1, <1>2, <1>3, <1>4, <1>5, SysNextIs DEF Move

\* IpcFresh for every set of threads and requests: int_mutex is taken before
\* reinit_completion and kept until the wait is over, so the completion that
\* wakes an IPC was added after it began to wait.
THEOREM IpcAnswersAreFresh == SysSpec => []IpcFresh
<1>1. CallInv /\ IpcInv /\ [SysNext]_allVars => CallInv' /\ IpcInv'
  BY NextCall, NextIpc
<1>2. IpcInv => IpcFresh
  BY DEF IpcInv, Ipc, IpcFresh
<1> QED
  BY <1>1, <1>2, InitCall, InitIpc, PTL DEF SysSpec, allVars
-----------------------------------------------------------------------------
\* Rounding up to pages loses nothing: what fits in a size in units fits in its
\* pages.
LEMMA PagesHold ==
  ASSUME NEW m \in Nat, NEW size \in Nat, m * PageSize <= size
  PROVE  m <= Pages(size) /\ Pages(size) \in Nat
<1>1. PageSize \in Nat /\ PageSize >= 1
  BY FileAssumption
<1> DEFINE b == size + PageSize - 1
           k == b \div PageSize
<1>2. b \in Nat
  BY <1>1
<1>3. k \in Nat /\ b < (k + 1) * PageSize
  BY <1>1, <1>2
<1> HIDE DEF k
<1>4. size <= b
  BY <1>1
<1>5. m * PageSize < (k + 1) * PageSize
  BY <1>1, <1>2, <1>3, <1>4
<1>6. m < k + 1
  BY <1>1, <1>3, <1>5
<1> QED
  BY <1>3, <1>6 DEF Pages, k

LEMMA PagesNat == \A size \in Nat : Pages(size) \in Nat
<1> SUFFICES ASSUME NEW size \in Nat PROVE Pages(size) \in Nat
  OBVIOUS
<1>1. 0 * PageSize <= size
  BY FileAssumption
<1> QED
  BY <1>1, PagesHold

LEMMA InitFile == SysInit => FileInv
  BY DEF SysInit, FilesInit, FileInv, Nothing, CopyInside

\* A thread copies from a position that is not below zero.
LEMMA FileStepFile ==
  ASSUME CallInv, FileInv, NEW t \in Threads, FileStep(t)
  PROVE  FileInv'
<1> USE DEF FileInv, Goto
<1>1. BufSize \in Nat /\ \A b \in 0 .. 6 : RegionSize[b] \in Nat
  BY FileAssumption
<1>2. /\ req[t].d0 \in Nat
      /\ pc[t] = "LSEEK" => req[t].b0 \in Int
      /\ pc[t] = "BUF_MMAP" => req[t].b0 \in Nat
  BY DEF CallInv, Requests, AtCommand, Places
<1>3. CASE UNCHANGED <<fpos, touched>> /\ ppos' = ppos
  BY <1>3 DEF CopyInside
<1>4. CASE mt_test_mmap(t)
  <2>1. CASE UNCHANGED touched
    BY <1>3, <1>4, <2>1 DEF mt_test_mmap, Call
  <2>2. CASE touched' # touched
    <3>1. PICK b \in 0 .. 6 :
            /\ req[t].d0 <= Pages(RegionSize[b])
            /\ touched' = [first |-> 0, n |-> req[t].d0, size |-> Pages(RegionSize[b])]
      BY <1>4, <2>2 DEF mt_test_mmap, BAR_0, BAR_2, BAR_4, ROM
    <3>2. Pages(RegionSize[b]) \in Nat
      BY <1>1, PagesNat
    <3>3. touched' \in [first : Nat, n : Nat, size : Nat] /\ CopyInside'
      BY <1>2, <3>1, <3>2 DEF CopyInside
    <3>4. UNCHANGED <<fpos, ppos>>
      BY <1>4 DEF mt_test_mmap, Call
    <3> QED
      BY <3>3, <3>4
  <2> QED
    BY <2>1, <2>2
<1>5. CASE emu_dmabuf_llseek(t)
  <2>1. pc[t] = "LSEEK" /\ UNCHANGED <<ppos, touched>>
    BY <1>5 DEF emu_dmabuf_llseek, Call
  <2>2. fpos' \in Int
    BY <1>2, <1>5, <2>1 DEF emu_dmabuf_llseek
  <2> QED
    BY <2>1, <2>2 DEF CopyInside
<1>6. CASE TransferBegin(t)
  BY <1>6 DEF TransferBegin, CopyInside
<1>7. CASE emu_dmabuf_read(t)
  <2>1. ppos' \in [Threads -> Nat] /\ fpos' \in Int
    BY <1>7 DEF emu_dmabuf_read
  <2>2. CASE ppos[t] >= BufSize
    BY <1>7, <2>1, <2>2 DEF emu_dmabuf_read, CopyInside
  <2>3. CASE ~(ppos[t] >= BufSize)
    <3> DEFINE p == ppos[t]
               n == Clipped(p, req[t].d0)
    <3>1. touched' = [first |-> p, n |-> n, size |-> BufSize]
      BY <1>7, <2>3 DEF emu_dmabuf_read
    <3>2. p \in Nat /\ n \in Nat /\ p + n <= BufSize
      BY <1>1, <1>2, <2>3 DEF Clipped
    <3> HIDE DEF n, p
    <3>3. touched' \in [first : Nat, n : Nat, size : Nat] /\ CopyInside'
      BY <1>1, <3>1, <3>2 DEF CopyInside
    <3> QED
      BY <2>1, <3>3
  <2> QED
    BY <2>2, <2>3
<1>8. CASE emu_dmabuf_mmap(t)
  <2>1. pc[t] = "BUF_MMAP" /\ UNCHANGED <<fpos, ppos>>
    BY <1>8 DEF emu_dmabuf_mmap, Call
  <2>2. CASE (req[t].d0 + req[t].b0) * PageSize > BufSize
    BY <1>3, <1>8, <2>1, <2>2 DEF emu_dmabuf_mmap
  <2>3. CASE ~((req[t].d0 + req[t].b0) * PageSize > BufSize)
    <3>1. touched' = [first |-> req[t].b0, n |-> req[t].d0, size |-> Pages(BufSize)]
      BY <1>8, <2>3 DEF emu_dmabuf_mmap
    <3>2. req[t].b0 \in Nat /\ req[t].d0 \in Nat /\ PageSize \in Nat
      BY <1>2, <2>1, FileAssumption
    <3>3. req[t].d0 + req[t].b0 <= Pages(BufSize) /\ Pages(BufSize) \in Nat
      <4> DEFINE m == req[t].d0 + req[t].b0
      <4>1. m \in Nat /\ ~(m * PageSize > BufSize)
        BY <2>3, <3>2
      <4> HIDE DEF m
      <4>2. m * PageSize <= BufSize
        BY <1>1, <3>2, <4>1
      <4> QED
        BY <1>1, <4>1, <4>2, PagesHold DEF m
    <3>4. touched' \in [first : Nat, n : Nat, size : Nat] /\ CopyInside'
      BY <3>1, <3>2, <3>3 DEF CopyInside
    <3> QED
      BY <2>1, <3>4
  <2> QED
    BY <2>2, <2>3
<1> QED
  BY <1>3, <1>4, <1>5, <1>6, <1>7, <1>8 DEF FileStep, mt_test_open, emu_dmabuf_ioctl, Call

LEMMA NextFile == CallInv /\ FileInv /\ [SysNext]_allVars => FileInv'
<1> SUFFICES ASSUME CallInv, FileInv, [SysNext]_allVars PROVE FileInv'
  OBVIOUS
<1>1. ASSUME NEW t \in Threads, FileStep(t) PROVE FileInv'
  BY <1>1, FileStepFile
<1>2. CASE UNCHANGED files
  BY <1>2 DEF files, FileInv, CopyInside
<1> QED
  BY <1>1, <1>2 DEF SysNext, allVars

-----------------------------------------------------------------------------
LEMMA InitLoop == SysInit => LoopInv
  BY DEF SysInit, Init, LoopInv, OverrunSmall

\* Where a call of BAR_RW or CFG_RW comes from, and how far its loop has gone.
LEMMA StepLoop ==
  ASSUME CallInv, LoopInv, NEW t \in Threads, Step(t)
  PROVE  LoopInv'
<1> USE DEF CallInv, Requests, LoopInv, OverrunSmall, Goto
<1>1. Apart(t) /\ Onward(t)
  BY StepApart
<1>2. CASE Access(t) \/ TailByte(t)
  <2>1. /\ pc' = pc /\ pc[t] = "loop" /\ req' = req
        /\ \/ i[t] < req[t].d0 /\ i' = [i EXCEPT ![t] = @ + 4]
           \/ i[t] = req[t].d0 /\ i' = [i EXCEPT ![t] = @ + 1]
    BY <1>2 DEF Access, TailByte, TailDue
  <2>2. i' \in [Threads -> Nat] /\ i'[t] < req'[t].d0 + 4
    BY <2>1
  <2>3. \A u \in Threads \ {t} : i'[u] = i[u]
    BY <2>1
  <2> QED
    BY <2>1, <2>2, <2>3
<1>3. CASE ~Access(t) /\ ~TailByte(t)
  <2>1. UNCHANGED i
    BY <1>3 DEF Step, ParamError, Alloc, CopyIn, AccessEnd, Suspend, SuspendEnd, Resume,
       ResumeEnd, GetPower, WaitInt, IpcSend, IpcLock, IpcEnd, RomMap, RomUnmap, DmaIsrSet,
       thread
  <2>2. pc'[t] \in {"loop", "copy"} => pc[t] \in {"BAR_RW", "CFG_RW", "copy"}
    BY <1>3 DEF Step, ParamError, Alloc, CopyIn, AccessEnd, Suspend, SuspendEnd, Resume,
       ResumeEnd, GetPower, WaitInt, IpcSend, IpcLock, IpcEnd, RomMap, RomUnmap, DmaIsrSet
  <2>3. pc'[t] \in {"BAR_RW", "CFG_RW"} => pc'[t] = pc[t]
    BY <1>1 DEF Onward, Places
  <2> QED
    BY <1>1, <2>1, <2>2, <2>3 DEF Apart, Onward
<1> QED
  BY <1>2, <1>3

LEMMA NextLoop == CallInv /\ LoopInv /\ [SysNext]_allVars => LoopInv'
<1> SUFFICES ASSUME CallInv, LoopInv, [SysNext]_allVars PROVE LoopInv'
  OBVIOUS
<1> USE DEF LoopInv, OverrunSmall
<1>1. ASSUME NEW t \in Threads, Step(t) PROVE LoopInv'
  BY <1>1, StepLoop
<1>2. ASSUME NEW t \in Threads, Enter(t) PROVE LoopInv'
  <2>1. PICK r \in mix : Goto(t, "idle", r.cmd)
    BY <1>2 DEF Enter
  <2>2. r.cmd \notin Places
    BY MixTypes DEF CallInv, Requests
  <2>3. pc'[t] # "loop" /\ i' = [i EXCEPT ![t] = 0]
    BY <1>2, <2>1, <2>2 DEF Enter, Goto, CallInv, Requests, Places
  <2>4. Apart(t)
    BY <1>2, EnterApart
  <2> QED
    BY <2>3, <2>4 DEF Apart
<1>3. ASSUME NEW t \in Threads, FileStep(t) PROVE LoopInv'
  <2>1. UNCHANGED <<i, req>> /\ pc'[t] \in {"idle", "copying"}
    BY <1>3 DEF CallInv, Requests, FileStep, Call, Goto, mt_test_open, mt_test_mmap,
       emu_dmabuf_llseek, TransferBegin, emu_dmabuf_read, emu_dmabuf_mmap, emu_dmabuf_ioctl
  <2> QED
    BY <1>3, <2>1, FileStepApart DEF Apart
<1>4. ASSUME NEW s \in Targets, Firmware(s) PROVE LoopInv'
  BY <1>4 DEF Firmware, Answer, Handler, HandlerBlock, HandlerWake, thread
<1>5. CASE UNCHANGED allVars
  BY <1>5 DEF allVars, vars, thread
<1> QED
  BY <1>1, <1>2, <1>3, <1>4, <1>5, SysNextIs DEF Move

\* AccessInside for every size of the buffer and of the BARs, every offset, also
\* below zero or beyond the end, and every count: the file operations stay
\* inside, the loops of BAR_RW and CFG_RW overrun by less than a dword.
THEOREM AccessStaysInside == SysSpec => []AccessInside
<1>1. /\ CallInv /\ FileInv /\ LoopInv /\ [SysNext]_allVars
      => CallInv' /\ FileInv' /\ LoopInv'
  BY NextCall, NextFile, NextLoop
<1>2. FileInv /\ LoopInv => AccessInside
  BY DEF FileInv, LoopInv, AccessInside
<1> QED
  BY <1>1, <1>2, InitCall, InitFile, InitLoop, PTL DEF SysSpec, allVars
=============================================================================
