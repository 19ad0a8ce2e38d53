------------------------------- MODULE Ioctl -------------------------------
(***************************************************************************)
(* mt_test_ioctl (mt-emu-ioctl.c) on the GPU function: BAR_RW, CFG_RW,     *)
(* SUSPEND, RESUME, GET_POWER, WAIT_INT, IPC, READ_ROM and DMAISR_SET, in  *)
(* several threads, with the function's power state and configuration      *)
(* space and the firmware that answers the mailboxes.  TRIG_INT, IRQ_INIT  *)
(* and the handlers are in IrqPath, MTDMA_BARE_RW is in BareDma, MTDMA_RW  *)
(* in MtdmaChan.                                                           *)
(*                                                                         *)
(* Every write of a configuration dword puts a new number there; 0 is the  *)
(* reset value.  Configuration space is accessible in every power state;   *)
(* leaving D3hot resets it.  Buffers and BARs are only counted: i is how   *)
(* far into the buffer a loop has gone, also beyond its end, and the       *)
(* offset into the BAR, which the code never checks, is left out.  The     *)
(* build defines PCIE_USE_MBOX (mt-emu.h:20).                              *)
(***************************************************************************)
EXTENDS Integers, FiniteSets

CONSTANTS Threads, Nobody,
          Dwords,      \* 0 .. n: the dwords of the configuration space
          Mixes,       \* the sets of requests the threads choose from; a
                       \* request is a command and struct mt_emu_param:
                       \* [cmd, b0, rw, d0]
          MaxRw,       \* QY_MAX_RW
          MaxCalls     \* bound: calls of a thread

D0 == 0
D3hot == 3
Targets == {"SMC", "FEC", "DSP"}

\* Where a thread is between two calls, and within one.
Places == {"idle", "copy", "loop", "suspending", "resuming", "sent", "waiting",
           "mapped", "copying"}

ASSUME IoctlAssumption ==
  /\ Nobody \notin Threads
  /\ Dwords = 0 .. (Cardinality(Dwords) - 1)
  /\ \A r \in UNION Mixes : /\ DOMAIN r = {"cmd", "b0", "rw", "d0"} /\ r.d0 \in Nat
                            /\ r.cmd \notin Places
  /\ MaxRw \in Nat /\ MaxCalls \in Nat

VARIABLES mix,               \* one of Mixes
          pc, req, i,        \* a thread: its place, its request, its loop
          ok,                \* the b0 it returns
          calls,
          ioMutex, intMutex, \* io_mutex and int_mutex of each target's source
          intDone,           \* int_done of each target's source
          testMode,          \* irq_test_mode
          isrDmabare,        \* isr_dmabare
          held, leaked,      \* kmalloc'ed buffers: by whom held, how many lost
          power,             \* current_state
          config, saved, stateSaved, \* the space and pci_save_state's copy
          romOn,             \* the ROM's enable bit
          mbox,              \* mailboxes set and not yet taken by the firmware
          raised,            \* response interrupts on their way
          blocked,           \* the source whose handler waits for io_mutex
          irqs, mark,        \* history: completions of a source; their number
                             \* when the thread reinitialised it
          last,              \* history: what each dword was last written
          unsaved,           \* history: dwords written since pci_save_state
          lost               \* history: dwords whose last write was undone

thread == <<pc, req, i, ok, calls>>
locks == <<ioMutex, intMutex>>
buffers == <<held, leaked>>
written == <<last, unsaved, lost>>
pci == <<power, config, saved, stateSaved, written>>
firmware == <<mbox, raised, blocked>>
ipc == <<firmware, intDone, irqs, mark>>
rest == <<mix, testMode, isrDmabare, romOn>>

vars == <<thread, locks, buffers, pci, ipc, rest>>

NoRequest == [cmd |-> "none", b0 |-> 0, rw |-> "RD", d0 |-> 0]

Init ==
  /\ mix \in Mixes
  /\ pc = [t \in Threads |-> "idle"] /\ req = [t \in Threads |-> NoRequest]
  /\ i = [t \in Threads |-> 0] /\ ok = [t \in Threads |-> FALSE]
  /\ calls = [t \in Threads |-> 0]
  /\ ioMutex = Nobody /\ intMutex = [s \in Targets |-> Nobody]
  /\ intDone = [s \in Targets |-> 0]
  /\ testMode \in BOOLEAN /\ isrDmabare = FALSE
  /\ held = {} /\ leaked = 0
  /\ power = D0 /\ config = [d \in Dwords |-> 1]
  /\ saved = config /\ stateSaved = FALSE
  /\ last = config /\ unsaved = Dwords /\ lost = {}
  /\ romOn = FALSE
  /\ mbox = {} /\ raised = {} /\ blocked = {}
  /\ irqs = intDone /\ mark = [t \in Threads |-> 0]
-----------------------------------------------------------------------------
Goto(t, from, to) == pc[t] = from /\ pc' = [pc EXCEPT ![t] = to]

\* copy_from_user of the parameters, and the switch.
Enter(t) ==
  /\ calls[t] < MaxCalls
  /\ \E r \in mix :
       /\ Goto(t, "idle", r.cmd)
       /\ req' = [req EXCEPT ![t] = r]
  /\ calls' = [calls EXCEPT ![t] = @ + 1]
  /\ i' = [i EXCEPT ![t] = 0] /\ ok' = [ok EXCEPT ![t] = FALSE]
  /\ UNCHANGED <<locks, buffers, pci, ipc, rest>>

\* The parameters that a command refuses with -EFAULT.
Refused(r) ==
  \/ r.cmd = "BAR_RW" /\ r.b0 \notin {0, 2}
  \/ r.cmd \in {"BAR_RW", "CFG_RW"} /\ (r.d0 = 0 \/ r.d0 > MaxRw)
  \/ r.cmd \in {"WAIT_INT", "IPC"} /\ r.b0 \notin Targets

ParamError(t) ==
  /\ pc[t] \in {"BAR_RW", "CFG_RW", "WAIT_INT", "IPC"} /\ Refused(req[t])
  /\ pc' = [pc EXCEPT ![t] = "idle"]
  /\ UNCHANGED <<req, i, ok, calls, locks, buffers, pci, ipc, rest>>

\* kmalloc of the bounce buffer.
Alloc(t) ==
  /\ pc[t] \in {"BAR_RW", "CFG_RW"} /\ ~Refused(req[t])
  /\ \/ /\ held' = held \cup {t}
        /\ pc' = [pc EXCEPT ![t] = IF req[t].rw = "RD" THEN "loop" ELSE "copy"]
     \/ /\ pc' = [pc EXCEPT ![t] = "idle"]
        /\ UNCHANGED held
  /\ UNCHANGED <<req, i, ok, calls, locks, leaked, pci, ipc, rest>>

\* copy_from_user of the data; the kfree after its failure is behind a return.
CopyIn(t) ==
  /\ \/ Goto(t, "copy", "loop") /\ UNCHANGED buffers
     \/ /\ Goto(t, "copy", "idle")
        /\ held' = held \ {t} /\ leaked' = leaked + 1
  /\ UNCHANGED <<req, i, ok, calls, locks, pci, ipc, rest>>

\* One turn of the loop over dwords: a whole dword, also when the size ends
\* within it.
Access(t) ==
  LET here == IF req[t].cmd = "CFG_RW" /\ req[t].rw = "WR"
              THEN Dwords \cap {i[t] \div 4} ELSE {}
  IN  /\ pc[t] = "loop" /\ i[t] < req[t].d0
      /\ i' = [i EXCEPT ![t] = @ + 4]
      /\ last' = [d \in Dwords |-> IF d \in here THEN last[d] + 1 ELSE last[d]]
      /\ config' = [d \in Dwords |-> IF d \in here THEN last'[d] ELSE config[d]]
      /\ unsaved' = unsaved \cup here /\ lost' = lost \ here
      /\ UNCHANGED <<pc, req, ok, calls, locks, buffers, power, saved, stateSaved,
                     ipc, rest>>

\* After whole dwords, the read of CFG_RW goes on by one byte (i <= size).
TailDue(t) == req[t].cmd = "CFG_RW" /\ req[t].rw = "RD" /\ i[t] = req[t].d0

TailByte(t) ==
  /\ pc[t] = "loop" /\ TailDue(t)
  /\ i' = [i EXCEPT ![t] = @ + 1]
  /\ UNCHANGED <<pc, req, ok, calls, locks, buffers, pci, ipc, rest>>

\* kfree.  BAR_RW ends; CFG_RW has no break and goes on into SUSPEND.
AccessEnd(t) ==
  /\ i[t] >= req[t].d0 /\ ~TailDue(t)
  /\ Goto(t, "loop", IF req[t].cmd = "CFG_RW" THEN "SUSPEND" ELSE "idle")
  /\ held' = held \ {t}
  /\ UNCHANGED <<req, i, ok, calls, locks, leaked, pci, ipc, rest>>
-----------------------------------------------------------------------------
(* Power. *)

\* pci_set_power_state: to D0, or deeper; the platform offers no D3cold.
PowerAfter(p, s) ==
  LET q == IF s > D3hot THEN D3hot ELSE s
  IN  IF q = D0 \/ q > p THEN q ELSE p

\* Whether the way to a state leads out of D3hot and resets the space.
Resets(s) == power = D3hot /\ PowerAfter(power, s) = D0

pci_set_power_state(s) ==
  /\ power' = PowerAfter(power, s)
  /\ config' = IF Resets(s) THEN [d \in Dwords |-> 0] ELSE config

pci_save_state == saved' = config /\ stateSaved' = TRUE /\ unsaved' = {}

\* Over whatever was written since the copy was made.
pci_restore_state ==
  /\ config' = IF stateSaved THEN saved ELSE config
  /\ stateSaved' = FALSE
  /\ lost' = IF stateSaved THEN lost \cup unsaved ELSE lost

\* Faulty variant: SUSPEND without io_mutex.
SuspendUnlocked(t) ==
  /\ Goto(t, "SUSPEND", "suspending")
  /\ pci_save_state
  /\ UNCHANGED <<req, i, ok, calls, locks, buffers, power, config, last, lost,
                 ipc, rest>>

Suspend(t) ==
  /\ Goto(t, "SUSPEND", "suspending")
  /\ ioMutex = Nobody /\ ioMutex' = t
  /\ pci_save_state
  /\ UNCHANGED <<req, i, ok, calls, intMutex, buffers, power, config, last, lost,
                 ipc, rest>>

\* With PCI_D0 it may leave D3hot, and it restores nothing.
SuspendEnd(t) ==
  /\ Goto(t, "suspending", "idle")
  /\ pci_set_power_state(req[t].d0)
  /\ lost' = IF Resets(req[t].d0) THEN Dwords ELSE lost
  /\ ioMutex' = Nobody
  /\ UNCHANGED <<req, i, ok, calls, intMutex, buffers, saved, stateSaved, last,
                 unsaved, ipc, rest>>

Resume(t) ==
  /\ Goto(t, "RESUME", "resuming")
  /\ ioMutex = Nobody /\ ioMutex' = t
  /\ pci_set_power_state(D0)
  /\ UNCHANGED <<req, i, ok, calls, intMutex, buffers, saved, stateSaved,
                 written, ipc, rest>>

ResumeEnd(t) ==
  /\ Goto(t, "resuming", "idle")
  /\ pci_restore_state
  /\ ioMutex' = Nobody
  /\ UNCHANGED <<req, i, ok, calls, intMutex, buffers, power, saved, last,
                 unsaved, ipc, rest>>

\* The state read under io_mutex and copied to the user.
GetPower(t) ==
  /\ Goto(t, "GET_POWER", "idle")
  /\ ioMutex = Nobody
  /\ UNCHANGED <<req, i, ok, calls, locks, buffers, pci, ipc, rest>>
-----------------------------------------------------------------------------
(* Waiting for the firmware. *)

\* wait_for_completion_timeout succeeds on the source s.
Wake(t, s) ==
  /\ intDone[s] > 0
  /\ intDone' = [intDone EXCEPT ![s] = @ - 1]
  /\ ok' = [ok EXCEPT ![t] = TRUE]

WaitInt(t) ==
  /\ ~Refused(req[t])
  /\ Goto(t, "WAIT_INT", "idle")
  /\ \/ Wake(t, req[t].b0)
     \/ UNCHANGED <<ok, intDone>>
  /\ UNCHANGED <<req, i, calls, locks, buffers, pci, firmware, irqs, mark, rest>>

\* The mailbox is written first; there is none for the DSP.
IpcSend(t) ==
  /\ ~Refused(req[t])
  /\ Goto(t, "IPC", "sent")
  /\ mbox' = mbox \cup ({req[t].b0} \ {"DSP"})
  /\ UNCHANGED <<req, i, ok, calls, locks, buffers, pci, raised, blocked, intDone,
                 irqs, mark, rest>>

\* Faulty variant: no reinit_completion.
IpcLockKeeps(t) ==
  LET s == req[t].b0 IN
  /\ Goto(t, "sent", "waiting")
  /\ intMutex[s] = Nobody /\ intMutex' = [intMutex EXCEPT ![s] = t]
  /\ mark' = [mark EXCEPT ![t] = irqs[s]]
  /\ UNCHANGED <<req, i, ok, calls, ioMutex, buffers, pci, firmware, intDone,
                 irqs, rest>>

IpcLock(t) ==
  LET s == req[t].b0 IN
  /\ Goto(t, "sent", "waiting")
  /\ intMutex[s] = Nobody /\ intMutex' = [intMutex EXCEPT ![s] = t]
  /\ intDone' = [intDone EXCEPT ![s] = 0]
  /\ mark' = [mark EXCEPT ![t] = irqs[s]]
  /\ UNCHANGED <<req, i, ok, calls, ioMutex, buffers, pci, firmware, irqs, rest>>

\* Faulty variant: a timeout returns with int_mutex held.
IpcEndHolds(t) ==
  LET s == req[t].b0 IN
  /\ Goto(t, "waiting", "idle")
  /\ \/ Wake(t, s) /\ intMutex' = [intMutex EXCEPT ![s] = Nobody]
     \/ UNCHANGED <<ok, intDone, intMutex>>
  /\ UNCHANGED <<req, i, calls, ioMutex, buffers, pci, firmware, irqs, mark, rest>>

\* The answer or the timeout.
IpcEnd(t) ==
  LET s == req[t].b0 IN
  /\ Goto(t, "waiting", "idle")
  /\ \/ Wake(t, s)
     \/ UNCHANGED <<ok, intDone>>
  /\ intMutex' = [intMutex EXCEPT ![s] = Nobody]
  /\ UNCHANGED <<req, i, calls, ioMutex, buffers, pci, firmware, irqs, mark, rest>>

\* The firmware takes a command, executes it and raises its response.
Answer(s) ==
  /\ s \in mbox
  /\ mbox' = mbox \ {s} /\ raised' = raised \cup {s}
  /\ UNCHANGED <<thread, locks, buffers, pci, blocked, intDone, irqs, mark, rest>>

\* A source is completed in test mode only.
Complete(s) ==
  LET n == IF testMode THEN 1 ELSE 0
  IN  /\ intDone' = [intDone EXCEPT ![s] = @ + n]
      /\ irqs' = [irqs EXCEPT ![s] = @ + n]

\* pcie_gpu_th under irq_lock; in test mode it takes io_mutex besides.
Handler(s) ==
  /\ s \in raised /\ blocked = {}
  /\ testMode => ioMutex = Nobody
  /\ raised' = raised \ {s} /\ Complete(s)
  /\ UNCHANGED <<thread, locks, buffers, pci, mbox, blocked, mark, rest>>

\* The hard interrupt handler sleeps, with irq_lock, on the mutex of a call ...
HandlerBlock(s) ==
  /\ s \in raised /\ blocked = {}
  /\ testMode /\ ioMutex # Nobody
  /\ raised' = raised \ {s} /\ blocked' = {s}
  /\ UNCHANGED <<thread, locks, buffers, pci, mbox, intDone, irqs, mark, rest>>

\* ... and goes on after it, if it ever can.
HandlerWake(s) ==
  /\ s \in blocked /\ ioMutex = Nobody
  /\ blocked' = {} /\ Complete(s)
  /\ UNCHANGED <<thread, locks, buffers, pci, mbox, raised, mark, rest>>
-----------------------------------------------------------------------------
\* map_exp_rom: no resource or no enable; ioremap fails; or it is mapped.
RomMap(t) ==
  /\ \/ Goto(t, "READ_ROM", "idle") /\ UNCHANGED romOn
     \/ Goto(t, "READ_ROM", "idle") /\ romOn' = FALSE
     \/ Goto(t, "READ_ROM", "mapped") /\ romOn' = TRUE
  /\ UNCHANGED <<req, i, ok, calls, locks, buffers, pci, ipc, mix,
                 testMode, isrDmabare>>

RomUnmap(t) ==
  /\ Goto(t, "mapped", "idle")
  /\ romOn' = FALSE
  /\ UNCHANGED <<req, i, ok, calls, locks, buffers, pci, ipc, mix,
                 testMode, isrDmabare>>

DmaIsrSet(t) ==
  /\ Goto(t, "DMAISR_SET", "idle")
  /\ isrDmabare' = (req[t].b0 # 0)
  /\ UNCHANGED <<req, i, ok, calls, locks, buffers, pci, ipc, mix, testMode,
                 romOn>>

Step(t) ==
  \/ ParamError(t) \/ Alloc(t) \/ CopyIn(t) \/ Access(t)
  \/ TailByte(t) \/ AccessEnd(t)
  \/ Suspend(t) \/ SuspendEnd(t) \/ Resume(t) \/ ResumeEnd(t) \/ GetPower(t)
  \/ WaitInt(t) \/ IpcSend(t) \/ IpcLock(t) \/ IpcEnd(t)
  \/ RomMap(t) \/ RomUnmap(t) \/ DmaIsrSet(t)

Next ==
  \/ \E t \in Threads : Enter(t) \/ Step(t)
  \/ \E s \in Targets : Answer(s) \/ Handler(s) \/ HandlerBlock(s) \/ HandlerWake(s)

Spec == Init /\ [][Next]_vars

\* Every wait has a timeout, so a thread in a call goes on; mutexes are served
\* because a thread makes boundedly many calls.  A handler that sleeps is owed
\* nothing.
FairSpec == Spec /\ \A t \in Threads : WF_vars(Step(t))
-----------------------------------------------------------------------------
(* Properties. *)

\* Whenever no power operation is under way, every dword of the configuration
\* space holds what was last written there, and in D3hot pci_save_state's copy
\* holds it too: no interleaving of SUSPEND, RESUME and CFG_RW (which falls
\* through into SUSPEND) saves the reset space over the only good copy.  Two
\* losses are excepted, in lost, until the dword is written again: a RESUME that
\* comes between a write of CFG_RW, which takes no lock, and the SUSPEND after
\* it puts the older value back, and SUSPEND with PCI_D0 out of D3hot restores
\* nothing.  In D3hot such a write is not in the copy yet.
Restorable ==
  ioMutex = Nobody =>
    \A d \in Dwords \ lost :
      /\ config[d] = last[d]
      /\ power = D3hot /\ d \notin unsaved => stateSaved /\ saved[d] = last[d]

\* An IPC that reports success was woken by a response interrupt that came
\* after its own reinit_completion, whoever else waits for the source.
IpcFresh ==
  \A t \in Threads :
    pc[t] = "idle" /\ req[t].cmd = "IPC" /\ ok[t] => irqs[req[t].b0] > mark[t]

\* Every ioctl returns: nobody waits for ever for io_mutex or int_mutex, as long
\* as no handler stays asleep on io_mutex (on the CPU of the holder it would).
CallReturns ==
  []<>(blocked = {}) => \A t \in Threads : pc[t] # "idle" ~> pc[t] = "idle"
=============================================================================
