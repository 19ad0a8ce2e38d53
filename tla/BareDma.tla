------------------------------ MODULE BareDma ------------------------------
(***************************************************************************)
(* The bare DMA path of the driver: threads in MT_IOCTL_MTDMA_BARE_RW that *)
(* call dma_bare_xfer() on a channel, the DMA engine of the channel, and   *)
(* the interrupt handler emu_dma_isr() / dma_bare_isr() that wakes them.   *)
(*                                                                         *)
(* One emu_pcie is modelled: a PF (devfn 0 or 1), whose channels are       *)
(* merged into one interrupt, or a VF (devfn >= 2), with one read and one  *)
(* write channel of its own.  pcie_th() runs under irq_lock, so one        *)
(* handler runs at a time.                                                 *)
(*                                                                         *)
(* The data of a transfer is the identity of the call that asked for it:   *)
(* desc[c] says whose descriptors the registers of c hold, run[c] whose    *)
(* descriptors the engine executes.  A call that has stopped waiting is    *)
(* Stale from then on.                                                     *)
(***************************************************************************)
EXTENDS Integers, FiniteSets

CONSTANTS
  Threads,     \* user threads inside the ioctl
  Idx,         \* channel indices of the function
  DevFn,       \* emu_pcie->devfn
  VfNum,       \* VF_NUM of the build
  Requests,    \* the calls of each thread: <<data_direction, ch_num, desc_cnt # 0>>
  HwOutcomes,  \* the sets of RAW bits the engine may raise when it stops
  Nobody, Stale

Chan == {"rd", "wr"} \X Idx
Bits == {"done", "err"}
IsPf == DevFn < 2
Directions == {"MEM_TO_MEM", "MEM_TO_DEV", "DEV_TO_MEM", "DEV_TO_DEV"}

ASSUME ConstantsAssumption ==
  /\ Idx \subseteq Nat /\ 0 \in Idx
  /\ DevFn \in Nat /\ VfNum \in Nat
  /\ ~IsPf => Idx = {0}
  /\ Requests \in [Threads -> SUBSET (Directions \X Idx \X BOOLEAN)]
  /\ HwOutcomes \subseteq (SUBSET Bits) \ {{}}
  /\ Nobody \notin Threads /\ Stale \notin Threads /\ Nobody # Stale

VARIABLES
  pc,        \* where each thread is in dma_bare_xfer
  ch,        \* the channel of the call
  chain,     \* desc_cnt != 0: chain or block mode; else single mode
  got,       \* ret of wait_for_completion_timeout, as a Boolean
  ret,       \* emu_param.b0: -1 while the call runs
  mtx,       \* int_mutex of each channel
  intDone,   \* int_done.done of each channel
  intError,  \* int_error of each channel
  desc,      \* channel registers: whose request is programmed
  run,       \* engine: whose request is executed
  raw,       \* REG_DMA_CH_INTR_RAW
  mrgMask,   \* REG_DMA_COMM_MRG_PF0_IMSK, bits 0 ("rd") and 16 ("wr")
  ipc,       \* where the interrupt handler is
  idir,      \* the merged direction it serves
  pend,      \* channels it still has to look at
  cur,       \* the channel given to dma_bare_isr
  val,       \* the RAW value dma_bare_isr read
  own,       \* history: what the engine raised for the thread's own request
  clean      \* history: was the channel quiet when the call locked it?

thread == <<pc, ch, chain, got, ret>>
sync   == <<mtx, intDone, intError>>
hw     == <<desc, run, raw>>
isr    == <<mrgMask, ipc, idir, pend, cur, val>>
hist   == <<own, clean>>
vars   == <<thread, sync, hw, isr, hist>>

Held == {"prog", "enable", "wait", "unlock"}

\* dma_bare_isr is running for channel c.
InIsr(c) == ipc \in {"raw", "ack", "complete"} /\ cur = c

\* Nothing that could still produce a completion of an earlier call is left
\* in the hardware or in the handler.
Quiet(c) == run[c] = Nobody /\ "done" \notin raw[c] /\ ~InIsr(c)

Init ==
  /\ pc = [t \in Threads |-> "idle"]
  /\ ch = [t \in Threads |-> <<"rd", 0>>]
  /\ chain = [t \in Threads |-> TRUE]
  /\ got = [t \in Threads |-> FALSE]
  /\ ret = [t \in Threads |-> -1]
  /\ mtx = [c \in Chan |-> Nobody]
  /\ intDone = [c \in Chan |-> 0]
  /\ intError = [c \in Chan |-> 0]
  /\ desc = [c \in Chan |-> Stale]
  /\ run = [c \in Chan |-> Nobody]
  /\ raw = [c \in Chan |-> {}]
  /\ mrgMask = {}
  /\ ipc = "idle" /\ idir = "rd" /\ pend = {} /\ cur = <<"rd", 0>> /\ val = {}
  /\ own = [t \in Threads |-> {}]
  /\ clean = [t \in Threads |-> FALSE]
-----------------------------------------------------------------------------
(* dma_bare_xfer *)

Goto(t, from, to) == pc[t] = from /\ pc' = [pc EXCEPT ![t] = to]

\* The ioctl picks the channel: index 0 whenever the build has VFs.
SelectChan(direction, chNum) ==
  << IF direction \in {"MEM_TO_MEM", "MEM_TO_DEV"} THEN "rd" ELSE "wr",
     IF VfNum > 0 THEN 0 ELSE chNum >>

Call(t, direction, chNum, isChain) ==
  /\ Goto(t, "idle", "lock")
  /\ ch' = [ch EXCEPT ![t] = SelectChan(direction, chNum)]
  /\ chain' = [chain EXCEPT ![t] = isChain]
  /\ UNCHANGED <<got, ret, sync, hw, isr, hist>>

\* An unknown direction returns -1, 255 in the u8 b0, before the mutex.
CallBadDirection(t) ==
  /\ Goto(t, "idle", "ret")
  /\ ret' = [ret EXCEPT ![t] = 255]
  /\ UNCHANGED <<ch, chain, got, sync, hw, isr, hist>>

\* Faulty variant: the channel is not protected by int_mutex.
LockWithoutMutex(t) ==
  LET c == ch[t] IN
  /\ Goto(t, "lock", "prog")
  /\ mtx' = [mtx EXCEPT ![c] = t]
  /\ intDone' = [intDone EXCEPT ![c] = 0]
  /\ clean' = [clean EXCEPT ![t] = Quiet(c)]
  /\ UNCHANGED <<ch, chain, got, ret, intError, hw, isr, own>>

\* Faulty variant: reinit_completion is missing.
LockWithoutReinit(t) ==
  LET c == ch[t] IN
  /\ Goto(t, "lock", "prog")
  /\ mtx[c] = Nobody
  /\ mtx' = [mtx EXCEPT ![c] = t]
  /\ clean' = [clean EXCEPT ![t] = Quiet(c)]
  /\ UNCHANGED <<ch, chain, got, ret, intDone, intError, hw, isr, own>>

\* mutex_lock and reinit_completion.  A complete() between the two is undone
\* by the second, exactly as one before the first.
Lock(t) ==
  LET c == ch[t] IN
  /\ Goto(t, "lock", "prog")
  /\ mtx[c] = Nobody
  /\ mtx' = [mtx EXCEPT ![c] = t]
  /\ intDone' = [intDone EXCEPT ![c] = 0]
  /\ clean' = [clean EXCEPT ![t] = Quiet(c)]
  /\ UNCHANGED <<ch, chain, got, ret, intError, hw, isr, own>>

\* int_error is cleared and the descriptors are written.  Single mode tests
\* the uninitialised i: when it is not 0 the channel registers keep what
\* they held and the descriptor goes through an uninitialised pointer.
Program(t) ==
  LET c == ch[t] IN
  /\ Goto(t, "prog", "enable")
  /\ intError' = [intError EXCEPT ![c] = 0]
  /\ \/ desc' = [desc EXCEPT ![c] = t]
     \/ ~chain[t] /\ desc' = desc
  /\ UNCHANGED <<ch, chain, got, ret, mtx, intDone, run, raw, isr, hist>>

\* IMSK, DIRECTION and ENABLE are written.  Nothing stops an engine that
\* still runs a request whose caller timed out: it may be restarted, or go
\* on and ignore the enable.
Enable(t) ==
  LET c == ch[t] IN
  /\ Goto(t, "enable", "wait")
  /\ \/ run' = [run EXCEPT ![c] = desc[c]]
     \/ run[c] # Nobody /\ run' = run
  /\ UNCHANGED <<ch, chain, got, ret, sync, desc, raw, isr, hist>>

\* From here on the call of t is over for the hardware: what it left in the
\* registers or in the engine belongs to nobody who waits.
Forget(t) ==
  LET stale(x) == IF x = t THEN Stale ELSE x IN
  /\ desc' = [c \in Chan |-> stale(desc[c])]
  /\ run' = [c \in Chan |-> stale(run[c])]

\* wait_for_completion_timeout finds a completion, or the time is over with
\* none.
WaitDone(t) ==
  LET c == ch[t] IN
  /\ Goto(t, "wait", "unlock")
  /\ intDone[c] > 0
  /\ intDone' = [intDone EXCEPT ![c] = @ - 1]
  /\ got' = [got EXCEPT ![t] = TRUE]
  /\ Forget(t)
  /\ UNCHANGED <<ch, chain, ret, mtx, intError, raw, isr, hist>>

WaitTimeout(t) ==
  /\ Goto(t, "wait", "unlock")
  /\ intDone[ch[t]] = 0
  /\ got' = [got EXCEPT ![t] = FALSE]
  /\ Forget(t)
  /\ own' = [own EXCEPT ![t] = {}]
  /\ clean' = [clean EXCEPT ![t] = FALSE]
  /\ UNCHANGED <<ch, chain, ret, sync, raw, isr>>

\* Faulty variant: the timeout path returns with the mutex held.
UnlockUnlessTimeout(t) ==
  /\ Goto(t, "unlock", "result")
  /\ mtx' = IF got[t] THEN [mtx EXCEPT ![ch[t]] = Nobody] ELSE mtx
  /\ UNCHANGED <<ch, chain, got, ret, intDone, intError, hw, isr, hist>>

Unlock(t) ==
  /\ Goto(t, "unlock", "result")
  /\ mtx' = [mtx EXCEPT ![ch[t]] = Nobody]
  /\ UNCHANGED <<ch, chain, got, ret, intDone, intError, hw, isr, hist>>

\* int_error is read after the mutex was released.
Return(t) ==
  /\ Goto(t, "result", "ret")
  /\ ret' = [ret EXCEPT ![t] = IF ~got[t] THEN 0
                               ELSE IF intError[ch[t]] = 1 THEN 2 ELSE 1]
  /\ UNCHANGED <<ch, chain, got, sync, hw, isr, hist>>

\* copy_to_user and the end of the ioctl: the locals of the call are gone.
Leave(t) ==
  /\ Goto(t, "ret", "idle")
  /\ ch' = [ch EXCEPT ![t] = <<"rd", 0>>]
  /\ chain' = [chain EXCEPT ![t] = TRUE]
  /\ got' = [got EXCEPT ![t] = FALSE]
  /\ ret' = [ret EXCEPT ![t] = -1]
  /\ own' = [own EXCEPT ![t] = {}]
  /\ clean' = [clean EXCEPT ![t] = FALSE]
  /\ UNCHANGED <<sync, hw, isr>>
-----------------------------------------------------------------------------
(* The engine of a channel: it stops and raises RAW bits. *)

HwStop(c, o) ==
  /\ run[c] # Nobody
  /\ run' = [run EXCEPT ![c] = Nobody]
  /\ raw' = [raw EXCEPT ![c] = @ \cup o]
  /\ own' = [t \in Threads |-> IF t = run[c] THEN o ELSE own[t]]
  /\ UNCHANGED <<thread, sync, desc, isr, clean>>
-----------------------------------------------------------------------------
(* emu_dma_isr and dma_bare_isr *)

\* The channels whose status bit the PF sees: mtdma_comm_init masks those of
\* the VFs in RD/WR_MRG_PF0_IMSK.
Merged(d) == {c \in Chan : c[1] = d /\ c[2] >= VfNum /\ raw[c] # {}}

\* REG_DMA_COMM_MRG_PF0_STS
MrgSts == {d \in {"rd", "wr"} : d \notin mrgMask /\ Merged(d) # {}}

\* PF: the read branch is taken first, the write branch only without it.
IsrEnterPf ==
  /\ IsPf
  /\ ipc = "idle"
  /\ MrgSts # {}
  /\ idir' = IF "rd" \in MrgSts THEN "rd" ELSE "wr"
  /\ mrgMask' = mrgMask \cup {idir'}
  /\ ipc' = "read"
  /\ UNCHANGED <<thread, sync, hw, pend, cur, val, hist>>

\* RD/WR_MRG_PF0_STS_C32 and _C64
IsrReadPf ==
  /\ ipc = "read"
  /\ pend' = Merged(idir)
  /\ ipc' = "scan"
  /\ UNCHANGED <<thread, sync, hw, mrgMask, idir, cur, val, hist>>

\* VF: vectors 2 and 3 look at both channels of the function.
IsrEnterVf ==
  /\ ~IsPf
  /\ ipc = "idle"
  /\ \E c \in Chan : raw[c] # {}
  /\ pend' = Chan
  /\ ipc' = "scan"
  /\ UNCHANGED <<thread, sync, hw, mrgMask, idir, cur, val, hist>>

\* The order of the loop over the channels, read before write.
Before(c, d) == (c[1] = "rd" /\ d[1] = "wr") \/ (c[1] = d[1] /\ c[2] <= d[2])

\* One channel of the loop: dma_bare_isr is called only for a set DONE bit.
IsrScan ==
  /\ ipc = "scan"
  /\ \E c \in pend :
       /\ \A d \in pend : Before(c, d)
       /\ pend' = pend \ {c}
       /\ cur' = c
       /\ ipc' = IF "done" \in raw[c] THEN "raw" ELSE "scan"
  /\ UNCHANGED <<thread, sync, hw, mrgMask, idir, val, hist>>

BareIsrRead ==
  /\ ipc = "raw"
  /\ val' = raw[cur]
  /\ intError' = [intError EXCEPT ![cur] =
       IF "done" \in raw[cur] THEN 0 ELSE IF "err" \in raw[cur] THEN 1 ELSE @]
  /\ ipc' = "ack"
  /\ UNCHANGED <<thread, mtx, intDone, hw, mrgMask, idir, pend, cur, hist>>

\* Faulty variant: an error bit ends the handler before complete().
BareIsrAckErrorReturn ==
  /\ ipc = "ack"
  /\ raw' = [raw EXCEPT ![cur] = @ \ val]
  /\ ipc' = IF "err" \in val THEN "scan" ELSE "complete"
  /\ UNCHANGED <<thread, sync, desc, run, mrgMask, idir, pend, cur, val, hist>>

\* Writing val back clears exactly the bits that were read.
BareIsrAck ==
  /\ ipc = "ack"
  /\ raw' = [raw EXCEPT ![cur] = @ \ val]
  /\ ipc' = "complete"
  /\ UNCHANGED <<thread, sync, desc, run, mrgMask, idir, pend, cur, val, hist>>

BareIsrComplete ==
  /\ ipc = "complete"
  /\ intDone' = [intDone EXCEPT ![cur] = @ + 1]
  /\ ipc' = "scan"
  /\ val' = {}
  /\ UNCHANGED <<thread, mtx, intError, hw, mrgMask, idir, pend, cur, hist>>

\* Faulty variant: the merged interrupt stays masked.
IsrExitMasked ==
  /\ ipc = "scan" /\ pend = {}
  /\ ipc' = "idle"
  /\ idir' = "rd" /\ cur' = <<"rd", 0>>
  /\ UNCHANGED <<thread, sync, hw, mrgMask, pend, val, hist>>

IsrExit ==
  /\ ipc = "scan" /\ pend = {}
  /\ mrgMask' = IF IsPf THEN mrgMask \ {idir} ELSE mrgMask
  /\ ipc' = "idle"
  /\ idir' = "rd" /\ cur' = <<"rd", 0>>
  /\ UNCHANGED <<thread, sync, hw, pend, val, hist>>
-----------------------------------------------------------------------------
Waiting(t) == WaitDone(t) \/ WaitTimeout(t)

Handler == \/ IsrEnterPf \/ IsrReadPf \/ IsrEnterVf \/ IsrScan
           \/ BareIsrRead \/ BareIsrAck \/ BareIsrComplete \/ IsrExit

Next ==
  \/ \E t \in Threads :
       \/ \E q \in Requests[t] : Call(t, q[1], q[2], q[3])
       \/ CallBadDirection(t)
       \/ Lock(t) \/ Program(t) \/ Enable(t) \/ WaitDone(t) \/ WaitTimeout(t)
       \/ Unlock(t) \/ Return(t) \/ Leave(t)
  \/ \E c \in Chan, o \in HwOutcomes : HwStop(c, o)
  \/ Handler

Spec == Init /\ [][Next]_vars

\* A thread inside the driver runs; the timer of a wait fires; a mutex is
\* handed to its waiters in turn; an asserted interrupt is delivered and its
\* handler runs to its end.  No engine is required to stop.
Fairness ==
  /\ \A t \in Threads :
       /\ SF_vars(Lock(t))
       /\ WF_vars(Program(t) \/ Enable(t) \/ Unlock(t) \/ Return(t) \/ Leave(t))
       /\ WF_vars(Waiting(t))
  /\ WF_vars(Handler)

FairSpec == Spec /\ Fairness
-----------------------------------------------------------------------------
TypeOK ==
  /\ pc \in [Threads -> {"idle", "lock", "result", "ret"} \cup Held]
  /\ ch \in [Threads -> Chan]
  /\ chain \in [Threads -> BOOLEAN]
  /\ got \in [Threads -> BOOLEAN]
  /\ ret \in [Threads -> {-1, 0, 1, 2, 255}]
  /\ mtx \in [Chan -> Threads \cup {Nobody}]
  /\ intDone \in [Chan -> Nat]
  /\ intError \in [Chan -> {0, 1}]
  /\ desc \in [Chan -> Threads \cup {Stale}]
  /\ run \in [Chan -> Threads \cup {Nobody, Stale}]
  /\ raw \in [Chan -> SUBSET Bits]
  /\ mrgMask \subseteq {"rd", "wr"}
  /\ ipc \in {"idle", "read", "scan", "raw", "ack", "complete"}
  /\ idir \in {"rd", "wr"}
  /\ pend \subseteq Chan /\ cur \in Chan /\ val \subseteq Bits
  /\ own \in [Threads -> SUBSET Bits]
  /\ clean \in [Threads -> BOOLEAN]

\* From the moment a chain or block call has written its descriptors until it
\* stops waiting, the channel holds that call's descriptors: int_mutex keeps
\* every other caller of the channel out for the whole wait.
RegistersOwned ==
  \A t \in Threads :
    pc[t] \in {"enable", "wait"} /\ chain[t] => desc[ch[t]] = t

\* A DONE interrupt of a call that still waits is never lost: it is in the
\* RAW register, or in dma_bare_isr between the acknowledge and complete(),
\* or counted in int_done.  (reinit_completion comes before the enable, the
\* acknowledge clears only what was read, and complete follows it.)
NoLostDone ==
  \A t \in Threads :
    pc[t] = "wait" /\ "done" \in own[t] =>
      \/ "done" \in raw[ch[t]]
      \/ ipc = "complete" /\ cur = ch[t]
      \/ intDone[ch[t]] > 0

\* A chain or block call that locked its channel while nothing of an earlier
\* call was left in the engine or the handler returns 1 only if the engine
\* raised DONE for its own descriptors: a completion counted before the lock
\* never satisfies the wait.
OwnDone ==
  \A t \in Threads :
    ret[t] = 1 /\ clean[t] /\ chain[t] => "done" \in own[t]

\* While the engine executes the descriptors of a caller that waits, no step
\* rewrites the registers of the channel.
NoReprogram ==
  [][\A t \in Threads, c \in Chan :
       run[c] = t /\ pc[t] = "wait" /\ pc'[t] = "wait" => desc'[c] = desc[c]]_vars

\* Every ioctl returns, whatever the engine does: the wait has a timeout and
\* the mutex is always released.
XferReturns == \A t \in Threads : pc[t] = "lock" ~> pc[t] = "idle"

\* Every DONE bit of a read channel is acknowledged by the handler.  On a PF
\* emu_dma_isr looks at the write channels only when no read channel is pending,
\* so they have no such guarantee.
ReadDoneAcked ==
  \A c \in Chan : c[1] = "rd" => ("done" \in raw[c] ~> "done" \notin raw[c])

\* A call that returns 1 transferred its data, whatever happened on the
\* channel before it.
SuccessIsOwn ==
  \A t \in Threads :
    ret[t] = 1 /\ chain[t] => "done" \in own[t]
=============================================================================
