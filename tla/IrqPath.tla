------------------------------ MODULE IrqPath ------------------------------
(***************************************************************************)
(* The interrupt path of one function, a GPU, a VGPU (VF) or APU: threads  *)
(* in the ioctls WAIT_INT, TRIG_INT, IRQ_INIT, SUSPEND, RESUME and         *)
(* GET_POWER, and the handler pcie_th() of every interrupt vector.         *)
(*                                                                         *)
(* A source is a bit of INT_MUX_SRC_SOFT, a target is a vector.  A target  *)
(* is asserted while one of its sources or the soft bit of TARGET_SOFT is  *)
(* set and it is not masked; mask bits are bit 16 of TARGET_MASK and of    *)
(* TARGET_SOFT.  Linux runs one instance of a vector's handler at a time;  *)
(* free_irq() removes it and waits for the instance that runs.             *)
(* The handlers run in hard-interrupt context and call mutex_lock() all    *)
(* the same.  A free io_mutex is taken at once.  If it is held the handler *)
(* would have to sleep, which it cannot: it is blocked, with irq_lock, and *)
(* may or may not get the mutex later.                                     *)
(***************************************************************************)
EXTENDS Integers, FiniteSets

CONSTANTS
  Threads,    \* user threads
  Irqs,       \* vectors: 0 .. N - 1
  Srcs,       \* sources
  Confs,      \* what the model may start from: a function of kind "GPU",
              \* "VGPU" or "APU", irq_test_mode as the last irq_init left it
              \* (mode), and the ioctls of each thread (ops)
  VfReset,    \* the sources that irq_init resets on a VF: 4
  MaxOwed,    \* bound: completions of a vector that nobody has waited for
  Nobody

Types == {"DISABLE", "LEGACY", "MSI", "MSIX", "OTHER"}
Vectors(n) == {q \in Irqs : q < n}

Operations ==
  ({"trig", "raise", "clear"} \X Srcs) \cup ({"wait", "soft"} \X Irqs) \cup
  {<<"power">>} \cup ({"init"} \X Types \X BOOLEAN)

ASSUME IrqAssumption ==
  /\ Irqs = 0 .. (Cardinality(Irqs) - 1) /\ IsFiniteSet(Irqs) /\ 0 \in Irqs
  /\ Srcs \subseteq Nat /\ IsFiniteSet(Srcs)
  /\ \A c \in Confs :
       /\ DOMAIN c = {"kind", "mode", "ops"}
       /\ c.kind \in {"GPU", "VGPU", "APU"} /\ c.mode \in BOOLEAN
       /\ DOMAIN c.ops = Threads
       /\ \A t \in Threads : c.ops[t] \subseteq Operations
       /\ c.kind = "VGPU" => Srcs \subseteq Irqs
  /\ VfReset \in Nat /\ MaxOwed \in Nat
  /\ Nobody \notin Threads \cup Irqs \cup Srcs /\ Threads \cap Irqs = {}

VARIABLES
  conf,      \* one of Confs
  pc,        \* where each thread is
  arg,       \* its ioctl
  ret,       \* the result of irq_init: 0 or -1
  bit,       \* TRIG_INT: the SRC_SOFT bit it read
  ioMutex,   \* io_mutex
  irqLock,   \* irq_lock
  intDone,   \* int_done[irq].done
  testMode,  \* irq_test_mode
  vecNum,    \* vec_num
  allocated, \* irq_allocated
  vectors,   \* kernel: the vectors of the PCI device
  registered,\* kernel: the vectors with a handler
  cursor,    \* i of the loops of irq_init and qy_free_irq
  src,       \* the sources with a set SRC_SOFT bit
  tgtSoft,   \* TARGET_SOFT: "soft" is bit 0, "mask" bit 16
  tgtMask,   \* TARGET_MASK bit 16
  hpc,       \* where the handler of each vector is
  hsrc,      \* the source it claimed
  saved,     \* its int_reg
  owed       \* history: interrupts accepted and not yet waited for

thread == <<pc, arg, ret, bit>>
locks  == <<ioMutex, irqLock>>
state  == <<testMode, vecNum, allocated, vectors, registered, cursor>>
mux    == <<src, tgtSoft, tgtMask>>
handler == <<hpc, hsrc, saved>>
vars   == <<conf, thread, locks, intDone, state, mux, handler, owed>>

\* The routing that irq_init writes to INT_MUX_ENABLE: every source of a GPU to
\* target 0, source i of a VF to target i.  The user of an APU routes to the
\* one target it has.
Route(s) == IF conf.kind = "VGPU" THEN s ELSE 0

Pending(q) == {s \in src : Route(s) = q}

Asserted(q) ==
  /\ Pending(q) # {} \/ "soft" \in tgtSoft[q]
  /\ "mask" \notin tgtSoft[q] /\ ~tgtMask[q]

\* The most vectors that irq_init asks for, by its type; an APU has one.
MaxVectors(type) ==
  IF type = "LEGACY" \/ conf.kind = "APU" THEN 1 ELSE Cardinality(Irqs)

Init ==
  /\ conf \in Confs
  /\ pc = [t \in Threads |-> "idle"]
  /\ arg = [t \in Threads |-> <<>>]
  /\ ret = [t \in Threads |-> 0]
  /\ bit = [t \in Threads |-> FALSE]
  /\ ioMutex = Nobody /\ irqLock = Nobody
  /\ intDone = [q \in Irqs |-> 0]
  /\ testMode = conf.mode
  /\ vecNum = MaxVectors("MSI") /\ vectors = Vectors(vecNum)
  /\ allocated = vectors /\ registered = vectors /\ cursor = 0
  /\ src = {}
  /\ tgtSoft = [q \in Irqs |-> {}]
  /\ tgtMask = [q \in Irqs |-> FALSE]
  /\ hpc = [q \in Irqs |-> "idle"]
  /\ hsrc = [q \in Irqs |-> Nobody]
  /\ saved = [q \in Irqs |-> {}]
  /\ owed = [q \in Irqs |-> 0]
-----------------------------------------------------------------------------
Goto(t, from, to) == pc[t] = from /\ pc' = [pc EXCEPT ![t] = to]

\* The vector that an operation raises an interrupt on.
Raises(o) == IF o[1] \in {"trig", "raise"} THEN {Route(o[2])}
             ELSE IF o[1] = "soft" THEN {o[2]} ELSE {}

\* An ioctl starts with its parameters in range.  MaxOwed bounds the model.
Call(t, o) ==
  /\ Goto(t, "idle", o[1])
  /\ \A q \in Raises(o) : owed[q] < MaxOwed
  /\ arg' = [arg EXCEPT ![t] = o]
  /\ UNCHANGED <<conf, ret, bit, locks, intDone, state, mux, handler, owed>>

\* End of an ioctl.
Leave(t) ==
  /\ Goto(t, "leave", "idle")
  /\ arg' = [arg EXCEPT ![t] = <<>>]
  /\ ret' = [ret EXCEPT ![t] = 0]
  /\ bit' = [bit EXCEPT ![t] = FALSE]
  /\ UNCHANGED <<conf, locks, intDone, state, mux, handler, owed>>
-----------------------------------------------------------------------------
(* TRIG_INT: read SRC_SOFT and set it if it is clear, under irq_lock.  On  *)
(* an APU it writes nothing.                                               *)

\* Faulty variant: the register is read without irq_lock.
TrigReadUnlocked(t) ==
  /\ Goto(t, "trig", "set")
  /\ bit' = [bit EXCEPT ![t] = arg[t][2] \in src]
  /\ UNCHANGED <<conf, arg, ret, locks, intDone, state, mux, handler, owed>>

TrigRead(t) ==
  /\ Goto(t, "trig", "set")
  /\ irqLock = Nobody
  /\ irqLock' = t
  /\ bit' = [bit EXCEPT ![t] = arg[t][2] \in src]
  /\ UNCHANGED <<conf, arg, ret, ioMutex, intDone, state, mux, handler, owed>>

TrigWrite(t) ==
  LET s == arg[t][2]
      q == Route(s)
      none == bit[t] \/ conf.kind = "APU"
  IN
  /\ Goto(t, "set", "leave")
  /\ src' = IF none THEN src ELSE src \cup {s}
  /\ owed' = IF none THEN owed ELSE [owed EXCEPT ![q] = @ + 1]
  /\ irqLock' = Nobody
  /\ UNCHANGED <<conf, arg, ret, bit, ioMutex, intDone, state, tgtSoft, tgtMask, handler>>
-----------------------------------------------------------------------------
(* WAIT_INT; a register written through the BAR; the power ioctls. *)

WaitDone(t) ==
  LET q == arg[t][2] IN
  /\ Goto(t, "wait", "leave")
  /\ intDone[q] > 0
  /\ intDone' = [intDone EXCEPT ![q] = @ - 1]
  /\ owed' = [owed EXCEPT ![q] = @ - 1]
  /\ UNCHANGED <<conf, arg, ret, bit, locks, state, mux, handler>>

WaitTimeout(t) ==
  /\ Goto(t, "wait", "leave")
  /\ intDone[arg[t][2]] = 0
  /\ UNCHANGED <<conf, arg, ret, bit, locks, intDone, state, mux, handler, owed>>

\* The user writes 1 to TARGET_SOFT.
BarSoft(t) ==
  /\ Goto(t, "soft", "leave")
  /\ tgtSoft' = [tgtSoft EXCEPT ![arg[t][2]] = {"soft"}]
  /\ UNCHANGED <<conf, arg, ret, bit, locks, intDone, state, src, tgtMask, handler, owed>>

\* The user writes 1 to SRC_SOFT.
BarRaise(t) ==
  LET s == arg[t][2] IN
  /\ Goto(t, "raise", "leave")
  /\ src' = src \cup {s}
  /\ owed' = IF s \in src THEN owed ELSE [owed EXCEPT ![Route(s)] = @ + 1]
  /\ UNCHANGED <<conf, arg, ret, bit, locks, intDone, state, tgtSoft, tgtMask, handler>>

\* The user writes 0 to SRC_SOFT: an interrupt that is still pending is
\* withdrawn.
BarClear(t) ==
  LET s == arg[t][2] IN
  /\ Goto(t, "clear", "leave")
  /\ src' = src \ {s}
  /\ owed' = IF s \in src THEN [owed EXCEPT ![Route(s)] = @ - 1] ELSE owed
  /\ UNCHANGED <<conf, arg, ret, bit, locks, intDone, state, tgtSoft, tgtMask, handler>>

PowerLock(t) ==
  /\ Goto(t, "power", "powered")
  /\ ioMutex = Nobody
  /\ ioMutex' = t
  /\ UNCHANGED <<conf, arg, ret, bit, irqLock, intDone, state, mux, handler, owed>>

\* SUSPEND, RESUME and GET_POWER.  The power state is kept by the PCI core.
PowerUnlock(t) ==
  /\ Goto(t, "powered", "leave")
  /\ ioMutex' = Nobody
  /\ UNCHANGED <<conf, arg, ret, bit, irqLock, intDone, state, mux, handler, owed>>
-----------------------------------------------------------------------------
(* IRQ_INIT: irq_init() under io_mutex. *)

InitLock(t) ==
  /\ Goto(t, "init", "free")
  /\ ioMutex = Nobody
  /\ ioMutex' = t
  /\ cursor' = 0
  /\ UNCHANGED <<conf, arg, ret, bit, irqLock, intDone, testMode, vecNum,
                 allocated, vectors, registered, mux, handler, owed>>

\* qy_free_irq: free_irq of the next vector begins.
FreeIrq(t) ==
  /\ pc[t] = "free" /\ cursor < vecNum
  /\ IF cursor \in allocated
     THEN /\ registered' = registered \ {cursor}
          /\ pc' = [pc EXCEPT ![t] = "sync"]
          /\ cursor' = cursor
     ELSE cursor' = cursor + 1 /\ UNCHANGED <<registered, pc>>
  /\ UNCHANGED <<conf, arg, ret, bit, locks, intDone, testMode, vecNum,
                 allocated, vectors, mux, handler, owed>>

\* Faulty variant: free_irq does not wait for the handler.
FreeSyncNot(t) ==
  /\ Goto(t, "sync", "free")
  /\ allocated' = allocated \ {cursor}
  /\ cursor' = cursor + 1
  /\ UNCHANGED <<conf, arg, ret, bit, locks, intDone, testMode, vecNum,
                 vectors, registered, mux, handler, owed>>

\* free_irq has waited for the handler.
FreeSync(t) ==
  /\ Goto(t, "sync", "free")
  /\ hpc[cursor] = "idle"
  /\ allocated' = allocated \ {cursor}
  /\ cursor' = cursor + 1
  /\ UNCHANGED <<conf, arg, ret, bit, locks, intDone, testMode, vecNum,
                 vectors, registered, mux, handler, owed>>

FreeVectors(t) ==
  /\ pc[t] = "free" /\ cursor = vecNum
  /\ vectors' = IF vecNum > 0 THEN {} ELSE vectors
  /\ vecNum' = 0
  /\ LET type == arg[t][2] IN
     IF type \in {"DISABLE", "OTHER"} \/ (conf.kind = "VGPU" /\ type = "LEGACY")
     THEN /\ pc' = [pc EXCEPT ![t] = "unlock"]
          /\ ret' = [ret EXCEPT ![t] = IF type = "DISABLE" THEN 0 ELSE -1]
     ELSE pc' = [pc EXCEPT ![t] = "alloc"] /\ ret' = ret
  /\ UNCHANGED <<conf, arg, bit, locks, intDone, testMode, allocated,
                 registered, cursor, mux, handler, owed>>

\* pci_alloc_irq_vectors gives n vectors, or none; then the mode is set and the
\* multiplexer is reset.  A VF resets the first VfReset sources only, an APU
\* nothing.
AllocVectors(t, n) ==
  /\ pc[t] = "alloc" /\ n <= MaxVectors(arg[t][2])
  /\ \/ /\ n = 0
        /\ pc' = [pc EXCEPT ![t] = "unlock"]
        /\ ret' = [ret EXCEPT ![t] = -1]
        /\ UNCHANGED <<testMode, vecNum, vectors, cursor, src, tgtSoft, owed>>
     \/ /\ n > 0
        /\ pc' = [pc EXCEPT ![t] = "request"]
        /\ testMode' = arg[t][3]
        /\ vecNum' = n
        /\ vectors' = Vectors(n)
        /\ cursor' = 0
        /\ src' = {s \in src : \/ conf.kind = "APU"
                               \/ conf.kind = "VGPU" /\ s >= VfReset}
        /\ tgtSoft' = IF conf.kind = "APU" THEN tgtSoft ELSE [q \in Irqs |-> {}]
        /\ owed' = [q \in Irqs |-> owed[q] - Cardinality(Pending(q) \ src')]
        /\ ret' = ret
  /\ UNCHANGED <<conf, arg, bit, locks, intDone, allocated, registered,
                 tgtMask, handler>>

\* Faulty variant: irq_allocated is not set.
RequestIrqUnmarked(t) ==
  /\ pc[t] = "request" /\ cursor < vecNum
  /\ registered' = registered \cup {cursor}
  /\ cursor' = cursor + 1
  /\ UNCHANGED <<conf, thread, locks, intDone, testMode, vecNum, allocated, vectors,
                 mux, handler, owed>>

\* Faulty variant: a vector whose request_irq failed is passed over.
RequestIrqIgnored(t) ==
  /\ pc[t] = "request" /\ cursor < vecNum
  /\ \/ /\ registered' = registered \cup {cursor}
        /\ allocated' = allocated \cup {cursor}
     \/ UNCHANGED <<registered, allocated>>
  /\ cursor' = cursor + 1
  /\ UNCHANGED <<conf, thread, locks, intDone, testMode, vecNum, vectors,
                 mux, handler, owed>>

RequestIrq(t) ==
  /\ pc[t] = "request" /\ cursor < vecNum
  /\ \/ /\ registered' = registered \cup {cursor}
        /\ allocated' = allocated \cup {cursor}
        /\ cursor' = cursor + 1
        /\ UNCHANGED <<pc, ret>>
     \/ /\ pc' = [pc EXCEPT ![t] = "unlock"]
        /\ ret' = [ret EXCEPT ![t] = -1]
        /\ UNCHANGED <<registered, allocated, cursor>>
  /\ UNCHANGED <<conf, arg, bit, locks, intDone, testMode, vecNum, vectors,
                 mux, handler, owed>>

\* reinit_completion of every vector of the type, after the handlers were
\* registered: what they have completed so far is not waited for any more.
Reinit(t) ==
  LET all == Vectors(MaxVectors(arg[t][2])) IN
  /\ pc[t] = "request" /\ cursor = vecNum
  /\ pc' = [pc EXCEPT ![t] = "unlock"]
  /\ intDone' = [q \in Irqs |-> IF q \in all THEN 0 ELSE intDone[q]]
  /\ owed' = [q \in Irqs |-> IF q \in all THEN owed[q] - intDone[q] ELSE owed[q]]
  /\ UNCHANGED <<conf, arg, ret, bit, locks, state, mux, handler>>

\* Faulty variant: an error returns with io_mutex held.
InitUnlockOk(t) ==
  /\ Goto(t, "unlock", "leave")
  /\ ioMutex' = IF ret[t] = 0 THEN Nobody ELSE ioMutex
  /\ UNCHANGED <<conf, arg, ret, bit, irqLock, intDone, state, mux, handler, owed>>

InitUnlock(t) ==
  /\ Goto(t, "unlock", "leave")
  /\ ioMutex' = Nobody
  /\ UNCHANGED <<conf, arg, ret, bit, irqLock, intDone, state, mux, handler, owed>>
-----------------------------------------------------------------------------
(* pcie_th() and, of vector q, pcie_gpu_th(), pcie_vgpu_th() or            *)
(* pcie_apu_th(), which does nothing in work mode.                         *)

Step(q, from, to) == hpc[q] = from /\ hpc' = [hpc EXCEPT ![q] = to]

ThEnter(q) ==
  /\ Step(q, "idle", "spin")
  /\ q \in registered
  /\ Asserted(q)
  /\ UNCHANGED <<conf, thread, locks, intDone, state, mux, hsrc, saved, owed>>

\* The test for the soft bit.  The APU's, 0x1&rdata!=0, is 0x1&(rdata!=0).
SoftRaised(q) == IF conf.kind = "APU" THEN tgtSoft[q] # {} ELSE "soft" \in tgtSoft[q]

\* irq_lock is taken and a GPU masks the target.
ThLock(q) ==
  /\ Step(q, "spin", IF ~testMode THEN "dma"
                     ELSE IF SoftRaised(q) THEN "soft" ELSE "mutex")
  /\ irqLock = Nobody
  /\ irqLock' = q
  /\ tgtMask' = [tgtMask EXCEPT ![q] = (conf.kind = "GPU")]
  /\ UNCHANGED <<conf, thread, ioMutex, intDone, state, src, tgtSoft, hsrc, saved, owed>>

\* Work mode: emu_dma_isr.
ThDma(q) ==
  /\ Step(q, "dma", "exit")
  /\ UNCHANGED <<conf, thread, locks, intDone, state, mux, hsrc, saved, owed>>

\* Test mode, the target was raised by its soft bit.
ThSoft(q) ==
  /\ Step(q, "soft", "complete")
  /\ tgtSoft' = [tgtSoft EXCEPT ![q] = @ \ {"soft"}]
  /\ owed' = [owed EXCEPT ![q] = @ + 1]
  /\ UNCHANGED <<conf, thread, locks, intDone, state, src, tgtMask, hsrc, saved>>

\* Test mode, the target was raised by a source: with io_mutex the target is
\* masked and the old value of TARGET_SOFT kept.
TakeMutex(q, from) ==
  /\ Step(q, from, "claim")
  /\ ioMutex = Nobody
  /\ ioMutex' = q
  /\ saved' = [saved EXCEPT ![q] = tgtSoft[q]]
  /\ tgtSoft' = [tgtSoft EXCEPT ![q] = @ \cup {"mask"}]
  /\ UNCHANGED <<conf, thread, irqLock, intDone, state, src, tgtMask, hsrc, owed>>

\* io_mutex is free.
ThMutex(q) == TakeMutex(q, "mutex")

\* A thread holds it: mutex_lock() wants to sleep in the interrupt.
ThBlock(q) ==
  /\ Step(q, "mutex", "blocked")
  /\ ioMutex # Nobody
  /\ UNCHANGED <<conf, thread, locks, intDone, state, mux, hsrc, saved, owed>>

\* The holder ran on another processor, has released io_mutex, and the kernel
\* lets the handler go on.
ThWake(q) == TakeMutex(q, "blocked")

\* TARGET_CLAIM names a pending source.
ThClaim(q) ==
  /\ Step(q, "claim", "clear")
  /\ \E s \in Pending(q) : hsrc' = [hsrc EXCEPT ![q] = s]
  /\ UNCHANGED <<conf, thread, locks, intDone, state, mux, saved, owed>>

\* No source is pending any more: the number is out of range.  A GPU and an APU
\* return at once, a VF goes on without complete().
ThClaimError(q) ==
  /\ hpc[q] = "claim" /\ Pending(q) = {}
  /\ IF conf.kind # "VGPU"
     THEN /\ ioMutex' = Nobody /\ irqLock' = Nobody
          /\ hpc' = [hpc EXCEPT ![q] = "idle"]
          /\ saved' = [saved EXCEPT ![q] = {}]
     ELSE hpc' = [hpc EXCEPT ![q] = "restore"] /\ UNCHANGED <<locks, saved>>
  /\ UNCHANGED <<conf, thread, intDone, state, mux, hsrc, owed>>

\* A source that the user withdrew after the claim was counted as withdrawn.
ThClear(q) ==
  /\ Step(q, "clear", "restore")
  /\ src' = src \ {hsrc[q]}
  /\ owed' = IF hsrc[q] \in src THEN owed ELSE [owed EXCEPT ![q] = @ + 1]
  /\ UNCHANGED <<conf, thread, locks, intDone, state, tgtSoft, tgtMask, hsrc, saved>>

\* Faulty variant: TARGET_SOFT keeps its mask bit.
ThRestoreMasked(q) ==
  /\ Step(q, "restore", IF hsrc[q] = Nobody THEN "exit" ELSE "complete")
  /\ ioMutex' = Nobody
  /\ UNCHANGED <<conf, thread, irqLock, intDone, state, mux, hsrc, saved, owed>>

\* TARGET_SOFT gets back the value that was read before the claim.
ThRestore(q) ==
  /\ Step(q, "restore", IF hsrc[q] = Nobody THEN "exit" ELSE "complete")
  /\ tgtSoft' = [tgtSoft EXCEPT ![q] = saved[q]]
  /\ ioMutex' = Nobody
  /\ UNCHANGED <<conf, thread, irqLock, intDone, state, src, tgtMask, hsrc, saved, owed>>

ThComplete(q) ==
  /\ Step(q, "complete", "exit")
  /\ intDone' = [intDone EXCEPT ![q] = @ + 1]
  /\ UNCHANGED <<conf, thread, locks, state, mux, hsrc, saved, owed>>

\* The target is unmasked and irq_lock released.
ThExit(q) ==
  /\ Step(q, "exit", "idle")
  /\ tgtMask' = [tgtMask EXCEPT ![q] = FALSE]
  /\ irqLock' = Nobody
  /\ hsrc' = [hsrc EXCEPT ![q] = Nobody]
  /\ saved' = [saved EXCEPT ![q] = {}]
  /\ UNCHANGED <<conf, thread, ioMutex, intDone, state, src, tgtSoft, owed>>
-----------------------------------------------------------------------------
\* An initialiser's steps between the two ends of the critical section.
Initialise(t) ==
  \/ FreeIrq(t) \/ FreeSync(t) \/ FreeVectors(t)
  \/ \E n \in 0 .. Cardinality(Irqs) : AllocVectors(t, n)
  \/ RequestIrq(t) \/ Reinit(t) \/ InitUnlock(t)

Serve(q) ==
  \/ ThEnter(q) \/ ThDma(q) \/ ThSoft(q) \/ ThMutex(q) \/ ThBlock(q)
  \/ ThClaim(q) \/ ThClaimError(q) \/ ThClear(q) \/ ThRestore(q) \/ ThComplete(q) \/ ThExit(q)

Next ==
  \/ \E t \in Threads :
       \/ \E o \in conf.ops[t] : Call(t, o)
       \/ TrigRead(t) \/ TrigWrite(t) \/ WaitDone(t) \/ WaitTimeout(t)
       \/ BarSoft(t) \/ BarRaise(t) \/ BarClear(t) \/ PowerLock(t) \/ PowerUnlock(t)
       \/ InitLock(t) \/ Initialise(t) \/ Leave(t)
  \/ \E q \in Irqs : ThLock(q) \/ ThWake(q) \/ Serve(q)

Spec == Init /\ [][Next]_vars

\* A thread inside an ioctl and a handler run; spin locks are handed out in turn,
\* and mutexes to threads in turn; an asserted interrupt is delivered; the timer
\* of a wait fires.  A blocked handler is owed nothing.  (The thread that it has
\* interrupted cannot run either, and if that thread holds io_mutex neither ever
\* does: what is said of a FairSpec below leaves such behaviours out.)
Fairness ==
  /\ \A t \in Threads :
       /\ WF_vars(TrigWrite(t) \/ WaitDone(t) \/ WaitTimeout(t) \/ BarSoft(t)
                  \/ BarRaise(t) \/ BarClear(t) \/ PowerUnlock(t) \/ Initialise(t) \/ Leave(t))
       /\ SF_vars(TrigRead(t)) /\ SF_vars(PowerLock(t)) /\ SF_vars(InitLock(t))
  /\ \A q \in Irqs :
       /\ WF_vars(Serve(q)) /\ SF_vars(ThLock(q))

FairSpec == Spec /\ Fairness

\* As if a handler could sleep: it gets io_mutex in its turn.
SleepSpec == FairSpec /\ \A q \in Irqs : SF_vars(ThWake(q))
-----------------------------------------------------------------------------
TypeOK ==
  /\ conf \in Confs
  /\ pc \in [Threads -> {"idle", "trig", "set", "raise", "clear", "wait", "soft", "power",
                         "powered", "init", "free", "sync", "alloc", "request",
                         "unlock", "leave"}]
  /\ arg \in [Threads -> Operations \cup {<<>>}]
  /\ ret \in [Threads -> {0, -1}]
  /\ bit \in [Threads -> BOOLEAN]
  /\ ioMutex \in Threads \cup Irqs \cup {Nobody}
  /\ irqLock \in Threads \cup Irqs \cup {Nobody}
  /\ intDone \in [Irqs -> Nat]
  /\ testMode \in BOOLEAN
  /\ vecNum \in 0 .. Cardinality(Irqs) /\ cursor \in 0 .. Cardinality(Irqs)
  /\ allocated \subseteq Irqs /\ vectors \subseteq Irqs /\ registered \subseteq Irqs
  /\ src \subseteq Srcs
  /\ tgtSoft \in [Irqs -> SUBSET {"soft", "mask"}]
  /\ tgtMask \in [Irqs -> BOOLEAN]
  /\ hpc \in [Irqs -> {"idle", "spin", "dma", "soft", "mutex", "blocked", "claim",
                       "clear", "restore", "complete", "exit"}]
  /\ hsrc \in [Irqs -> Srcs \cup {Nobody}]
  /\ saved \in [Irqs -> SUBSET {"soft", "mask"}]
  /\ owed \in [Irqs -> Int]

\* The handler of q has taken an interrupt off the registers and has not
\* called complete() for it yet.
InFlight(q) ==
  IF hpc[q] = "complete" \/ (hpc[q] = "restore" /\ hsrc[q] # Nobody) THEN 1 ELSE 0

\* Every interrupt that TRIG_INT reports as raised is worth exactly one
\* WAIT_INT: it is a set source bit, or in the handler between clearing the
\* bit and complete(), or counted in int_done.  TRIG_INT and the handler read,
\* modify and write SRC_SOFT under irq_lock.
Conserved ==
  \A q \in Irqs : owed[q] = Cardinality(Pending(q)) + InFlight(q) + intDone[q]

\* Vectors are never returned to the PCI core while one of them still has a
\* handler, also after an irq_init whose request_irq failed half-way, and
\* vec_num knows the vectors the device has.
NoLeakedVector == registered \subseteq vectors /\ vectors = Vectors(vecNum)

\* An IRQ_INIT that is about to report success has left every vector with a
\* handler, in the mode that was asked for.
InitDone ==
  \A t \in Threads :
    pc[t] = "unlock" /\ ret[t] = 0 /\ arg[t][2] # "DISABLE" =>
      vecNum > 0 /\ registered = Vectors(vecNum) /\ testMode = arg[t][3]

\* irq_test_mode never changes under a handler that runs: a handler is in one
\* mode from its beginning to its end.
ModeStable ==
  [][testMode' # testMode => \A q \in Irqs : hpc[q] = "idle"]_vars

Blocked == \E q \in Irqs : hpc[q] = "blocked"

\* In test mode every source that was triggered is served by the handler, unless
\* a handler stays blocked on io_mutex for ever.
SrcServed ==
  []<>~Blocked =>
    \A s \in Srcs : s \in src /\ testMode ~> s \notin src \/ ~testMode

\* Every ioctl returns.
IoctlReturns == \A t \in Threads : pc[t] # "idle" ~> pc[t] = "idle"

\* Every ioctl returns unless a handler stays blocked on io_mutex for ever.
ReturnsUnlessBlocked == []<>~Blocked => IoctlReturns
=============================================================================
