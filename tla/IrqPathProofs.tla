--------------------------- MODULE IrqPathProofs ---------------------------
(***************************************************************************)
(* Proofs about IrqPath, for every number of vectors, sources and threads  *)
(* and every kind of function.                                             *)
(***************************************************************************)
EXTENDS IrqPath, FiniteSetTheorems, TLAPS

\* A thread in irq_init, with io_mutex.
Initialising == {"free", "sync", "alloc", "request", "unlock"}

\* A handler with irq_lock.
Locking == {"dma", "soft", "mutex", "blocked", "claim", "clear", "restore", "complete",
            "exit"}

\* The parameters of an ioctl that is under way are in range.
Args ==
  \A t \in Threads :
    /\ pc[t] \in {"trig", "set", "raise", "clear"} => arg[t][2] \in Srcs
    /\ pc[t] \in {"wait", "soft"} => arg[t][2] \in Irqs
    /\ pc[t] \in Initialising \cup {"init"} => arg[t][3] \in BOOLEAN

\* Who is inside a critical section holds its lock.
Locked ==
  /\ \A t \in Threads :
       /\ pc[t] \in Initialising \cup {"powered"} => ioMutex = t
       /\ pc[t] = "set" => irqLock = t
  /\ \A q \in Irqs :
       /\ hpc[q] \in {"claim", "clear", "restore"} => ioMutex = q
       /\ hpc[q] \in Locking => irqLock = q

\* A handler that runs is one that irq_allocated knows: qy_free_irq clears the
\* bit of a vector after free_irq has waited for its handler.
Handled == \A q \in Irqs : hpc[q] # "idle" => q \in allocated

\* irq_allocated says which vectors have a handler, but for the one that
\* free_irq is waiting for, and vec_num which the device has.
Allocated ==
  /\ vectors = Vectors(vecNum)
  /\ registered \subseteq allocated /\ allocated \subseteq vectors
  /\ (\A t \in Threads : pc[t] # "sync") => registered = allocated

\* How far the loops of irq_init have come.
Progress ==
  \A t \in Threads :
    /\ pc[t] \in {"free", "sync"} => \A q \in allocated : cursor <= q
    /\ pc[t] = "free" => cursor <= vecNum
    /\ pc[t] = "sync" => cursor < vecNum /\ registered = allocated \ {cursor}
    /\ pc[t] = "alloc" => allocated = {} /\ vecNum = 0
    /\ pc[t] = "request" => /\ vecNum > 0 /\ cursor <= vecNum
                            /\ allocated = Vectors(cursor)
                            /\ testMode = arg[t][3]

\* What the handler of q has claimed.
Claimed ==
  \A q \in Irqs :
    /\ hpc[q] \in {"idle", "spin", "dma", "soft", "mutex", "blocked", "claim"} =>
         hsrc[q] = Nobody
    /\ hpc[q] = "clear" => hsrc[q] \in Srcs /\ Route(hsrc[q]) = q

SetupInv == TypeOK /\ Args /\ Locked /\ Handled /\ Allocated /\ Progress /\ InitDone

\* The user of a GPU or a VF raises its sources with TRIG_INT, the user of an APU
\* through the BAR.
RaisedByKind ==
  \A c \in Confs, t \in Threads, s \in Srcs :
    <<"raise", s>> \in c.ops[t] => c.kind = "APU"

\* TRIG_INT still finds clear the bit that it read as clear.
TrigFresh ==
  \A t \in Threads :
    /\ pc[t] = "raise" => conf.kind = "APU"
    /\ pc[t] = "set" /\ ~bit[t] /\ conf.kind # "APU" => arg[t][2] \notin src

CountInv == Claimed /\ TrigFresh /\ Conserved
-----------------------------------------------------------------------------
(* The steps of a thread and of a handler, and what they leave alone. *)

Thread(t) ==
  \/ \E o \in conf.ops[t] : Call(t, o)
  \/ TrigRead(t) \/ TrigWrite(t) \/ WaitDone(t) \/ WaitTimeout(t)
  \/ BarSoft(t) \/ BarRaise(t) \/ BarClear(t) \/ PowerLock(t) \/ PowerUnlock(t)
  \/ InitLock(t) \/ Initialise(t) \/ Leave(t)

Handle(q) == ThLock(q) \/ ThWake(q) \/ Serve(q)

LEMMA NextIsThreadOrHandler ==
  Next <=> (\E t \in Threads : Thread(t)) \/ (\E q \in Irqs : Handle(q))
  BY Zenon DEF Next, Thread, Handle

LEMMA OperationsInRange ==
  ASSUME NEW o \in Operations
  PROVE  /\ o[1] \in {"trig", "raise", "clear", "wait", "soft", "power", "init"}
         /\ o[1] \in {"trig", "raise", "clear"} => o[2] \in Srcs
         /\ o[1] \in {"wait", "soft"} => o[2] \in Irqs
         /\ o[1] = "init" => o[2] \in Types /\ o[3] \in BOOLEAN
<1>1. CASE o \in {"trig", "raise", "clear"} \X Srcs
  BY <1>1
<1>2. CASE o \in {"wait", "soft"} \X Irqs
  BY <1>2
<1>3. CASE o = <<"power">>
  BY <1>3
<1>4. CASE o \in {"init"} \X Types \X BOOLEAN
  BY <1>4
<1> QED
  BY <1>1, <1>2, <1>3, <1>4 DEF Operations

LEMMA IrqsAreNumbers ==
  /\ Irqs \subseteq Nat /\ Cardinality(Irqs) \in Nat
  /\ \A q \in Irqs : q + 1 \in 0 .. Cardinality(Irqs)
  /\ \A n \in 0 .. Cardinality(Irqs) : Vectors(n) = 0 .. (n - 1)
<1>1. Cardinality(Irqs) \in Nat
  BY IrqAssumption, FS_CardinalityType
<1>2. Irqs = 0 .. (Cardinality(Irqs) - 1)
  BY IrqAssumption
<1> HIDE DEF Vectors
<1> DEFINE N == Cardinality(Irqs)
<1>3. N \in Nat /\ Irqs = 0 .. (N - 1)
  BY <1>1, <1>2
<1> HIDE DEF N
<1>4. \A n \in 0 .. N : Vectors(n) = 0 .. (n - 1)
  BY <1>3 DEF Vectors
<1> QED
  BY <1>3, <1>4 DEF N

LEMMA CardinalityOfIrqs == Cardinality(Irqs) \in Nat
  BY IrqsAreNumbers

LEMMA CursorIsVector == TypeOK /\ cursor < vecNum => cursor \in Irqs
<1> DEFINE N == Cardinality(Irqs)
<1>1. N \in Nat /\ Irqs = 0 .. (N - 1)
  BY CardinalityOfIrqs, IrqAssumption
<1>2. TypeOK => cursor \in 0 .. N /\ vecNum \in 0 .. N
  BY DEF TypeOK
<1> HIDE DEF N
<1> QED
  BY <1>1, <1>2

LEMMA ConfTypes ==
  \A c \in Confs : /\ c.kind \in {"GPU", "VGPU", "APU"} /\ c.mode \in BOOLEAN
                   /\ \A t \in Threads : c.ops[t] \subseteq Operations
                   /\ c.kind = "VGPU" => Srcs \subseteq Irqs
  BY Zenon, IrqAssumption

LEMMA RouteInRange == TypeOK => \A s \in Srcs : Route(s) \in Irqs
  BY IrqAssumption DEF TypeOK, Route

LEMMA MaxVectorsInRange ==
  \A type : MaxVectors(type) \in 0 .. Cardinality(Irqs)
<1>1. Cardinality(Irqs) \in Nat /\ Irqs = 0 .. (Cardinality(Irqs) - 1) /\ 0 \in Irqs
  BY IrqAssumption, FS_CardinalityType
<1>2. Cardinality(Irqs) \in Nat /\ Cardinality(Irqs) >= 1
  BY <1>1
<1> QED
  BY <1>2 DEF MaxVectors
-----------------------------------------------------------------------------
LEMMA InitSetup == Init => SetupInv
<1> SUFFICES ASSUME Init PROVE SetupInv
  OBVIOUS
<1>1. conf \in Confs /\ vecNum \in 0 .. Cardinality(Irqs)
  BY MaxVectorsInRange DEF Init
<1>2. vectors = Vectors(vecNum) /\ allocated = vectors /\ registered = vectors
  BY DEF Init
<1>3. TypeOK
  <2>1. vectors \subseteq Irqs
    BY <1>2 DEF Vectors
  <2>2. testMode \in BOOLEAN
    BY <1>1, ConfTypes DEF Init
  <2>3. arg \in [Threads -> Operations \cup {<<>>}]
    BY Zenon DEF Init
  <2>4. cursor \in 0 .. Cardinality(Irqs)
    BY CardinalityOfIrqs DEF Init
  <2>5. /\ pc \in [Threads -> {"idle"}] /\ ret \in [Threads -> {0}]
        /\ bit \in [Threads -> BOOLEAN]
        /\ ioMutex = Nobody /\ irqLock = Nobody
    BY DEF Init
  <2>6. /\ intDone \in [Irqs -> Nat] /\ src = {} /\ owed \in [Irqs -> Int]
        /\ tgtSoft \in [Irqs -> SUBSET {"soft", "mask"}]
        /\ tgtMask \in [Irqs -> BOOLEAN]
    BY DEF Init
  <2>7. /\ hpc \in [Irqs -> {"idle"}] /\ hsrc \in [Irqs -> {Nobody}]
        /\ saved \in [Irqs -> SUBSET {"soft", "mask"}]
    BY DEF Init
  <2> QED
    BY <1>1, <1>2, <2>1, <2>2, <2>3, <2>4, <2>5, <2>6, <2>7 DEF TypeOK
<1>4. Args /\ Locked /\ Handled /\ Progress /\ InitDone
  BY DEF Init, Args, Locked, Handled, Progress, InitDone, Initialising, Locking
<1>5. Allocated
  BY <1>2 DEF Allocated
<1> QED
  BY <1>3, <1>4, <1>5 DEF SetupInv

LEMMA ThreadTypeOK ==
  ASSUME TypeOK, Args, Progress, NEW t \in Threads, Thread(t)
  PROVE  TypeOK'
<1> USE DEF TypeOK, Goto
<1>1. ASSUME NEW o \in conf.ops[t], Call(t, o) PROVE TypeOK'
  <2>1. o \in Operations
    BY IrqAssumption
  <2> QED
    BY <1>1, <2>1, OperationsInRange DEF Call, locks, state, mux, handler
<1>2. CASE TrigRead(t)
  BY <1>2 DEF TrigRead, state, mux, handler
<1>3. CASE TrigWrite(t)
  <2>1. arg[t][2] \in Srcs /\ Route(arg[t][2]) \in Irqs
    BY <1>3, RouteInRange DEF TrigWrite, Args
  <2> QED
    BY <1>3, <2>1 DEF TrigWrite, state, handler
<1>4. CASE WaitDone(t)
  <2>1. arg[t][2] \in Irqs
    BY <1>4 DEF WaitDone, Args
  <2> QED
    BY <1>4, <2>1, SMTT(30) DEF WaitDone, locks, state, mux, handler
<1>5. CASE WaitTimeout(t)
  BY <1>5 DEF WaitTimeout, locks, state, mux, handler
<1>6. CASE BarSoft(t)
  BY <1>6 DEF BarSoft, locks, state, handler
<1>7. CASE BarRaise(t)
  <2>1. arg[t][2] \in Srcs /\ Route(arg[t][2]) \in Irqs
    BY <1>7, RouteInRange DEF BarRaise, Args
  <2> QED
    BY <1>7, <2>1 DEF BarRaise, locks, state, handler
<1>8. CASE BarClear(t)
  <2>1. arg[t][2] \in Srcs /\ Route(arg[t][2]) \in Irqs
    BY <1>8, RouteInRange DEF BarClear, Args
  <2> QED
    BY <1>8, <2>1 DEF BarClear, locks, state, handler
<1>9. CASE PowerLock(t)
  BY <1>9 DEF PowerLock, state, mux, handler
<1>10. CASE PowerUnlock(t)
  BY <1>10 DEF PowerUnlock, state, mux, handler
<1>11. CASE InitLock(t)
  <2>1. cursor' \in 0 .. Cardinality(Irqs)
    BY <1>11, CardinalityOfIrqs DEF InitLock
  <2> QED
    BY <1>11, <2>1 DEF InitLock, mux, handler
<1>12. CASE FreeIrq(t)
  <2>1. cursor' \in 0 .. Cardinality(Irqs)
    BY <1>12, CardinalityOfIrqs DEF FreeIrq
  <2> QED
    BY <1>12, <2>1 DEF FreeIrq, locks, mux, handler
<1>13. CASE FreeSync(t)
  <2>1. cursor' \in 0 .. Cardinality(Irqs)
    BY <1>13, CardinalityOfIrqs DEF FreeSync, Progress
  <2> QED
    BY <1>13, <2>1 DEF FreeSync, locks, mux, handler
<1>14. CASE FreeVectors(t)
  <2>1. vecNum' \in 0 .. Cardinality(Irqs)
    BY <1>14, CardinalityOfIrqs DEF FreeVectors
  <2> QED
    BY <1>14, <2>1 DEF FreeVectors, locks, mux, handler
<1>15. ASSUME NEW n \in 0 .. Cardinality(Irqs), AllocVectors(t, n) PROVE TypeOK'
  <2>1. arg[t][3] \in BOOLEAN
    BY <1>15 DEF AllocVectors, Args, Initialising
  <2>2. CASE n = 0
    <3>1. /\ pc' = [pc EXCEPT ![t] = "unlock"] /\ ret' = [ret EXCEPT ![t] = -1]
          /\ UNCHANGED <<testMode, vecNum, vectors, cursor, src, tgtSoft, owed>>
          /\ UNCHANGED <<conf, arg, bit, locks, intDone, allocated, registered,
                         tgtMask, handler>>
      BY <1>15, <2>2 DEF AllocVectors
    <3> QED
      BY <3>1 DEF locks, handler
  <2>3. CASE n > 0
    <3>1. \A q \in Irqs : Cardinality(Pending(q) \ src') \in Nat
      <4>1. IsFiniteSet(src)
        BY IrqAssumption, FS_Subset
      <4>2. \A q \in Irqs : IsFiniteSet(Pending(q) \ src')
        BY <4>1, FS_Subset DEF Pending
      <4> QED
        BY <4>2, FS_CardinalityType
    <3>2. owed' = [q \in Irqs |-> owed[q] - Cardinality(Pending(q) \ src')]
      BY <1>15, <2>3 DEF AllocVectors
    <3>3. owed' \in [Irqs -> Int]
      <4>1. ASSUME NEW q \in Irqs, NEW k \in Nat PROVE owed[q] - k \in Int
        OBVIOUS
      <4> QED
        BY <4>1, <3>1, <3>2, Zenon
    <3>4. src' \subseteq Srcs /\ vectors' \subseteq Irqs /\ cursor' \in 0 .. Cardinality(Irqs)
      <4>1. src' \subseteq src /\ vectors' = Vectors(n) /\ cursor' = 0
        BY <1>15, <2>3 DEF AllocVectors
      <4> QED
        BY <4>1, CardinalityOfIrqs DEF Vectors
    <3> QED
      BY <1>15, <2>1, <2>3, <3>3, <3>4, ZenonT(30) DEF AllocVectors, locks, handler
  <2> QED
    BY <2>2, <2>3, CardinalityOfIrqs
<1>16. CASE RequestIrq(t)
  <2>1. cursor' \in 0 .. Cardinality(Irqs)
    BY <1>16, CardinalityOfIrqs DEF RequestIrq, Progress
  <2>2. cursor \in Irqs
    BY <1>16, CursorIsVector DEF RequestIrq
  <2> QED
    BY <1>16, <2>1, <2>2 DEF RequestIrq, locks, mux, handler
<1>17. CASE Reinit(t)
  BY <1>17 DEF Reinit, locks, state, mux, handler
<1>18. CASE InitUnlock(t)
  BY <1>18 DEF InitUnlock, state, mux, handler
<1>19. CASE Leave(t)
  BY <1>19 DEF Leave, locks, state, mux, handler
<1> QED
  BY <1>1, <1>2, <1>3, <1>4, <1>5, <1>6, <1>7, <1>8, <1>9, <1>10, <1>11, <1>12,
     <1>13, <1>14, <1>15, <1>16, <1>17, <1>18, <1>19 DEF Thread, Initialise

LEMMA HandlerTypeOK ==
  ASSUME TypeOK, NEW q \in Irqs, Handle(q)
  PROVE  TypeOK'
<1> USE DEF TypeOK, Step
<1>1. CASE ThEnter(q)
  BY <1>1 DEF ThEnter, thread, locks, state, mux
<1>2. CASE ThLock(q)
  BY <1>2 DEF ThLock, thread, state
<1>3. CASE ThDma(q)
  BY <1>3 DEF ThDma, thread, locks, state, mux
<1>4. CASE ThSoft(q)
  BY <1>4 DEF ThSoft, thread, locks, state
<1>5. CASE ThMutex(q) \/ ThWake(q)
  <2>1. /\ hpc' = [hpc EXCEPT ![q] = "claim"] /\ ioMutex' = q
        /\ saved' = [saved EXCEPT ![q] = tgtSoft[q]]
        /\ tgtSoft' = [tgtSoft EXCEPT ![q] = @ \cup {"mask"}]
        /\ UNCHANGED <<conf, thread, irqLock, intDone, state, src, tgtMask, hsrc, owed>>
    BY <1>5 DEF ThMutex, ThWake, TakeMutex
  <2> QED
    BY <2>1 DEF thread, state
<1>12. CASE ThBlock(q)
  BY <1>12 DEF ThBlock, thread, locks, state, mux
<1>6. CASE ThClaim(q)
  BY <1>6 DEF ThClaim, Pending, thread, locks, state, mux
<1>7. CASE ThClaimError(q)
  BY <1>7 DEF ThClaimError, thread, locks, state, mux
<1>8. CASE ThClear(q)
  BY <1>8 DEF ThClear, thread, locks, state
<1>9. CASE ThRestore(q)
  BY <1>9 DEF ThRestore, thread, state
<1>10. CASE ThComplete(q)
  BY <1>10 DEF ThComplete, thread, locks, state, mux
<1>11. CASE ThExit(q)
  BY <1>11 DEF ThExit, thread, state
<1> QED
  BY <1>1, <1>2, <1>3, <1>4, <1>5, <1>6, <1>7, <1>8, <1>9, <1>10, <1>11, <1>12
  DEF Handle, Serve
-----------------------------------------------------------------------------
(* What a step of one actor leaves alone. *)

Setup(t) ==
  \/ InitLock(t) \/ FreeIrq(t) \/ FreeSync(t) \/ FreeVectors(t)
  \/ \E n \in 0 .. Cardinality(Irqs) : AllocVectors(t, n)
  \/ RequestIrq(t) \/ Reinit(t) \/ InitUnlock(t)

LEMMA ThreadFrame ==
  ASSUME TypeOK, NEW t \in Threads, Thread(t)
  PROVE  /\ UNCHANGED <<conf, handler>>
         /\ \A u \in Threads \ {t} : /\ pc'[u] = pc[u] /\ arg'[u] = arg[u]
                                     /\ ret'[u] = ret[u] /\ bit'[u] = bit[u]
<1> USE DEF Goto, thread, handler, TypeOK
<1>1. ASSUME NEW o \in conf.ops[t], Call(t, o)
      PROVE  /\ UNCHANGED <<conf, handler>>
             /\ \A u \in Threads \ {t} : /\ pc'[u] = pc[u] /\ arg'[u] = arg[u]
                                         /\ ret'[u] = ret[u] /\ bit'[u] = bit[u]
  BY <1>1 DEF Call
<1>2. CASE TrigRead(t)
  BY <1>2 DEF TrigRead
<1>3. CASE TrigWrite(t)
  BY <1>3 DEF TrigWrite
<1>4. CASE WaitDone(t)
  BY <1>4 DEF WaitDone
<1>5. CASE WaitTimeout(t)
  BY <1>5 DEF WaitTimeout
<1>6. CASE BarSoft(t)
  BY <1>6 DEF BarSoft
<1>7. CASE BarRaise(t)
  BY <1>7 DEF BarRaise
<1>8. CASE BarClear(t)
  BY <1>8 DEF BarClear
<1>9. CASE PowerLock(t)
  BY <1>9 DEF PowerLock
<1>10. CASE PowerUnlock(t)
  BY <1>10 DEF PowerUnlock
<1>11. CASE InitLock(t)
  BY <1>11 DEF InitLock
<1>12. CASE FreeIrq(t)
  BY <1>12 DEF FreeIrq
<1>13. CASE FreeSync(t)
  BY <1>13 DEF FreeSync
<1>14. CASE FreeVectors(t)
  BY <1>14 DEF FreeVectors
<1>15. ASSUME NEW n \in 0 .. Cardinality(Irqs), AllocVectors(t, n)
      PROVE  /\ UNCHANGED <<conf, handler>>
             /\ \A u \in Threads \ {t} : /\ pc'[u] = pc[u] /\ arg'[u] = arg[u]
                                         /\ ret'[u] = ret[u] /\ bit'[u] = bit[u]
  BY <1>15 DEF AllocVectors
<1>16. CASE RequestIrq(t)
  BY <1>16 DEF RequestIrq
<1>17. CASE Reinit(t)
  BY <1>17 DEF Reinit
<1>18. CASE InitUnlock(t)
  BY <1>18 DEF InitUnlock
<1>19. CASE Leave(t)
  BY <1>19 DEF Leave
<1> QED
  BY <1>1, <1>2, <1>3, <1>4, <1>5, <1>6, <1>7, <1>8, <1>9, <1>10, <1>11, <1>12, <1>13, <1>14, <1>15, <1>16, <1>17, <1>18, <1>19 DEF Thread, Initialise

LEMMA HandlerFrame ==
  ASSUME TypeOK, NEW q \in Irqs, Handle(q)
  PROVE  /\ UNCHANGED <<conf, thread, state>>
         /\ \A r \in Irqs \ {q} : /\ hpc'[r] = hpc[r] /\ hsrc'[r] = hsrc[r]
                                  /\ saved'[r] = saved[r]
  BY DEF TypeOK, Handle, Serve, Step, handler, ThEnter, ThLock, ThDma, ThSoft, ThMutex,
     ThBlock, ThWake, TakeMutex,
     ThClaim, ThClaimError, ThClear, ThRestore, ThComplete, ThExit

\* Outside irq_init a thread changes neither the vectors nor the mode.
LEMMA OutsideSetup ==
  ASSUME TypeOK, NEW t \in Threads, Thread(t), ~Setup(t)
  PROVE  /\ UNCHANGED state
         /\ pc[t] \notin Initialising /\ pc'[t] \notin Initialising
<1> USE DEF Goto, Initialising, TypeOK
<1>1. ASSUME NEW o \in conf.ops[t], Call(t, o)
      PROVE  /\ UNCHANGED state
             /\ pc[t] \notin Initialising /\ pc'[t] \notin Initialising
  BY <1>1, OperationsInRange, ConfTypes DEF Call
<1>2. CASE TrigRead(t)
  BY <1>2 DEF TrigRead
<1>3. CASE TrigWrite(t)
  BY <1>3 DEF TrigWrite
<1>4. CASE WaitDone(t)
  BY <1>4 DEF WaitDone
<1>5. CASE WaitTimeout(t)
  BY <1>5 DEF WaitTimeout
<1>6. CASE BarSoft(t)
  BY <1>6 DEF BarSoft
<1>7. CASE BarRaise(t)
  BY <1>7 DEF BarRaise
<1>8. CASE BarClear(t)
  BY <1>8 DEF BarClear
<1>9. CASE PowerLock(t)
  BY <1>9 DEF PowerLock
<1>10. CASE PowerUnlock(t)
  BY <1>10 DEF PowerUnlock
<1>11. CASE Leave(t)
  BY <1>11 DEF Leave
<1> QED
  BY <1>1, <1>2, <1>3, <1>4, <1>5, <1>6, <1>7, <1>8, <1>9, <1>10, <1>11 DEF Thread, Initialise, Setup
-----------------------------------------------------------------------------
LEMMA Actors ==
  /\ \A t \in Threads : t # Nobody /\ t \notin Irqs
  /\ \A q \in Irqs : q # Nobody
  /\ \A s \in Srcs : s # Nobody
  BY Zenon, IrqAssumption

\* The locks of every actor but one, which itself holds neither.
LockedBut(a) ==
  /\ \A t \in Threads \ {a} :
       /\ pc[t] \in Initialising \cup {"powered"} => ioMutex = t
       /\ pc[t] = "set" => irqLock = t
  /\ \A q \in Irqs \ {a} :
       /\ hpc[q] \in {"claim", "clear", "restore"} => ioMutex = q
       /\ hpc[q] \in Locking => irqLock = q

\* A step of one actor keeps the locks of the others when it changes a lock only
\* to take it while it is free or to drop it while the actor holds it.
LEMMA LocksOfOthers ==
  ASSUME TypeOK, Locked, NEW a \in Threads \cup Irqs,
         \A u \in Threads \ {a} : pc'[u] = pc[u],
         \A q \in Irqs \ {a} : hpc'[q] = hpc[q],
         UNCHANGED ioMutex \/ ioMutex \in {a, Nobody},
         UNCHANGED irqLock \/ irqLock \in {a, Nobody}
  PROVE  LockedBut(a)'
  BY Actors DEF LockedBut, Locked, Locking, Initialising

LEMMA ThreadLocked ==
  ASSUME TypeOK, Locked, NEW t \in Threads, Thread(t)
  PROVE  Locked'
<1>0. /\ UNCHANGED <<conf, handler>>
      /\ \A u \in Threads \ {t} : pc'[u] = pc[u]
  BY ThreadFrame
<1> DEFINE Good ==
      /\ UNCHANGED ioMutex \/ ioMutex \in {t, Nobody}
      /\ UNCHANGED irqLock \/ irqLock \in {t, Nobody}
      /\ pc'[t] \in Initialising \cup {"powered"} => ioMutex' = t
      /\ pc'[t] = "set" => irqLock' = t
<1> USE DEF Goto, TypeOK, Locked, Initialising, locks
<1>1. ASSUME NEW o \in conf.ops[t], Call(t, o) PROVE Good
  BY <1>1, OperationsInRange, ConfTypes DEF Call
<1>2. ASSUME TrigRead(t) PROVE Good
  BY <1>2 DEF TrigRead
<1>3. ASSUME TrigWrite(t) PROVE Good
  BY <1>3 DEF TrigWrite
<1>4. ASSUME WaitDone(t) PROVE Good
  BY <1>4 DEF WaitDone
<1>5. ASSUME WaitTimeout(t) PROVE Good
  BY <1>5 DEF WaitTimeout
<1>6. ASSUME BarSoft(t) PROVE Good
  BY <1>6 DEF BarSoft
<1>7. ASSUME BarRaise(t) PROVE Good
  BY <1>7 DEF BarRaise
<1>8. ASSUME BarClear(t) PROVE Good
  BY <1>8 DEF BarClear
<1>9. ASSUME PowerLock(t) PROVE Good
  BY <1>9 DEF PowerLock
<1>10. ASSUME PowerUnlock(t) PROVE Good
  BY <1>10 DEF PowerUnlock
<1>11. ASSUME InitLock(t) PROVE Good
  BY <1>11 DEF InitLock
<1>12. ASSUME FreeIrq(t) PROVE Good
  BY <1>12 DEF FreeIrq
<1>13. ASSUME FreeSync(t) PROVE Good
  BY <1>13 DEF FreeSync
<1>14. ASSUME FreeVectors(t) PROVE Good
  BY <1>14 DEF FreeVectors
<1>15. ASSUME NEW n \in 0 .. Cardinality(Irqs), AllocVectors(t, n) PROVE Good
  BY <1>15 DEF AllocVectors
<1>16. ASSUME RequestIrq(t) PROVE Good
  BY <1>16 DEF RequestIrq
<1>17. ASSUME Reinit(t) PROVE Good
  BY <1>17 DEF Reinit
<1>18. ASSUME InitUnlock(t) PROVE Good
  BY <1>18 DEF InitUnlock
<1>19. ASSUME Leave(t) PROVE Good
  BY <1>19 DEF Leave
<1>20. Good
  BY <1>1, <1>2, <1>3, <1>4, <1>5, <1>6, <1>7, <1>8, <1>9, <1>10, <1>11, <1>12, <1>13, <1>14, <1>15, <1>16, <1>17, <1>18, <1>19
  DEF Thread, Initialise
<1>21. LockedBut(t)'
  BY <1>0, <1>20, LocksOfOthers, Actors DEF handler
<1> QED
  BY <1>20, <1>21, Actors DEF LockedBut

LEMMA HandlerLocked ==
  ASSUME TypeOK, Locked, NEW q \in Irqs, Handle(q)
  PROVE  Locked'
<1>0. /\ UNCHANGED thread
      /\ \A r \in Irqs \ {q} : hpc'[r] = hpc[r]
  BY HandlerFrame
<1> DEFINE Good ==
      /\ UNCHANGED ioMutex \/ ioMutex \in {q, Nobody}
      /\ UNCHANGED irqLock \/ irqLock \in {q, Nobody}
      /\ hpc'[q] \in {"claim", "clear", "restore"} => ioMutex' = q
      /\ hpc'[q] \in Locking => irqLock' = q
<1>1. Good
  BY DEF TypeOK, Locked, Locking, locks, Handle, Serve, Step, ThEnter, ThLock, ThDma,
     ThSoft, ThMutex, ThBlock, ThWake, TakeMutex, ThClaim, ThClaimError, ThClear,
     ThRestore, ThComplete, ThExit
<1>2. LockedBut(q)'
  BY <1>0, <1>1, LocksOfOthers, Actors DEF thread
<1> QED
  BY <1>1, <1>2, Actors DEF LockedBut, Locked
-----------------------------------------------------------------------------
LEMMA ThreadArgs ==
  ASSUME TypeOK, Args, NEW t \in Threads, Thread(t)
  PROVE  Args'
<1>0. \A u \in Threads \ {t} : pc'[u] = pc[u] /\ arg'[u] = arg[u]
  BY ThreadFrame
<1> DEFINE Good ==
      /\ pc'[t] \in {"trig", "set", "raise", "clear"} => arg'[t][2] \in Srcs
      /\ pc'[t] \in {"wait", "soft"} => arg'[t][2] \in Irqs
      /\ pc'[t] \in Initialising \cup {"init"} => arg'[t][3] \in BOOLEAN
<1>1. CASE \E o \in conf.ops[t] : Call(t, o)
  <2>1. PICK o \in conf.ops[t] : Call(t, o)
    BY <1>1
  <2>2. o \in Operations
    BY ConfTypes DEF TypeOK
  <2>3. Good
    BY <2>1, <2>2, OperationsInRange DEF TypeOK, Call, Goto, Initialising
  <2> QED
    BY <1>0, <2>3 DEF Args
<1>2. CASE UNCHANGED arg /\ ~\E o \in conf.ops[t] : Call(t, o)
  <2>1. /\ pc'[t] \in {"trig", "raise", "clear", "wait", "soft", "init"} => pc'[t] = pc[t]
        /\ pc'[t] = "set" => pc[t] = "trig"
        /\ pc'[t] \in Initialising => pc[t] \in Initialising \cup {"init"}
    BY <1>2 DEF TypeOK, Goto, Initialising, Thread, Initialise, Call, TrigRead, TrigWrite,
       WaitDone, WaitTimeout, BarSoft, BarRaise, BarClear, PowerLock, PowerUnlock,
       InitLock, FreeIrq, FreeSync, FreeVectors, AllocVectors, RequestIrq, Reinit,
       InitUnlock, Leave
  <2> QED
    BY <1>0, <1>2, <2>1 DEF Args, Initialising
<1>3. CASE Leave(t)
  <2>1. Good
    BY <1>3 DEF Leave, Goto, TypeOK, Initialising
  <2> QED
    BY <1>0, <2>1 DEF Args
<1> QED
  BY <1>1, <1>2, <1>3 DEF Thread, Initialise, TrigRead, TrigWrite, WaitDone, WaitTimeout,
     BarSoft, BarRaise, BarClear, PowerLock, PowerUnlock, InitLock, FreeIrq, FreeSync,
     FreeVectors, AllocVectors, RequestIrq, Reinit, InitUnlock

LEMMA ThreadHandled ==
  ASSUME TypeOK, Handled, NEW t \in Threads, Thread(t)
  PROVE  Handled'
<1>0. UNCHANGED hpc
  BY ThreadFrame DEF handler
<1>1. CASE FreeSync(t)
  BY <1>0, <1>1 DEF FreeSync, Handled
<1>2. CASE RequestIrq(t)
  BY <1>0, <1>2 DEF RequestIrq, Handled
<1>3. CASE UNCHANGED allocated
  BY <1>0, <1>3 DEF Handled
<1>4. ~Setup(t) => UNCHANGED allocated
  BY OutsideSetup DEF state
<1> QED
  BY <1>1, <1>2, <1>3, <1>4 DEF Setup, InitLock, FreeIrq, FreeVectors, AllocVectors,
     Reinit, InitUnlock, state

LEMMA HandlerHandled ==
  ASSUME TypeOK, Handled, Allocated, NEW q \in Irqs, Handle(q)
  PROVE  Handled'
<1>0. UNCHANGED allocated /\ \A r \in Irqs \ {q} : hpc'[r] = hpc[r]
  BY HandlerFrame DEF state
<1>1. CASE ThEnter(q)
  BY <1>0, <1>1 DEF ThEnter, Allocated, Handled
<1>2. CASE ~ThEnter(q)
  <2>1. hpc[q] # "idle"
    BY <1>2 DEF Handle, Serve, Step, ThLock, ThDma, ThSoft, ThMutex, ThBlock, ThWake,
       TakeMutex, ThClaim,
       ThClaimError, ThClear, ThRestore, ThComplete, ThExit
  <2> QED
    BY <1>0, <2>1 DEF Handled
<1> QED
  BY <1>1, <1>2

\* irq_init, inside its critical section: the vectors, the loops and the result.
SetupState == Allocated /\ Progress /\ InitDone

LEMMA OneInitialiser ==
  ASSUME TypeOK, Locked, NEW t \in Threads, Setup(t)
  PROVE  \A u \in Threads \ {t} : pc[u] \notin Initialising
  BY Actors DEF Setup, Locked, Initialising, InitLock, FreeIrq, FreeSync, FreeVectors,
     AllocVectors, RequestIrq, Reinit, InitUnlock, Goto

LEMMA VectorsAre ==
  /\ Vectors(0) = {}
  /\ \A n \in 0 .. Cardinality(Irqs), q \in Irqs : q \in Vectors(n) <=> q < n
  /\ \A q \in Irqs : Vectors(q + 1) = Vectors(q) \cup {q}
<1>1. Irqs \subseteq Nat /\ Cardinality(Irqs) \in Nat
  BY IrqsAreNumbers
<1>2. Vectors(0) = {}
  <2>1. \A q \in Irqs : q \in Nat /\ ~(q < 0)
    BY <1>1
  <2> QED
    BY <2>1 DEF Vectors
<1>3. \A n \in 0 .. Cardinality(Irqs), q \in Irqs : q \in Vectors(n) <=> q < n
  BY DEF Vectors
<1>4. ASSUME NEW q \in Irqs PROVE Vectors(q + 1) = Vectors(q) \cup {q}
  <2>1. \A r \in Irqs : r < q + 1 <=> r < q \/ r = q
    BY <1>1
  <2> QED
    BY <2>1 DEF Vectors
<1> QED
  BY <1>2, <1>3, <1>4

LEMMA SetupStep ==
  ASSUME TypeOK, Locked, SetupState, NEW t \in Threads, Setup(t)
  PROVE  /\ Allocated'
         /\ Progress'
         /\ InitDone'
<1>1. /\ Irqs \subseteq Nat /\ Cardinality(Irqs) \in Nat
      /\ vecNum \in 0 .. Cardinality(Irqs) /\ cursor \in 0 .. Cardinality(Irqs)
      /\ allocated \subseteq Irqs /\ registered \subseteq Irqs
  BY IrqsAreNumbers DEF TypeOK
<1>2. /\ \A u \in Threads \ {t} : pc[u] \notin Initialising
      /\ \A u \in Threads \ {t} : pc'[u] \notin Initialising
  BY OneInitialiser, ThreadFrame DEF Setup, Thread, Initialise
<1>3. pc = [u \in Threads |-> pc[u]] /\ ret \in [Threads -> {0, -1}]
  BY DEF TypeOK
<1> DEFINE P(u) ==
      /\ pc[u] \in {"free", "sync"} => \A q \in allocated : cursor <= q
      /\ pc[u] = "free" => cursor <= vecNum
      /\ pc[u] = "sync" => cursor < vecNum /\ registered = allocated \ {cursor}
      /\ pc[u] = "alloc" => allocated = {} /\ vecNum = 0
      /\ pc[u] = "request" => /\ vecNum > 0 /\ cursor <= vecNum
                              /\ allocated = Vectors(cursor)
                              /\ testMode = arg[u][3]
      /\ pc[u] = "unlock" /\ ret[u] = 0 /\ arg[u][2] # "DISABLE" =>
           vecNum > 0 /\ registered = Vectors(vecNum) /\ testMode = arg[u][3]
<1>4. P(t)
  BY DEF SetupState, Progress, InitDone
<1>5. /\ vectors = Vectors(vecNum)
      /\ registered \subseteq allocated /\ allocated \subseteq vectors
      /\ pc[t] # "sync" => registered = allocated
  BY <1>2 DEF SetupState, Allocated, Initialising
<1> DEFINE Good ==
      /\ vectors' = Vectors(vecNum')
      /\ registered' \subseteq allocated' /\ allocated' \subseteq vectors'
      /\ pc'[t] # "sync" => registered' = allocated'
      /\ P(t)'
<1>6. ASSUME InitLock(t) PROVE Good
  BY <1>1, <1>3, <1>4, <1>5, <1>6 DEF InitLock, Goto
<1>7. ASSUME FreeIrq(t) PROVE Good
  <2>1. CASE cursor \in allocated
    BY <1>1, <1>3, <1>4, <1>5, <1>7, <2>1 DEF FreeIrq
  <2>2. CASE cursor \notin allocated
    BY <1>1, <1>3, <1>4, <1>5, <1>7, <2>2 DEF FreeIrq
  <2> QED
    BY <2>1, <2>2
<1>8. ASSUME FreeSync(t) PROVE Good
  BY <1>1, <1>3, <1>4, <1>5, <1>8 DEF FreeSync, Goto
<1>9. ASSUME FreeVectors(t) PROVE Good
  <2>1. allocated = {} /\ registered = {}
    BY <1>1, <1>4, <1>5, <1>9, VectorsAre DEF FreeVectors
  <2>2. vectors' = {} /\ vecNum' = 0
    BY <1>1, <1>5, <1>9, VectorsAre DEF FreeVectors
  <2>3. /\ UNCHANGED <<testMode, allocated, registered, arg>>
        /\ pc' = [pc EXCEPT ![t] = "unlock"] \/ pc' = [pc EXCEPT ![t] = "alloc"]
        /\ pc' = [pc EXCEPT ![t] = "unlock"] /\ arg[t][2] # "DISABLE" =>
             ret' = [ret EXCEPT ![t] = -1]
    <3>1. pc' = [pc EXCEPT ![t] = "alloc"] => pc'[t] = "alloc"
      BY <1>3
    <3>2. pc' = [pc EXCEPT ![t] = "unlock"] => pc'[t] = "unlock"
      BY <1>3
    <3> QED
      BY <1>9, <3>1, <3>2 DEF FreeVectors
  <2>4. pc'[t] \in {"unlock", "alloc"}
    BY <1>3, <2>3
  <2>5. pc'[t] = "unlock" /\ arg[t][2] # "DISABLE" => ret'[t] = -1
    BY <1>3, <2>3
  <2> QED
    BY <2>1, <2>2, <2>3, <2>4, <2>5, VectorsAre
<1>10. ASSUME NEW n \in 0 .. Cardinality(Irqs), AllocVectors(t, n) PROVE Good
  <2>1. allocated = {} /\ registered = {} /\ vecNum = 0
    BY <1>4, <1>5, <1>10 DEF AllocVectors
  <2>2. CASE n = 0
    <3>1. pc' = [pc EXCEPT ![t] = "unlock"] /\ ret' = [ret EXCEPT ![t] = -1]
          /\ UNCHANGED <<testMode, vecNum, vectors, cursor, allocated, registered, arg>>
      BY <1>10, <2>2 DEF AllocVectors
    <3> QED
      BY <1>3, <1>4, <1>5, <2>1, <3>1
  <2>3. CASE n > 0
    <3>1. /\ pc' = [pc EXCEPT ![t] = "request"] /\ testMode' = arg[t][3]
          /\ vecNum' = n /\ vectors' = Vectors(n) /\ cursor' = 0
          /\ UNCHANGED <<allocated, registered, arg>>
      BY <1>10, <2>3 DEF AllocVectors
    <3> QED
      BY <1>3, <2>1, <2>3, <3>1, VectorsAre
  <2> QED
    BY <1>1, <2>2, <2>3
<1>11. ASSUME RequestIrq(t) PROVE Good
  <2>1. cursor \in Irqs
    BY <1>11, CursorIsVector DEF RequestIrq
  <2>2. Vectors(cursor + 1) = Vectors(cursor) \cup {cursor} /\ cursor \in Vectors(vecNum)
    BY <1>1, <1>11, <2>1, VectorsAre DEF RequestIrq
  <2> QED
    <3>1. /\ registered = allocated /\ allocated = Vectors(cursor)
          /\ UNCHANGED <<vecNum, vectors, testMode, arg>> /\ testMode = arg[t][3]
      BY <1>4, <1>5, <1>11 DEF RequestIrq
    <3>2. CASE /\ registered' = registered \cup {cursor}
               /\ allocated' = allocated \cup {cursor}
               /\ cursor' = cursor + 1
               /\ UNCHANGED <<pc, ret>>
      BY <1>1, <1>3, <1>4, <1>5, <1>11, <2>2, <3>1, <3>2 DEF RequestIrq
    <3>3. CASE /\ pc' = [pc EXCEPT ![t] = "unlock"]
               /\ ret' = [ret EXCEPT ![t] = -1]
               /\ UNCHANGED <<registered, allocated, cursor>>
      BY <1>1, <1>3, <1>5, <3>1, <3>3
    <3> QED
      BY <1>11, <3>2, <3>3 DEF RequestIrq
<1>12. ASSUME Reinit(t) PROVE Good
  BY <1>1, <1>3, <1>4, <1>5, <1>12 DEF Reinit, state
<1>13. ASSUME InitUnlock(t) PROVE Good
  BY <1>1, <1>3, <1>4, <1>5, <1>13 DEF InitUnlock, Goto, state
<1>14. Good
  BY <1>6, <1>7, <1>8, <1>9, <1>10, <1>11, <1>12, <1>13 DEF Setup
<1> QED
  BY <1>2, <1>14 DEF Allocated, Progress, InitDone, Initialising

LEMMA ThreadSetupState ==
  ASSUME TypeOK, Locked, SetupState, NEW t \in Threads, Thread(t)
  PROVE  SetupState'
<1>1. CASE Setup(t)
  BY <1>1, SetupStep DEF SetupState
<1>2. CASE ~Setup(t)
  <2>1. /\ UNCHANGED state /\ pc[t] \notin Initialising /\ pc'[t] \notin Initialising
        /\ \A u \in Threads \ {t} : /\ pc'[u] = pc[u] /\ arg'[u] = arg[u]
                                    /\ ret'[u] = ret[u]
    BY <1>2, OutsideSetup, ThreadFrame
  <2>2. Allocated'
    BY <2>1 DEF SetupState, Allocated, state, Initialising, Vectors
  <2>3. Progress'
    BY <2>1 DEF SetupState, Progress, state, Initialising, Vectors
  <2>4. InitDone'
    BY <2>1 DEF SetupState, InitDone, state, Initialising, Vectors
  <2> QED
    BY <2>2, <2>3, <2>4 DEF SetupState
<1> QED
  BY <1>1, <1>2

LEMMA NextSetup == SetupInv /\ [Next]_vars => SetupInv'
<1> SUFFICES ASSUME SetupInv, [Next]_vars PROVE SetupInv'
  OBVIOUS
<1> USE DEF SetupInv, SetupState
<1>1. ASSUME NEW t \in Threads, Thread(t) PROVE SetupInv'
  BY <1>1, ThreadTypeOK, ThreadArgs, ThreadLocked, ThreadHandled, ThreadSetupState
<1>2. ASSUME NEW q \in Irqs, Handle(q) PROVE SetupInv'
  <2>1. UNCHANGED <<conf, thread, state>>
    BY <1>2, HandlerFrame
  <2>2. Args' /\ Allocated' /\ Progress' /\ InitDone'
    BY <2>1 DEF Args, Allocated, Progress, InitDone, Vectors, thread, state
  <2> QED
    BY <1>2, <2>2, HandlerTypeOK, HandlerLocked, HandlerHandled
<1>3. CASE UNCHANGED vars
  BY <1>3 DEF vars, thread, locks, state, mux, handler, TypeOK, Args, Locked, Handled,
     Allocated, Progress, InitDone, Vectors
<1> QED
  BY <1>1, <1>2, <1>3, NextIsThreadOrHandler

LEMMA SetupInvariance == Spec => []SetupInv
  BY InitSetup, NextSetup, PTL DEF Spec

\* Every variable keeps its type: the cursor of qy_free_irq stays within the
\* vectors of the device and int_done is never decremented below 0.
THEOREM TypeCorrect == Spec => []TypeOK
<1>1. SetupInv => TypeOK
  BY DEF SetupInv
<1> QED
  BY <1>1, SetupInvariance, PTL

\* NoLeakedVector for every function: pci_free_irq_vectors is reached only when
\* no vector has a handler, whichever request_irq failed before.
THEOREM NoVectorLeaks == Spec => []NoLeakedVector
<1>1. SetupInv => NoLeakedVector
  BY DEF SetupInv, Allocated, NoLeakedVector
<1> QED
  BY <1>1, SetupInvariance, PTL

\* InitDone for every function: what irq_init reports as success is.
THEOREM InitIsComplete == Spec => []InitDone
<1>1. SetupInv => InitDone
  BY DEF SetupInv
<1> QED
  BY <1>1, SetupInvariance, PTL

\* ModeStable for every function: by the time irq_init writes irq_test_mode,
\* free_irq has waited for every handler.
THEOREM ModeIsStable == Spec => ModeStable
<1>1. SetupInv /\ [Next]_vars =>
        [testMode' # testMode => \A q \in Irqs : hpc[q] = "idle"]_vars
  <2> SUFFICES ASSUME SetupInv, Next, testMode' # testMode
               PROVE  \A q \in Irqs : hpc[q] = "idle"
    BY Zenon
  <2>1. PICK t \in Threads : Thread(t)
    BY NextIsThreadOrHandler, HandlerFrame DEF SetupInv, state
  <2>2. pc[t] = "alloc"
    BY <2>1, OutsideSetup DEF SetupInv, Setup, InitLock, FreeIrq, FreeSync,
       FreeVectors, AllocVectors, RequestIrq, Reinit, InitUnlock, state
  <2> QED
    BY <2>2 DEF SetupInv, Progress, Handled
<1> QED
  BY <1>1, SetupInvariance, PTL DEF Spec, ModeStable
-----------------------------------------------------------------------------
(* Conserved. *)

\* The source of interrupts of q that the registers hold.
Queued(q) == Cardinality(Pending(q))

LEMMA PendingFinite ==
  TypeOK => \A q : IsFiniteSet(Pending(q)) /\ Queued(q) \in Nat
<1> SUFFICES ASSUME TypeOK, NEW q PROVE IsFiniteSet(Pending(q)) /\ Queued(q) \in Nat
  OBVIOUS
<1>1. IsFiniteSet(Srcs)
  BY Zenon, IrqAssumption
<1>2. Pending(q) \subseteq Srcs
  BY DEF Pending, TypeOK
<1>3. IsFiniteSet(Pending(q))
  BY <1>1, <1>2, FS_Subset
<1> QED
  BY <1>3, FS_CardinalityType DEF Queued

LEMMA QueuedSame ==
  ASSUME UNCHANGED <<conf, src>>
  PROVE  \A q : Queued(q)' = Queued(q)
  BY DEF Queued, Pending, Route

\* Setting a source bit that was clear queues one interrupt on its target.
LEMMA QueuedMore ==
  ASSUME TypeOK, NEW s \in Srcs, s \notin src, src' = src \cup {s}, UNCHANGED conf
  PROVE  \A q : Queued(q)' = IF q = Route(s) THEN Queued(q) + 1 ELSE Queued(q)
<1> TAKE q
<1>1. CASE q = Route(s)
  <2>1. Pending(q)' = Pending(q) \cup {s} /\ s \notin Pending(q)
    BY <1>1 DEF Pending, Route
  <2> QED
    BY <1>1, <2>1, PendingFinite, FS_AddElement DEF Queued
<1>2. CASE q # Route(s)
  <2>1. Pending(q)' = Pending(q)
    BY <1>2 DEF Pending, Route
  <2> QED
    BY <1>2, <2>1 DEF Queued
<1> QED
  BY <1>1, <1>2

\* Clearing a source bit that was set takes one interrupt off its target.
LEMMA QueuedFewer ==
  ASSUME TypeOK, NEW s \in src, src' = src \ {s}, UNCHANGED conf
  PROVE  \A q : Queued(q)' = IF q = Route(s) THEN Queued(q) - 1 ELSE Queued(q)
<1> TAKE q
<1>1. CASE q = Route(s)
  <2>1. Pending(q)' = Pending(q) \ {s} /\ s \in Pending(q)
    BY <1>1 DEF Pending, Route
  <2> QED
    BY <1>1, <2>1, PendingFinite, FS_RemoveElement DEF Queued
<1>2. CASE q # Route(s)
  <2>1. Pending(q)' = Pending(q)
    BY <1>2 DEF Pending, Route
  <2> QED
    BY <1>2, <2>1 DEF Queued
<1> QED
  BY <1>1, <1>2

\* Resetting some of the source bits takes theirs off every target.
LEMMA QueuedReset ==
  ASSUME TypeOK, src' \subseteq src, UNCHANGED conf
  PROVE  \A q : /\ Cardinality(Pending(q) \ src') \in Nat
                /\ Queued(q)' = Queued(q) - Cardinality(Pending(q) \ src')
<1> TAKE q
<1> DEFINE P == Pending(q)
<1>1. IsFiniteSet(P) /\ Cardinality(P) \in Nat
  BY PendingFinite DEF Queued
<1>2. Pending(q)' = P \cap src'
  BY DEF Pending, Route
<1> HIDE DEF P
<1>3. IsFiniteSet(P \ src') /\ IsFiniteSet(P \cap src')
  BY <1>1, FS_Subset
<1>4. Cardinality(P \ src') = Cardinality(P) - Cardinality(P \cap src')
  BY <1>1, FS_Difference
<1>5. Cardinality(P \ src') \in Nat /\ Cardinality(P \cap src') \in Nat
  BY <1>3, FS_CardinalityType
<1>6. Cardinality(P \cap src') = Cardinality(P) - Cardinality(P \ src')
  BY <1>1, <1>4, <1>5
<1> QED
  BY <1>2, <1>5, <1>6 DEF Queued, P

LEMMA ConservedIs ==
  Conserved <=> \A q \in Irqs : owed[q] = Queued(q) + InFlight(q) + intDone[q]
  BY DEF Conserved, Queued

LEMMA ThreadConserved ==
  ASSUME TypeOK, Args, TrigFresh, Conserved, NEW t \in Threads, Thread(t)
  PROVE  Conserved'
<1>1. \A q \in Irqs : /\ owed[q] = Queued(q) + InFlight(q) + intDone[q]
                      /\ Queued(q) \in Nat /\ InFlight(q) \in Nat /\ intDone[q] \in Nat
                      /\ owed[q] \in Int
  BY ConservedIs, PendingFinite DEF TypeOK, InFlight
<1>2. UNCHANGED conf /\ \A q : InFlight(q)' = InFlight(q)
  BY ThreadFrame DEF InFlight, handler
<1>3. SUFFICES \A q \in Irqs : owed'[q] = Queued(q)' + InFlight(q) + intDone'[q]
  BY <1>2 DEF Conserved, Queued
<1>4. owed = [q \in Irqs |-> owed[q]] /\ intDone = [q \in Irqs |-> intDone[q]]
  BY DEF TypeOK
<1> DEFINE Good == \A q \in Irqs : owed'[q] = Queued(q)' + InFlight(q) + intDone'[q]
<1>5. ASSUME UNCHANGED <<src, owed, intDone>> PROVE Good
  BY <1>1, <1>2, <1>5, QueuedSame
<1>6. ASSUME TrigWrite(t) PROVE Good
  <2>1. arg[t][2] \in Srcs /\ Route(arg[t][2]) \in Irqs
    BY <1>6, RouteInRange DEF TrigWrite, Goto, Args
  <2>2. CASE bit[t] \/ conf.kind = "APU"
    BY <1>5, <1>6, <2>2 DEF TrigWrite
  <2>3. CASE ~(bit[t] \/ conf.kind = "APU")
    <3>1. arg[t][2] \notin src
      BY <1>6, <2>3 DEF TrigWrite, Goto, TrigFresh
    <3>2. /\ src' = src \cup {arg[t][2]} /\ intDone' = intDone
          /\ owed' = [owed EXCEPT ![Route(arg[t][2])] = @ + 1]
      BY <1>6, <2>3 DEF TrigWrite
    <3>3. \A q : Queued(q)' = IF q = Route(arg[t][2]) THEN Queued(q) + 1 ELSE Queued(q)
      BY <1>2, <2>1, <3>1, <3>2, QueuedMore
    <3> QED
      BY <1>1, <1>4, <2>1, <3>2, <3>3
  <2> QED
    BY <2>2, <2>3
<1>7. ASSUME BarRaise(t) PROVE Good
  <2>1. arg[t][2] \in Srcs /\ Route(arg[t][2]) \in Irqs
    BY <1>7, RouteInRange DEF BarRaise, Goto, Args
  <2>2. CASE arg[t][2] \in src
    <3>1. src' = src /\ UNCHANGED <<owed, intDone>>
      BY <1>7, <2>2 DEF BarRaise
    <3> QED
      BY <1>5, <3>1
  <2>3. CASE arg[t][2] \notin src
    <3>2. /\ src' = src \cup {arg[t][2]} /\ intDone' = intDone
          /\ owed' = [owed EXCEPT ![Route(arg[t][2])] = @ + 1]
      BY <1>7, <2>3 DEF BarRaise
    <3>3. \A q : Queued(q)' = IF q = Route(arg[t][2]) THEN Queued(q) + 1 ELSE Queued(q)
      BY <1>2, <2>1, <2>3, <3>2, QueuedMore
    <3> QED
      BY <1>1, <1>4, <2>1, <3>2, <3>3
  <2> QED
    BY <2>2, <2>3
<1>8. ASSUME BarClear(t) PROVE Good
  <2>1. Route(arg[t][2]) \in Irqs
    BY <1>8, RouteInRange DEF BarClear, Goto, Args
  <2>2. CASE arg[t][2] \notin src
    <3>1. src' = src /\ UNCHANGED <<owed, intDone>>
      BY <1>8, <2>2 DEF BarClear
    <3> QED
      BY <1>5, <3>1
  <2>3. CASE arg[t][2] \in src
    <3>2. /\ src' = src \ {arg[t][2]} /\ intDone' = intDone
          /\ owed' = [owed EXCEPT ![Route(arg[t][2])] = @ - 1]
      BY <1>8, <2>3 DEF BarClear
    <3>3. \A q : Queued(q)' = IF q = Route(arg[t][2]) THEN Queued(q) - 1 ELSE Queued(q)
      BY <1>2, <2>3, <3>2, QueuedFewer
    <3> QED
      BY <1>1, <1>4, <2>1, <3>2, <3>3
  <2> QED
    BY <2>2, <2>3
<1>9. ASSUME WaitDone(t) PROVE Good
  <2>1. arg[t][2] \in Irqs
    BY <1>9 DEF WaitDone, Goto, Args
  <2>2. src' = src
    BY <1>9 DEF WaitDone, mux
  <2>3. \A q : Queued(q)' = Queued(q)
    BY <1>2, <2>2, QueuedSame
  <2> QED
    BY <1>1, <1>4, <1>9, <2>1, <2>3 DEF WaitDone
<1>10. ASSUME NEW n \in 0 .. Cardinality(Irqs), AllocVectors(t, n) PROVE Good
  <2>1. CASE n = 0
    BY <1>5, <1>10, <2>1 DEF AllocVectors
  <2>2. CASE n > 0
    <3>1. /\ src' \subseteq src /\ intDone' = intDone
          /\ owed' = [q \in Irqs |-> owed[q] - Cardinality(Pending(q) \ src')]
      BY <1>10, <2>2 DEF AllocVectors
    <3>2. \A q : /\ Cardinality(Pending(q) \ src') \in Nat
                 /\ Queued(q)' = Queued(q) - Cardinality(Pending(q) \ src')
      BY <1>2, <3>1, QueuedReset
    <3>3. ASSUME NEW q \in Irqs PROVE owed'[q] = Queued(q)' + InFlight(q) + intDone'[q]
      <4> DEFINE k == Cardinality(Pending(q) \ src')
      <4>1. k \in Nat /\ Queued(q)' = Queued(q) - k /\ owed'[q] = owed[q] - k
        BY <3>1, <3>2
      <4> HIDE DEF k
      <4> QED
        BY <1>1, <3>1, <4>1
    <3> QED
      BY <3>3
  <2> QED
    BY <2>1, <2>2, CardinalityOfIrqs
<1>11. ASSUME Reinit(t) PROVE Good
  <2>1. src' = src
    BY <1>11 DEF Reinit, mux
  <2>2. \A q : Queued(q)' = Queued(q)
    BY <1>2, <2>1, QueuedSame
  <2> QED
    BY <1>1, <1>11, <2>2 DEF Reinit
<1> QED
  BY <1>5, <1>6, <1>7, <1>8, <1>9, <1>10, <1>11 DEF Thread, Initialise, Call, TrigRead,
     WaitTimeout, BarSoft, PowerLock, PowerUnlock, InitLock, FreeIrq, FreeSync,
     FreeVectors, RequestIrq, InitUnlock, Leave, mux

LEMMA HandlerConserved ==
  ASSUME TypeOK, Claimed, Conserved, NEW q \in Irqs, Handle(q)
  PROVE  Conserved'
<1>1. \A r \in Irqs : /\ owed[r] = Queued(r) + InFlight(r) + intDone[r]
                      /\ Queued(r) \in Nat /\ InFlight(r) \in {0, 1} /\ intDone[r] \in Nat
                      /\ owed[r] \in Int
  BY ConservedIs, PendingFinite DEF TypeOK, InFlight
<1>2. UNCHANGED conf /\ \A r \in Irqs \ {q} : InFlight(r)' = InFlight(r)
  BY HandlerFrame DEF InFlight
<1>3. /\ owed = [r \in Irqs |-> owed[r]] /\ intDone = [r \in Irqs |-> intDone[r]]
      /\ hpc = [r \in Irqs |-> hpc[r]] /\ hsrc \in [Irqs -> Srcs \cup {Nobody}]
  BY DEF TypeOK
<1> DEFINE Good == \A r \in Irqs : owed'[r] = Queued(r)' + InFlight(r)' + intDone'[r]
\* A step that neither queues, clears nor completes.
<1>4. ASSUME UNCHANGED <<src, owed, intDone>>, InFlight(q)' = InFlight(q) PROVE Good
  BY <1>1, <1>2, <1>4, QueuedSame
<1>5. ASSUME UNCHANGED <<src, owed, intDone>>, ~ThSoft(q), ~ThComplete(q), ~ThClear(q)
      PROVE  Good
  <2> USE <1>3 DEF InFlight, Step
  <2>1. CASE ThClaim(q)
    BY <1>4, <1>5, <2>1 DEF ThClaim
  <2>2. CASE ThClaimError(q)
    BY <1>4, <1>5, <2>2, Actors DEF ThClaimError, Claimed
  <2>3. CASE ThRestore(q)
    BY <1>4, <1>5, <2>3 DEF ThRestore
  <2>4. CASE ThExit(q)
    BY <1>4, <1>5, <2>4 DEF ThExit
  <2>5. CASE \/ ThEnter(q) \/ ThLock(q) \/ ThDma(q)
             \/ ThMutex(q) \/ ThBlock(q) \/ ThWake(q)
    BY <1>4, <1>5, <2>5
    DEF ThEnter, ThLock, ThDma, ThMutex, ThBlock, ThWake, TakeMutex
  <2> QED
    BY <1>5, <2>1, <2>2, <2>3, <2>4, <2>5 DEF Handle, Serve
<1>6. ASSUME ThSoft(q) PROVE Good
  <2>1. /\ owed' = [owed EXCEPT ![q] = @ + 1] /\ src' = src /\ intDone' = intDone
        /\ InFlight(q) = 0 /\ InFlight(q)' = 1
    BY <1>3, <1>6 DEF ThSoft, Step, InFlight
  <2>2. \A r : Queued(r)' = Queued(r)
    BY <1>2, <2>1, QueuedSame
  <2> QED
    BY <1>1, <1>2, <1>3, <2>1, <2>2
<1>7. ASSUME ThComplete(q) PROVE Good
  <2>1. /\ intDone' = [intDone EXCEPT ![q] = @ + 1] /\ src' = src /\ owed' = owed
        /\ InFlight(q) = 1 /\ InFlight(q)' = 0
    BY <1>3, <1>7 DEF ThComplete, Step, InFlight, mux
  <2>2. \A r : Queued(r)' = Queued(r)
    BY <1>2, <2>1, QueuedSame
  <2>3. owed[q] = Queued(q) + 1 + intDone[q] /\ intDone'[q] = intDone[q] + 1
    BY <1>1, <1>3, <2>1
  <2>4. owed'[q] = Queued(q)' + InFlight(q)' + intDone'[q]
    BY <1>1, <2>1, <2>2, <2>3
  <2>5. \A r \in Irqs \ {q} : owed'[r] = Queued(r)' + InFlight(r)' + intDone'[r]
    BY <1>1, <1>2, <1>3, <2>1, <2>2
  <2> QED
    BY <2>4, <2>5
<1>8. ASSUME ThClear(q) PROVE Good
  <2>1. hsrc[q] \in Srcs /\ Route(hsrc[q]) = q /\ hsrc[q] # Nobody
    BY <1>8, Actors DEF ThClear, Step, Claimed
  <2>2. InFlight(q) = 0 /\ InFlight(q)' = 1 /\ intDone' = intDone /\ src' = src \ {hsrc[q]}
    BY <1>3, <1>8, <2>1 DEF ThClear, Step, InFlight
  <2>3. CASE hsrc[q] \in src
    <3>1. \A r : Queued(r)' = IF r = q THEN Queued(r) - 1 ELSE Queued(r)
      BY <1>2, <2>1, <2>2, <2>3, QueuedFewer
    <3>2. owed' = owed
      BY <1>8, <2>3 DEF ThClear
    <3> QED
      BY <1>1, <1>2, <2>2, <3>1, <3>2
  <2>4. CASE hsrc[q] \notin src
    <3>1. src' = src
      BY <2>2, <2>4
    <3>2. \A r : Queued(r)' = Queued(r)
      BY <1>2, <3>1, QueuedSame
    <3>3. owed' = [owed EXCEPT ![q] = @ + 1]
      BY <1>8, <2>4 DEF ThClear
    <3> QED
      BY <1>1, <1>2, <1>3, <2>2, <3>2, <3>3
  <2> QED
    BY <2>3, <2>4
<1>9. UNCHANGED <<src, owed, intDone>> \/ ThSoft(q) \/ ThComplete(q) \/ ThClear(q)
  BY DEF Handle, Serve, ThEnter, ThLock, ThDma, ThMutex, ThBlock, ThWake, TakeMutex,
     ThClaim, ThClaimError, ThRestore,
     ThExit, mux
<1>10. Good
  BY <1>5, <1>6, <1>7, <1>8, <1>9
<1> QED
  BY <1>10 DEF Conserved, Queued

LEMMA HandlerClaimed ==
  ASSUME TypeOK, Claimed, NEW q \in Irqs, Handle(q)
  PROVE  Claimed'
<1>1. UNCHANGED conf /\ \A r \in Irqs \ {q} : hpc'[r] = hpc[r] /\ hsrc'[r] = hsrc[r]
  BY HandlerFrame
<1>2. hpc'[q] \in {"idle", "spin", "dma", "soft", "mutex", "blocked", "claim"} =>
        hsrc'[q] = Nobody
  BY DEF TypeOK, Claimed, Handle, Serve, Step, ThEnter, ThLock, ThDma, ThSoft, ThMutex,
     ThBlock, ThWake, TakeMutex,
     ThClaim, ThClaimError, ThClear, ThRestore, ThComplete, ThExit
<1>3. hpc'[q] = "clear" => hsrc'[q] \in Srcs /\ Route(hsrc'[q]) = q
  BY DEF TypeOK, Pending, Handle, Serve, Step, ThEnter, ThLock, ThDma, ThSoft, ThMutex,
     ThBlock, ThWake, TakeMutex,
     ThClaim, ThClaimError, ThClear, ThRestore, ThComplete, ThExit
<1> QED
  BY <1>1, <1>2, <1>3 DEF Claimed, Route

LEMMA ThreadTrigFresh ==
  ASSUME RaisedByKind, TypeOK, Locked, TrigFresh, NEW t \in Threads, Thread(t)
  PROVE  TrigFresh'
<1>1. /\ UNCHANGED conf
      /\ \A u \in Threads \ {t} : /\ pc'[u] = pc[u] /\ arg'[u] = arg[u]
                                  /\ bit'[u] = bit[u]
  BY ThreadFrame
<1>2. ASSUME NEW u \in Threads, pc'[u] = "raise" PROVE conf.kind = "APU"
  <2>1. CASE u = t /\ pc[t] # "raise"
    <3>1. PICK o \in conf.ops[t] : Call(t, o)
      BY <1>2, <2>1 DEF TypeOK, Thread, Initialise, Goto, TrigRead, TrigWrite, WaitDone,
         WaitTimeout, BarSoft, BarRaise, BarClear, PowerLock, PowerUnlock, InitLock, FreeIrq,
         FreeSync, FreeVectors, AllocVectors, RequestIrq, Reinit, InitUnlock, Leave
    <3>2. o \in Operations /\ o[1] = "raise" /\ conf \in Confs
      BY <1>2, <2>1, <3>1, ConfTypes DEF TypeOK, Call, Goto
    <3>3. o \in {"trig", "raise", "clear"} \X Srcs
      BY <3>2 DEF Operations
    <3>4. o[2] \in Srcs /\ o = <<"raise", o[2]>>
      BY <3>2, <3>3
    <3> QED
      BY <3>1, <3>2, <3>4 DEF RaisedByKind
  <2>2. CASE u # t \/ pc[t] = "raise"
    BY <1>1, <1>2, <2>2 DEF TrigFresh
  <2> QED
    BY <2>1, <2>2
<1>3. ASSUME NEW u \in Threads, pc'[u] = "set", ~bit'[u], conf.kind # "APU"
      PROVE  arg'[u][2] \notin src'
  <2>1. CASE u = t
    <3>1. ~Setup(t)
      BY <1>3, <2>1 DEF TypeOK, Setup, Goto, InitLock, FreeIrq, FreeSync, FreeVectors,
         AllocVectors, RequestIrq, Reinit, InitUnlock
    <3>2. ASSUME NEW o \in conf.ops[t], Call(t, o) PROVE FALSE
      <4>1. o \in Operations /\ pc' = [pc EXCEPT ![t] = o[1]]
        BY <3>2, ConfTypes DEF TypeOK, Goto, Call
      <4> QED
        BY <1>3, <2>1, <4>1, OperationsInRange DEF TypeOK
    <3>3. TrigRead(t)
      BY <1>3, <2>1, <3>1, <3>2 DEF TypeOK, Thread, Initialise, Setup, Goto, TrigWrite,
         WaitDone, WaitTimeout, BarSoft, BarRaise, BarClear, PowerLock, PowerUnlock, Leave
    <3> QED
      BY <1>3, <2>1, <3>3 DEF TypeOK, TrigRead, mux
  <2>2. CASE u # t
    <3>1. arg[u][2] \notin src /\ arg'[u] = arg[u] /\ irqLock = u
      BY <1>1, <1>3, <2>2 DEF TrigFresh, Locked
    <3>2. ~TrigWrite(t)
      BY <2>2, <3>1 DEF TrigWrite, Goto, Locked
    <3>3. ~BarRaise(t)
      BY <1>3 DEF BarRaise, Goto, TrigFresh
    <3>4. src' \subseteq src
      BY <3>2, <3>3 DEF Thread, Initialise, Goto, Call, TrigRead, WaitDone, WaitTimeout,
         BarSoft, BarClear, PowerLock, PowerUnlock, InitLock, FreeIrq, FreeSync,
         FreeVectors, AllocVectors, RequestIrq, Reinit, InitUnlock, Leave, mux
    <3> QED
      BY <3>1, <3>4
  <2> QED
    BY <2>1, <2>2
<1> QED
  BY <1>1, <1>2, <1>3 DEF TrigFresh

LEMMA InitCount == Init => CountInv
<1> SUFFICES ASSUME Init PROVE CountInv
  OBVIOUS
<1>1. Claimed
  BY DEF Init, Claimed
<1>2. TrigFresh
  BY DEF Init, TrigFresh
<1>3. \A q : Pending(q) = {}
  BY DEF Init, Pending
<1>4. \A q \in Irqs : Cardinality(Pending(q)) = 0 /\ InFlight(q) = 0
  BY <1>3, FS_EmptySet DEF Init, InFlight
<1>5. Conserved
  BY <1>4 DEF Init, Conserved
<1> QED
  BY <1>1, <1>2, <1>5 DEF CountInv

LEMMA NextCount == RaisedByKind /\ SetupInv /\ CountInv /\ [Next]_vars => CountInv'
<1> SUFFICES ASSUME RaisedByKind, SetupInv, CountInv, [Next]_vars PROVE CountInv'
  OBVIOUS
<1> USE DEF SetupInv, CountInv
<1>1. ASSUME NEW t \in Threads, Thread(t) PROVE CountInv'
  <2>1. Claimed'
    BY <1>1, ThreadFrame DEF Claimed, Route, handler
  <2> QED
    BY <1>1, <2>1, ThreadTrigFresh, ThreadConserved
<1>2. ASSUME NEW q \in Irqs, Handle(q) PROVE CountInv'
  <2>1. src' \subseteq src
    BY <1>2 DEF Handle, Serve, ThEnter, ThLock, ThDma, ThSoft, ThMutex, ThBlock,
       ThWake, TakeMutex, ThClaim,
       ThClaimError, ThClear, ThRestore, ThComplete, ThExit, mux
  <2>2. TrigFresh'
    BY <1>2, <2>1, HandlerFrame DEF TrigFresh, thread
  <2> QED
    BY <1>2, <2>2, HandlerClaimed, HandlerConserved
<1>3. CASE UNCHANGED vars
  BY <1>3 DEF vars, thread, mux, handler, Claimed, TrigFresh, Conserved, Route, Pending,
     InFlight
<1> QED
  BY <1>1, <1>2, <1>3, NextIsThreadOrHandler

\* Conserved for every function whose sources are raised the way its kind raises
\* them: no interrupt that TRIG_INT reports is lost or counted twice, whatever
\* the handlers, the other ioctls and irq_init do meanwhile.
THEOREM Conservation == RaisedByKind => (Spec => []Conserved)
<1> SUFFICES ASSUME RaisedByKind PROVE Spec => []Conserved
  OBVIOUS
<1>1. SetupInv /\ CountInv /\ [Next]_vars => CountInv'
  BY NextCount
<1>2. CountInv => Conserved
  BY DEF CountInv
<1> QED
  BY <1>1, <1>2, InitCount, SetupInvariance, PTL DEF Spec
=============================================================================
