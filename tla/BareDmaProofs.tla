--------------------------- MODULE BareDmaProofs ---------------------------
(***************************************************************************)
(* Proofs about BareDma, for every set of threads and channels, either     *)
(* kind of function and every behaviour of the engines.                    *)
(***************************************************************************)
EXTENDS BareDma, TLAPS

\* The thread inside the critical section of a channel holds its int_mutex.
MutexHeld ==
  \A t \in Threads : pc[t] \in Held => mtx[ch[t]] = t

\* The registers and the engine of a channel name a thread only while that
\* thread is in dma_bare_xfer on the channel.
DescOwner ==
  \A c \in Chan, t \in Threads :
    desc[c] = t => pc[t] \in {"enable", "wait"} /\ ch[t] = c

RunOwner ==
  \A c \in Chan, t \in Threads :
    run[c] = t => pc[t] = "wait" /\ ch[t] = c /\ own[t] = {}

\* The history of a call starts empty.
Fresh ==
  \A t \in Threads :
    /\ pc[t] \in {"idle", "lock", "prog", "enable"} => own[t] = {}
    /\ pc[t] \in {"idle", "lock"} => ~clean[t]

\* A call that found its channel quiet sees no completion until the engine
\* raises DONE for its own descriptors.
CleanCall ==
  \A t \in Threads :
    clean[t] /\ chain[t] =>
      /\ pc[t] \in {"prog", "enable"} => Quiet(ch[t]) /\ intDone[ch[t]] = 0
      /\ pc[t] = "wait" /\ "done" \notin own[t] =>
           /\ "done" \notin raw[ch[t]]
           /\ ~InIsr(ch[t])
           /\ intDone[ch[t]] = 0
           /\ run[ch[t]] \in {t, Nobody}
      /\ pc[t] \in {"unlock", "result", "ret"} /\ got[t] => "done" \in own[t]

\* The result 1 is the result of a wait that was completed.
ResultOfWait ==
  \A t \in Threads : ret[t] = 1 => pc[t] = "ret" /\ got[t]

IInv ==
  /\ TypeOK
  /\ MutexHeld
  /\ RegistersOwned
  /\ DescOwner
  /\ RunOwner
  /\ Fresh
  /\ NoLostDone
  /\ CleanCall
  /\ ResultOfWait
-----------------------------------------------------------------------------
LEMMA InitTypeOK == Init => TypeOK
  BY ConstantsAssumption
  DEF Init, TypeOK, Chan, Held, Bits

LEMMA NextTypeOK == TypeOK /\ [Next]_vars => TypeOK'
<1> SUFFICES ASSUME TypeOK, [Next]_vars PROVE TypeOK'
  OBVIOUS
<1> USE DEF TypeOK, Held, Bits, Goto
<1>1. ASSUME NEW t \in Threads, NEW q \in Requests[t],
             Call(t, q[1], q[2], q[3])
      PROVE  TypeOK'
  <2>1. q \in Directions \X Idx \X BOOLEAN
    BY ConstantsAssumption
  <2>2. SelectChan(q[1], q[2]) \in Chan
    BY <2>1, ConstantsAssumption DEF SelectChan, Chan
  <2>3. q[3] \in BOOLEAN
    BY <2>1
  <2> QED
    BY <1>1, <2>2, <2>3 DEF Call, sync, hw, isr, hist
<1>2. ASSUME NEW t \in Threads, CallBadDirection(t) PROVE TypeOK'
  BY <1>2 DEF CallBadDirection, sync, hw, isr, hist
<1>3. ASSUME NEW t \in Threads, Lock(t) PROVE TypeOK'
  <2>1. Quiet(ch[t]) \in BOOLEAN
    BY DEF Quiet
  <2> QED
    BY <1>3, <2>1 DEF Lock, hw, isr
<1>4. ASSUME NEW t \in Threads, Program(t) PROVE TypeOK'
  BY <1>4 DEF Program, isr, hist
<1>5. ASSUME NEW t \in Threads, Enable(t) PROVE TypeOK'
  BY <1>5 DEF Enable, sync, isr, hist
<1>6. ASSUME NEW t \in Threads, WaitDone(t) PROVE TypeOK'
  BY <1>6 DEF WaitDone, Forget, isr, hist
<1>7. ASSUME NEW t \in Threads, WaitTimeout(t) PROVE TypeOK'
  BY <1>7 DEF WaitTimeout, Forget, sync, isr
<1>8. ASSUME NEW t \in Threads, Unlock(t) PROVE TypeOK'
  BY <1>8 DEF Unlock, hw, isr, hist
<1>9. ASSUME NEW t \in Threads, Return(t) PROVE TypeOK'
  BY <1>9 DEF Return, sync, hw, isr, hist
<1>10. ASSUME NEW t \in Threads, Leave(t) PROVE TypeOK'
  <2>1. <<"rd", 0>> \in Chan
    BY ConstantsAssumption DEF Chan
  <2> QED
    BY <1>10, <2>1 DEF Leave, sync, hw, isr
<1>11. ASSUME NEW c \in Chan, NEW o \in HwOutcomes, HwStop(c, o) PROVE TypeOK'
  <2>1. o \subseteq Bits
    BY ConstantsAssumption
  <2> QED
    BY <1>11, <2>1 DEF HwStop, thread, sync, isr
<1>12. CASE IsrEnterPf
  BY <1>12 DEF IsrEnterPf, thread, sync, hw, hist
<1>13. CASE IsrReadPf
  BY <1>13 DEF IsrReadPf, Merged, thread, sync, hw, hist
<1>14. CASE IsrEnterVf
  BY <1>14 DEF IsrEnterVf, thread, sync, hw, hist
<1>15. CASE IsrScan
  BY <1>15 DEF IsrScan, thread, sync, hw, hist
<1>16. CASE BareIsrRead
  BY <1>16 DEF BareIsrRead, thread, hw, hist
<1>17. CASE BareIsrAck
  BY <1>17 DEF BareIsrAck, thread, sync, hist
<1>18. CASE BareIsrComplete
  BY <1>18 DEF BareIsrComplete, thread, hw, hist
<1>19. CASE IsrExit
  <2>1. <<"rd", 0>> \in Chan
    BY ConstantsAssumption DEF Chan
  <2> QED
    BY <1>19, <2>1 DEF IsrExit, thread, sync, hw, hist
<1>20. CASE UNCHANGED vars
  BY <1>20 DEF vars, thread, sync, hw, isr, hist
<1> QED
  BY <1>1, <1>2, <1>3, <1>4, <1>5, <1>6, <1>7, <1>8, <1>9, <1>10, <1>11,
     <1>12, <1>13, <1>14, <1>15, <1>16, <1>17, <1>18, <1>19, <1>20
  DEF Next, Handler

\* Every variable keeps its type: in particular int_done is never decremented
\* below 0 by wait_for_completion_timeout.
THEOREM TypeCorrect == Spec => []TypeOK
  BY InitTypeOK, NextTypeOK, PTL DEF Spec
-----------------------------------------------------------------------------
LEMMA InitIInv == Init => IInv
<1> SUFFICES ASSUME Init PROVE IInv
  OBVIOUS
<1>1. TypeOK
  BY InitTypeOK
<1>2. MutexHeld /\ RegistersOwned /\ Fresh /\ NoLostDone /\ CleanCall
  BY DEF Init, MutexHeld, RegistersOwned, Fresh, NoLostDone, CleanCall, Held
<1>3. DescOwner /\ RunOwner
  BY ConstantsAssumption DEF Init, DescOwner, RunOwner
<1>4. ResultOfWait
  BY DEF Init, ResultOfWait
<1> QED
  BY <1>1, <1>2, <1>3, <1>4 DEF IInv

\* The parts of the invariant about the threads only.
ThreadInv == MutexHeld /\ Fresh /\ ResultOfWait

\* The parts about who owns the registers and the engine.
OwnerInv == RegistersOwned /\ DescOwner /\ RunOwner

\* No step of emu_dma_isr or dma_bare_isr touches what ThreadInv and OwnerInv
\* are about.
LEMMA HandlerFrame ==
  ASSUME Handler
  PROVE  UNCHANGED <<thread, mtx, desc, run, hist>>
<1> USE DEF sync, hw
<1>1. CASE IsrEnterPf
  BY <1>1 DEF IsrEnterPf
<1>2. CASE IsrReadPf
  BY <1>2 DEF IsrReadPf
<1>3. CASE IsrEnterVf
  BY <1>3 DEF IsrEnterVf
<1>4. CASE IsrScan
  BY <1>4 DEF IsrScan
<1>5. CASE BareIsrRead
  BY <1>5 DEF BareIsrRead
<1>6. CASE BareIsrAck
  BY <1>6 DEF BareIsrAck
<1>7. CASE BareIsrComplete
  BY <1>7 DEF BareIsrComplete
<1>8. CASE IsrExit
  BY <1>8 DEF IsrExit
<1> QED
  BY <1>1, <1>2, <1>3, <1>4, <1>5, <1>6, <1>7, <1>8 DEF Handler

LEMMA FrameInv ==
  ASSUME ThreadInv, OwnerInv, UNCHANGED <<thread, mtx, desc, run, hist>>
  PROVE  ThreadInv' /\ OwnerInv'
  BY DEF ThreadInv, OwnerInv, MutexHeld, Fresh, ResultOfWait, RegistersOwned,
         DescOwner, RunOwner, thread, hist

LEMMA NextIInv == IInv /\ [Next]_vars => IInv'
<1> SUFFICES ASSUME IInv, [Next]_vars PROVE IInv'
  OBVIOUS
<1> USE ConstantsAssumption DEF Goto
<1>a. TypeOK /\ ThreadInv /\ OwnerInv /\ NoLostDone /\ CleanCall
  BY DEF IInv, ThreadInv, OwnerInv
<1>b. TypeOK'
  BY NextTypeOK DEF IInv
<1>c. SUFFICES ThreadInv' /\ OwnerInv' /\ NoLostDone' /\ CleanCall'
  BY <1>b DEF IInv, ThreadInv, OwnerInv
<1> USE <1>a
<1>1. ASSUME NEW t \in Threads, NEW q \in Requests[t],
             Call(t, q[1], q[2], q[3])
      PROVE  ThreadInv' /\ OwnerInv' /\ NoLostDone' /\ CleanCall'
  <2>1. ThreadInv'
    BY <1>1 DEF Call, sync, hw, isr, hist, ThreadInv, MutexHeld, Fresh,
       ResultOfWait, Held, TypeOK
  <2>2. OwnerInv'
    BY <1>1 DEF Call, sync, hw, isr, hist, OwnerInv, RegistersOwned,
       DescOwner, RunOwner, ThreadInv, MutexHeld, Fresh, Held, TypeOK
  <2>3. NoLostDone'
    BY <1>1 DEF Call, sync, hw, isr, hist, NoLostDone, ThreadInv, MutexHeld,
       Fresh, OwnerInv, RunOwner, Held, TypeOK
  <2>4. CleanCall'
    BY <1>1 DEF Call, sync, hw, isr, hist, CleanCall, ThreadInv, MutexHeld,
       Fresh, OwnerInv, RegistersOwned, RunOwner, Quiet, InIsr, Held, TypeOK
  <2> QED
    BY <2>1, <2>2, <2>3, <2>4
<1>2. ASSUME NEW t \in Threads, CallBadDirection(t)
      PROVE  ThreadInv' /\ OwnerInv' /\ NoLostDone' /\ CleanCall'
  <2>1. ThreadInv'
    BY <1>2 DEF CallBadDirection, sync, hw, isr, hist, ThreadInv, MutexHeld,
       Fresh, ResultOfWait, Held, TypeOK
  <2>2. OwnerInv'
    BY <1>2 DEF CallBadDirection, sync, hw, isr, hist, OwnerInv,
       RegistersOwned, DescOwner, RunOwner, ThreadInv, MutexHeld, Fresh, Held,
       TypeOK
  <2>3. NoLostDone'
    BY <1>2 DEF CallBadDirection, sync, hw, isr, hist, NoLostDone,
       ThreadInv, MutexHeld, Fresh, OwnerInv, RunOwner, Held, TypeOK
  <2>4. CleanCall'
    BY <1>2 DEF CallBadDirection, sync, hw, isr, hist, CleanCall, ThreadInv,
       MutexHeld, Fresh, OwnerInv, RegistersOwned, RunOwner, Quiet, InIsr,
       Held, TypeOK
  <2> QED
    BY <2>1, <2>2, <2>3, <2>4
<1>3. ASSUME NEW t \in Threads, Lock(t)
      PROVE  ThreadInv' /\ OwnerInv' /\ NoLostDone' /\ CleanCall'
  <2>1. ThreadInv'
    BY <1>3 DEF Lock, hw, isr, ThreadInv, MutexHeld, Fresh, ResultOfWait,
       Held, TypeOK
  <2>2. OwnerInv'
    BY <1>3 DEF Lock, hw, isr, OwnerInv, RegistersOwned, DescOwner,
       RunOwner, ThreadInv, MutexHeld, Fresh, Held, TypeOK
  <2>3. NoLostDone'
    BY <1>3 DEF Lock, hw, isr, NoLostDone, ThreadInv, MutexHeld, Fresh,
       OwnerInv, RunOwner, Held, TypeOK
  <2>4. CleanCall'
    BY <1>3 DEF Lock, hw, isr, CleanCall, ThreadInv, MutexHeld, Fresh,
       OwnerInv, RegistersOwned, RunOwner, Quiet, InIsr, Held, TypeOK
  <2> QED
    BY <2>1, <2>2, <2>3, <2>4
<1>4. ASSUME NEW t \in Threads, Program(t)
      PROVE  ThreadInv' /\ OwnerInv' /\ NoLostDone' /\ CleanCall'
  <2>1. ThreadInv'
    BY <1>4 DEF Program, isr, hist, ThreadInv, MutexHeld, Fresh,
       ResultOfWait, Held, TypeOK
  <2>2. OwnerInv'
    BY <1>4 DEF Program, isr, hist, OwnerInv, RegistersOwned, DescOwner,
       RunOwner, ThreadInv, MutexHeld, Fresh, Held, TypeOK
  <2>3. NoLostDone'
    BY <1>4 DEF Program, isr, hist, NoLostDone, ThreadInv, MutexHeld, Fresh,
       OwnerInv, RunOwner, Held, TypeOK
  <2>4. CleanCall'
    BY <1>4 DEF Program, isr, hist, CleanCall, ThreadInv, MutexHeld, Fresh,
       OwnerInv, RegistersOwned, RunOwner, Quiet, InIsr, Held, TypeOK
  <2> QED
    BY <2>1, <2>2, <2>3, <2>4
<1>5. ASSUME NEW t \in Threads, Enable(t)
      PROVE  ThreadInv' /\ OwnerInv' /\ NoLostDone' /\ CleanCall'
  <2>1. ThreadInv'
    BY <1>5 DEF Enable, sync, isr, hist, ThreadInv, MutexHeld, Fresh,
       ResultOfWait, Held, TypeOK
  <2>2. OwnerInv'
    BY <1>5 DEF Enable, sync, isr, hist, OwnerInv, RegistersOwned,
       DescOwner, RunOwner, ThreadInv, MutexHeld, Fresh, Held, TypeOK
  <2>3. NoLostDone'
    BY <1>5 DEF Enable, sync, isr, hist, NoLostDone, ThreadInv, MutexHeld,
       Fresh, OwnerInv, RunOwner, Held, TypeOK
  <2>4. CleanCall'
    BY <1>5 DEF Enable, sync, isr, hist, CleanCall, ThreadInv, MutexHeld,
       Fresh, OwnerInv, RegistersOwned, RunOwner, Quiet, InIsr, Held, TypeOK
  <2> QED
    BY <2>1, <2>2, <2>3, <2>4
<1>6. ASSUME NEW t \in Threads, WaitDone(t)
      PROVE  ThreadInv' /\ OwnerInv' /\ NoLostDone' /\ CleanCall'
  <2>1. ThreadInv'
    BY <1>6 DEF WaitDone, Forget, isr, hist, ThreadInv, MutexHeld, Fresh,
       ResultOfWait, Held, TypeOK
  <2>2. OwnerInv'
    BY <1>6 DEF WaitDone, Forget, isr, hist, OwnerInv, RegistersOwned,
       DescOwner, RunOwner, ThreadInv, MutexHeld, Fresh, Held, TypeOK
  <2>3. NoLostDone'
    BY <1>6 DEF WaitDone, Forget, isr, hist, NoLostDone, ThreadInv,
       MutexHeld, Fresh, OwnerInv, RunOwner, Held, TypeOK
  <2>4. CleanCall'
    BY <1>6 DEF WaitDone, Forget, isr, hist, CleanCall, ThreadInv,
       MutexHeld, Fresh, OwnerInv, RegistersOwned, RunOwner, Quiet, InIsr,
       Held, TypeOK
  <2> QED
    BY <2>1, <2>2, <2>3, <2>4
<1>7. ASSUME NEW t \in Threads, WaitTimeout(t)
      PROVE  ThreadInv' /\ OwnerInv' /\ NoLostDone' /\ CleanCall'
  <2>1. ThreadInv'
    BY <1>7 DEF WaitTimeout, Forget, sync, isr, ThreadInv, MutexHeld, Fresh,
       ResultOfWait, Held, TypeOK
  <2>2. OwnerInv'
    BY <1>7 DEF WaitTimeout, Forget, sync, isr, OwnerInv, RegistersOwned,
       DescOwner, RunOwner, ThreadInv, MutexHeld, Fresh, Held, TypeOK
  <2>3. NoLostDone'
    BY <1>7 DEF WaitTimeout, Forget, sync, isr, NoLostDone, ThreadInv,
       MutexHeld, Fresh, OwnerInv, RunOwner, Held, TypeOK
  <2>4. CleanCall'
    BY <1>7 DEF WaitTimeout, Forget, sync, isr, CleanCall, ThreadInv,
       MutexHeld, Fresh, OwnerInv, RegistersOwned, RunOwner, Quiet, InIsr,
       Held, TypeOK
  <2> QED
    BY <2>1, <2>2, <2>3, <2>4
<1>8. ASSUME NEW t \in Threads, Unlock(t)
      PROVE  ThreadInv' /\ OwnerInv' /\ NoLostDone' /\ CleanCall'
  <2>1. ThreadInv'
    BY <1>8 DEF Unlock, hw, isr, hist, ThreadInv, MutexHeld, Fresh,
       ResultOfWait, Held, TypeOK
  <2>2. OwnerInv'
    BY <1>8 DEF Unlock, hw, isr, hist, OwnerInv, RegistersOwned, DescOwner,
       RunOwner, ThreadInv, MutexHeld, Fresh, Held, TypeOK
  <2>3. NoLostDone'
    BY <1>8 DEF Unlock, hw, isr, hist, NoLostDone, ThreadInv, MutexHeld,
       Fresh, OwnerInv, RunOwner, Held, TypeOK
  <2>4. CleanCall'
    BY <1>8 DEF Unlock, hw, isr, hist, CleanCall, ThreadInv, MutexHeld,
       Fresh, OwnerInv, RegistersOwned, RunOwner, Quiet, InIsr, Held, TypeOK
  <2> QED
    BY <2>1, <2>2, <2>3, <2>4
<1>9. ASSUME NEW t \in Threads, Return(t)
      PROVE  ThreadInv' /\ OwnerInv' /\ NoLostDone' /\ CleanCall'
  <2>1. ThreadInv'
    BY <1>9 DEF Return, sync, hw, isr, hist, ThreadInv, MutexHeld, Fresh,
       ResultOfWait, Held, TypeOK
  <2>2. OwnerInv'
    BY <1>9 DEF Return, sync, hw, isr, hist, OwnerInv, RegistersOwned,
       DescOwner, RunOwner, ThreadInv, MutexHeld, Fresh, Held, TypeOK
  <2>3. NoLostDone'
    BY <1>9 DEF Return, sync, hw, isr, hist, NoLostDone, ThreadInv,
       MutexHeld, Fresh, OwnerInv, RunOwner, Held, TypeOK
  <2>4. CleanCall'
    BY <1>9 DEF Return, sync, hw, isr, hist, CleanCall, ThreadInv,
       MutexHeld, Fresh, OwnerInv, RegistersOwned, RunOwner, Quiet, InIsr,
       Held, TypeOK
  <2> QED
    BY <2>1, <2>2, <2>3, <2>4
<1>10. ASSUME NEW t \in Threads, Leave(t)
      PROVE  ThreadInv' /\ OwnerInv' /\ NoLostDone' /\ CleanCall'
  <2>1. ThreadInv'
    BY <1>10 DEF Leave, sync, hw, isr, ThreadInv, MutexHeld, Fresh,
       ResultOfWait, Held, TypeOK
  <2>2. OwnerInv'
    BY <1>10 DEF Leave, sync, hw, isr, OwnerInv, RegistersOwned, DescOwner,
       RunOwner, ThreadInv, MutexHeld, Fresh, Held, TypeOK
  <2>3. NoLostDone'
    BY <1>10 DEF Leave, sync, hw, isr, NoLostDone, ThreadInv, MutexHeld,
       Fresh, OwnerInv, RunOwner, Held, TypeOK
  <2>4. CleanCall'
    BY <1>10 DEF Leave, sync, hw, isr, CleanCall, ThreadInv, MutexHeld,
       Fresh, OwnerInv, RegistersOwned, RunOwner, Quiet, InIsr, Held, TypeOK
  <2> QED
    BY <2>1, <2>2, <2>3, <2>4
<1>11. ASSUME NEW c \in Chan, NEW o \in HwOutcomes, HwStop(c, o)
      PROVE  ThreadInv' /\ OwnerInv' /\ NoLostDone' /\ CleanCall'
  <2>1. ThreadInv'
    BY <1>11 DEF HwStop, thread, sync, isr, ThreadInv, MutexHeld, Fresh,
       ResultOfWait, Held, TypeOK, OwnerInv, RunOwner
  <2>2. OwnerInv'
    BY <1>11 DEF HwStop, thread, sync, isr, OwnerInv, RegistersOwned,
       DescOwner, RunOwner, ThreadInv, MutexHeld, Fresh, Held, TypeOK
  <2>3. NoLostDone'
    BY <1>11 DEF HwStop, thread, sync, isr, NoLostDone, ThreadInv,
       MutexHeld, Fresh, OwnerInv, RunOwner, Held, TypeOK
  <2>4. CleanCall'
    <3> SUFFICES ASSUME NEW u \in Threads, clean[u], chain[u]
                 PROVE  /\ pc[u] \in {"prog", "enable"} =>
                             Quiet(ch[u])' /\ intDone[ch[u]] = 0
                        /\ pc[u] = "wait" /\ "done" \notin own'[u] =>
                             /\ "done" \notin raw'[ch[u]]
                             /\ ~InIsr(ch[u])'
                             /\ intDone[ch[u]] = 0
                             /\ run'[ch[u]] \in {u, Nobody}
                        /\ pc[u] \in {"unlock", "result", "ret"} /\ got[u] =>
                             "done" \in own'[u]
      BY <1>11 DEF HwStop, thread, sync, CleanCall, TypeOK
    <3>1. InIsr(ch[u])' = InIsr(ch[u])
      BY <1>11 DEF HwStop, thread, isr, InIsr
    <3>2. ch[u] \in Chan
      BY DEF TypeOK
    <3>3. CASE run[c] = u
      <4>1. pc[u] = "wait" /\ ch[u] = c /\ own'[u] = o
        BY <1>11, <3>3 DEF HwStop, OwnerInv, RunOwner
      <4>2. ASSUME "done" \notin o
            PROVE  "done" \notin raw'[c] /\ run'[c] = Nobody /\ ~InIsr(c)
                   /\ intDone[c] = 0
        <5>1. "done" \notin own[u]
          BY <3>3 DEF OwnerInv, RunOwner
        <5> QED
          BY <1>11, <4>1, <4>2, <5>1 DEF HwStop, CleanCall, TypeOK
      <4> QED
        BY <3>1, <4>1, <4>2
    <3>4. CASE run[c] # u
      <4>1. own'[u] = own[u]
        BY <1>11, <3>4 DEF HwStop
      <4>2. ASSUME ch[u] # c
            PROVE  raw'[ch[u]] = raw[ch[u]] /\ run'[ch[u]] = run[ch[u]]
        BY <1>11, <3>2, <4>2 DEF HwStop, TypeOK
      <4>3. ASSUME ch[u] = c
            PROVE  /\ pc[u] \notin {"prog", "enable"}
                   /\ pc[u] = "wait" => "done" \in own[u]
        BY <1>11, <3>4, <4>3 DEF HwStop, CleanCall, Quiet
      <4> QED
        BY <1>11, <3>1, <4>1, <4>2, <4>3 DEF HwStop, thread, CleanCall, Quiet
    <3> QED
      BY <3>3, <3>4
  <2> QED
    BY <2>1, <2>2, <2>3, <2>4
<1>12. ASSUME IsrEnterPf PROVE ThreadInv' /\ OwnerInv' /\ NoLostDone' /\ CleanCall'
  <2>1. ThreadInv' /\ OwnerInv'
    BY <1>12, HandlerFrame, FrameInv DEF Handler
  <2>2. NoLostDone'
    BY <1>12 DEF IsrEnterPf, thread, sync, hw, hist, NoLostDone, TypeOK
  <2>3. CleanCall'
    BY <1>12 DEF IsrEnterPf, thread, sync, hw, hist, CleanCall, Quiet,
       InIsr, TypeOK
  <2> QED
    BY <2>1, <2>2, <2>3
<1>13. ASSUME IsrReadPf PROVE ThreadInv' /\ OwnerInv' /\ NoLostDone' /\ CleanCall'
  <2>1. ThreadInv' /\ OwnerInv'
    BY <1>13, HandlerFrame, FrameInv DEF Handler
  <2>2. NoLostDone'
    BY <1>13 DEF IsrReadPf, thread, sync, hw, hist, NoLostDone, TypeOK
  <2>3. CleanCall'
    BY <1>13 DEF IsrReadPf, thread, sync, hw, hist, CleanCall, Quiet, InIsr,
       TypeOK
  <2> QED
    BY <2>1, <2>2, <2>3
<1>14. ASSUME IsrEnterVf PROVE ThreadInv' /\ OwnerInv' /\ NoLostDone' /\ CleanCall'
  <2>1. ThreadInv' /\ OwnerInv'
    BY <1>14, HandlerFrame, FrameInv DEF Handler
  <2>2. NoLostDone'
    BY <1>14 DEF IsrEnterVf, thread, sync, hw, hist, NoLostDone, TypeOK
  <2>3. CleanCall'
    BY <1>14 DEF IsrEnterVf, thread, sync, hw, hist, CleanCall, Quiet,
       InIsr, TypeOK
  <2> QED
    BY <2>1, <2>2, <2>3
<1>15. ASSUME IsrScan PROVE ThreadInv' /\ OwnerInv' /\ NoLostDone' /\ CleanCall'
  <2>1. ThreadInv' /\ OwnerInv'
    BY <1>15, HandlerFrame, FrameInv DEF Handler
  <2>2. NoLostDone'
    BY <1>15 DEF IsrScan, thread, sync, hw, hist, NoLostDone, TypeOK
  <2>3. CleanCall'
    BY <1>15 DEF IsrScan, thread, sync, hw, hist, CleanCall, Quiet, InIsr,
       TypeOK
  <2> QED
    BY <2>1, <2>2, <2>3
<1>16. ASSUME BareIsrRead PROVE ThreadInv' /\ OwnerInv' /\ NoLostDone' /\ CleanCall'
  <2>1. ThreadInv' /\ OwnerInv'
    BY <1>16, HandlerFrame, FrameInv DEF Handler
  <2>2. NoLostDone'
    BY <1>16 DEF BareIsrRead, thread, hw, hist, NoLostDone, TypeOK
  <2>3. CleanCall'
    BY <1>16 DEF BareIsrRead, thread, hw, hist, CleanCall, Quiet, InIsr,
       TypeOK
  <2> QED
    BY <2>1, <2>2, <2>3
<1>17. ASSUME BareIsrAck PROVE ThreadInv' /\ OwnerInv' /\ NoLostDone' /\ CleanCall'
  <2>1. ThreadInv' /\ OwnerInv'
    BY <1>17, HandlerFrame, FrameInv DEF Handler
  <2>2. NoLostDone'
    BY <1>17 DEF BareIsrAck, thread, sync, hist, NoLostDone, TypeOK
  <2>3. CleanCall'
    BY <1>17 DEF BareIsrAck, thread, sync, hist, CleanCall, Quiet, InIsr,
       TypeOK
  <2> QED
    BY <2>1, <2>2, <2>3
<1>18. ASSUME BareIsrComplete PROVE ThreadInv' /\ OwnerInv' /\ NoLostDone' /\ CleanCall'
  <2>1. ThreadInv' /\ OwnerInv'
    BY <1>18, HandlerFrame, FrameInv DEF Handler
  <2>2. NoLostDone'
    BY <1>18 DEF BareIsrComplete, thread, hw, hist, NoLostDone, TypeOK
  <2>3. CleanCall'
    BY <1>18 DEF BareIsrComplete, thread, hw, hist, CleanCall, Quiet, InIsr,
       TypeOK
  <2> QED
    BY <2>1, <2>2, <2>3
<1>19. ASSUME IsrExit PROVE ThreadInv' /\ OwnerInv' /\ NoLostDone' /\ CleanCall'
  <2>1. ThreadInv' /\ OwnerInv'
    BY <1>19, HandlerFrame, FrameInv DEF Handler
  <2>2. NoLostDone'
    BY <1>19 DEF IsrExit, thread, sync, hw, hist, NoLostDone, TypeOK
  <2>3. CleanCall'
    BY <1>19 DEF IsrExit, thread, sync, hw, hist, CleanCall, Quiet, InIsr,
       TypeOK
  <2> QED
    BY <2>1, <2>2, <2>3
<1>20. CASE UNCHANGED vars
  <2>1. ThreadInv' /\ OwnerInv'
    BY <1>20, FrameInv DEF vars, sync, hw
  <2>2. NoLostDone' /\ CleanCall'
    BY <1>20 DEF vars, thread, sync, hw, isr, hist, NoLostDone, CleanCall,
       Quiet, InIsr
  <2> QED
    BY <2>1, <2>2
<1> QED
  BY <1>1, <1>2, <1>3, <1>4, <1>5, <1>6, <1>7, <1>8, <1>9, <1>10, <1>11,
     <1>12, <1>13, <1>14, <1>15, <1>16, <1>17, <1>18, <1>19, <1>20
  DEF Next, Handler

LEMMA Invariance == Spec => []IInv
  BY InitIInv, NextIInv, PTL DEF Spec

\* No other caller of dma_bare_xfer rewrites a channel between the programming
\* of its descriptors and the end of the wait.
THEOREM RegistersAreOwned == Spec => []RegistersOwned
<1>1. IInv => RegistersOwned
  BY DEF IInv
<1> QED
  BY <1>1, Invariance, PTL

\* The DONE interrupt of a call that waits is in RAW, in dma_bare_isr or in
\* int_done at every moment.
THEOREM DoneIsNotLost == Spec => []NoLostDone
<1>1. IInv => NoLostDone
  BY DEF IInv
<1> QED
  BY <1>1, Invariance, PTL

\* A chain or block call that found its channel quiet returns 1 only for its
\* own DONE interrupt.
THEOREM SuccessOfCleanCall == Spec => []OwnDone
<1>1. IInv => OwnDone
  BY DEF IInv, OwnDone, CleanCall, ResultOfWait
<1> QED
  BY <1>1, Invariance, PTL

\* No step rewrites the registers of a channel that executes the descriptors
\* of a caller that goes on waiting.
THEOREM RunningIsNotReprogrammed == Spec => NoReprogram
<1>1. ASSUME IInv, [Next]_vars
      PROVE  [\A t \in Threads, c \in Chan :
                run[c] = t /\ pc[t] = "wait" /\ pc'[t] = "wait"
                  => desc'[c] = desc[c]]_vars
  <2> SUFFICES ASSUME Next, NEW t \in Threads, NEW c \in Chan,
                      run[c] = t, pc[t] = "wait", pc'[t] = "wait"
               PROVE  desc'[c] = desc[c]
    BY <1>1
  <2>1. ch[t] = c /\ TypeOK /\ MutexHeld /\ DescOwner
    BY <1>1 DEF IInv, RunOwner
  <2>2. ASSUME NEW u \in Threads, Program(u) PROVE desc'[c] = desc[c]
    <3>1. ch[u] # c
      BY <2>1, <2>2 DEF Program, Goto, MutexHeld, Held, TypeOK
    <3> QED
      BY <2>1, <2>2, <3>1 DEF Program, TypeOK
  <2>3. ASSUME NEW u \in Threads, Forget(u), pc[u] = "wait", pc'[u] = "unlock"
        PROVE  desc'[c] = desc[c]
    <3>1. desc[c] # u
      BY <2>1, <2>3 DEF DescOwner, MutexHeld, Held
    <3> QED
      BY <2>1, <2>3, <3>1 DEF Forget, TypeOK
  <2>4. ASSUME NEW u \in Threads, WaitDone(u) \/ WaitTimeout(u)
        PROVE  desc'[c] = desc[c]
    BY <2>1, <2>3, <2>4 DEF WaitDone, WaitTimeout, Goto, TypeOK
  <2>5. ASSUME NEW u \in Threads,
               \/ \E q \in Requests[u] : Call(u, q[1], q[2], q[3])
               \/ CallBadDirection(u) \/ Lock(u) \/ Enable(u)
               \/ Unlock(u) \/ Return(u) \/ Leave(u)
        PROVE  desc'[c] = desc[c]
    BY <2>5 DEF Call, CallBadDirection, Lock, Enable, Unlock, Return, Leave, hw
  <2>6. ASSUME NEW e \in Chan, NEW o \in HwOutcomes, HwStop(e, o)
        PROVE  desc'[c] = desc[c]
    BY <2>6 DEF HwStop
  <2>7. CASE Handler
    BY <2>7, HandlerFrame
  <2> QED
    BY <2>2, <2>4, <2>5, <2>6, <2>7 DEF Next
<1> QED
  BY <1>1, Invariance, PTL DEF Spec, NoReprogram
=============================================================================
