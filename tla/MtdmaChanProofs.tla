-------------------------- MODULE MtdmaChanProofs --------------------------
(***************************************************************************)
(* Proofs about MtdmaChan, for every number of threads, size of a chunk    *)
(* and length of a scatterlist.                                            *)
(***************************************************************************)
EXTENDS MtdmaChan, SumProofs

Labels == {"idle", "oops", "setup", "down", "loop", "prep", "submit", "issue", "wait",
           "term", "term_hw", "term_idle", "term_stop", "term_end"}

Calls == [sgs : Nat, it : Int, my : Nat, got : Int, freeing : BOOLEAN]

Types ==
  /\ pc \in [Threads -> Labels] /\ call \in [Threads -> Calls]
  /\ submitted \in Seq(Nat) /\ issued \in Seq(Nat) /\ completed \in Seq(Nat)
  /\ head \in Seq(Nat) /\ called \in Seq(Nat)
  /\ chunks \in Seq(Seq(Nat))

\* A thread is in emu_dma_rw.
Inside(t) == pc[t] \notin {"idle", "oops"}

\* dma_request_chan gives the channel to one client at a time.
OneClient ==
  /\ \A t \in Threads : Inside(t) => client > 0
  /\ \A t, u \in Threads : Inside(t) /\ Inside(u) => t = u

\* The descriptors that were submitted.
Accounted == Len(submitted) + Len(issued) + Len(completed) + Len(head) + Len(called)

\* Between the allocation of a descriptor and its submission it is the only one
\* that is not on a list.
Numbered ==
  /\ \A t \in Threads :
       pc[t] = "submit" => call[t].my = Accounted + 1 /\ Len(chunks) = Accounted + 1
  /\ (\A t \in Threads : pc[t] # "submit") => Len(chunks) = Accounted

ListInv == Types /\ OneClient /\ Numbered
-----------------------------------------------------------------------------
\* An allocated chunk holds at most LlMax bursts.
LEMMA ChunksType == \A n \in Nat : Chunks(n) \in Seq(Nat)
<1> SUFFICES ASSUME NEW n \in Nat PROVE Chunks(n) \in Seq(Nat)
  OBVIOUS
<1> DEFINE full == n \div LlMax
           rest == n % LlMax
<1>1. LlMax \in Nat /\ full \in Nat /\ rest \in Nat
  BY MtdmaAssumption
<1> HIDE DEF full, rest
<1>2. [i \in 1 .. full |-> LlMax] \in Seq(Nat)
  BY <1>1, SeqDef
<1>3. (IF rest > 0 THEN <<rest>> ELSE <<>>) \in Seq(Nat)
  BY <1>1
<1>4. [i \in 1 .. full |-> LlMax] \o (IF rest > 0 THEN <<rest>> ELSE <<>>) \in Seq(Nat)
  BY <1>2, <1>3, ConcatProperties
<1> QED
  BY <1>4 DEF Chunks, full, rest

\* Starting a chunk takes it off its descriptor.
LEMMA StartTypes ==
  ASSUME Types, NEW iss \in Seq(Nat), mtdma_start_transfer(iss)
  PROVE  chunks' \in Seq(Seq(Nat)) /\ Len(chunks') = Len(chunks)
<1>1. CASE iss = <<>> \/ chunks[Head(iss)] = <<>>
  BY <1>1 DEF mtdma_start_transfer, Types
<1>2. CASE ~(iss = <<>> \/ chunks[Head(iss)] = <<>>)
  <2> DEFINE d == Head(iss)
  <2>1. chunks' = [chunks EXCEPT ![d] = Tail(chunks[d])] /\ d \in Nat
    BY <1>2, HeadTailProperties DEF mtdma_start_transfer
  <2>2. CASE d \in 1 .. Len(chunks)
    <3>1. chunks[d] \in Seq(Nat) /\ chunks[d] # <<>>
      BY <1>2, <2>2, ElementOfSeq DEF Types
    <3>2. Tail(chunks[d]) \in Seq(Nat)
      BY <3>1, HeadTailProperties
    <3> QED
      BY <2>1, <2>2, <3>2, ExceptSeq DEF Types
  <2>3. CASE d \notin 1 .. Len(chunks)
    <3>1. chunks' = chunks
      BY <2>1, <2>3, LenProperties DEF Types
    <3> QED
      BY <3>1 DEF Types
  <2> QED
    BY <2>2, <2>3
<1> QED
  BY <1>1, <1>2

LEMMA InitList == Init => ListInv
<1> SUFFICES ASSUME Init PROVE ListInv
  OBVIOUS
<1>1. Types
  BY DEF Init, vchan_init, Types, Labels, Calls, NoCall
<1>2. OneClient /\ Numbered
  BY DEF Init, vchan_init, OneClient, Inside, Numbered, Accounted
<1> QED
  BY <1>1, <1>2 DEF ListInv
-----------------------------------------------------------------------------
(* What a step of a thread does to the threads. *)

Moves(t) ==
  /\ pc' \in [Threads -> Labels] /\ call' \in [Threads -> Calls]
  /\ \A u \in Threads \ {t} : pc'[u] = pc[u] /\ call'[u] = call[u]

LEMMA CallMy == \A c \in Calls : \A m \in Nat : [c EXCEPT !.my = m] \in Calls
<1> SUFFICES ASSUME NEW c \in Calls, NEW m \in Nat PROVE [c EXCEPT !.my = m] \in Calls
  OBVIOUS
<1> QED
  BY DEF Calls

LEMMA CallGot == \A c \in Calls : \A g \in Int : [c EXCEPT !.got = g] \in Calls
<1> SUFFICES ASSUME NEW c \in Calls, NEW g \in Int PROVE [c EXCEPT !.got = g] \in Calls
  OBVIOUS
<1> QED
  BY DEF Calls

LEMMA CallIt == \A c \in Calls : \A k \in Int : [c EXCEPT !.it = k] \in Calls
<1> SUFFICES ASSUME NEW c \in Calls, NEW k \in Int PROVE [c EXCEPT !.it = k] \in Calls
  OBVIOUS
<1> QED
  BY DEF Calls

LEMMA EnterMoves ==
  ASSUME ListInv, NEW t \in Threads, MtdmaRw(t)
  PROVE  Moves(t) /\ OneClient' /\ pc[t] = "idle" /\ pc'[t] # "submit"
<1>1. PICK n \in Sgs, k \in TestCnts : Request(t, n, k)
  BY DEF MtdmaRw
<1>2. n \in Nat /\ k \in Nat
  BY MtdmaAssumption
<1>3. pc[t] = "idle"
  BY DEF MtdmaRw
<1>4. CASE client > 0 \/ ~mtdma_alloc_chan_resources
  BY <1>1, <1>3, <1>4 DEF ListInv, Types, OneClient, Inside, Moves, Request, Goto, Labels
<1>5. CASE ~(client > 0 \/ ~mtdma_alloc_chan_resources)
  <2>1. \A u \in Threads : ~Inside(u)
    BY <1>5 DEF ListInv, OneClient
  <2>2. pc' = [pc EXCEPT ![t] = "setup"] /\ client' = 1
        /\ call' = [call EXCEPT ![t] = [sgs |-> n, it |-> k, my |-> 0, got |-> 1,
                                        freeing |-> FALSE]]
    BY <1>1, <1>5 DEF Request, Goto
  <2>3. [sgs |-> n, it |-> k, my |-> 0, got |-> 1, freeing |-> FALSE] \in Calls
    BY <1>2 DEF Calls
  <2>4. Moves(t)
    BY <2>2, <2>3 DEF ListInv, Types, Moves, Labels
  <2>5. OneClient'
    BY <2>1, <2>2 DEF ListInv, Types, OneClient, Inside, Labels
  <2> QED
    BY <1>3, <2>2, <2>4, <2>5 DEF ListInv, Types
<1> QED
  BY <1>4, <1>5

\* A thread that is inside goes on, or leaves and gives the channel back.
LEMMA StepMoves ==
  ASSUME ListInv, NEW t \in Threads, ThreadStep(t) \/ DownInterrupted(t)
  PROVE  Moves(t) /\ OneClient' /\ Inside(t)
<1> USE DEF ListInv, Types, Moves, Goto, Labels
<1> DEFINE Good == Moves(t) /\ Inside(t) /\ (client' = client \/ ~Inside(t)')
<1> USE DEF Inside
<1> DEFINE c == call[t]
<1>0. /\ c \in Calls /\ Len(chunks) + 1 \in Nat /\ NoCall \in Calls
  <2>1. NoCall \in Calls
    BY DEF NoCall, Calls
  <2> QED
    BY <2>1
<1>a. \A new \in Calls :
        call' = [call EXCEPT ![t] = new]
          => call' \in [Threads -> Calls] /\ \A u \in Threads \ {t} : call'[u] = call[u]
  OBVIOUS
<1>1. ASSUME Setup(t) PROVE Good
  <2> DEFINE new == [c EXCEPT !.freeing = TRUE]
  <2>1. new \in Calls
    BY <1>0 DEF Calls
  <2>2. /\ pc[t] = "setup" /\ UNCHANGED client
        /\ \/ pc' = [pc EXCEPT ![t] = "down"] /\ UNCHANGED call
           \/ pc' = [pc EXCEPT ![t] = "term"] /\ call' = [call EXCEPT ![t] = new]
    BY <1>1 DEF Setup
  <2> HIDE DEF new
  <2> QED
    BY <2>1, <2>2, <1>a
<1>2. ASSUME Down(t) PROVE Good
  BY <1>2 DEF Down
<1>3. ASSUME Begin(t) PROVE Good
  <2> DEFINE new == [c EXCEPT !.my = 0]
  <2>1. new \in Calls
    BY <1>0 DEF Calls
  <2>2. /\ call' = [call EXCEPT ![t] = new] /\ pc[t] = "loop"
        /\ pc' = [pc EXCEPT ![t] = "prep"] /\ UNCHANGED client
    BY <1>3 DEF Begin, client_
  <2> HIDE DEF new
  <2> QED
    BY <2>1, <2>2, <1>a
<1>4. ASSUME LoopEnd(t) PROVE Good
  <2> DEFINE new == [c EXCEPT !.freeing = TRUE]
  <2>1. new \in Calls
    BY <1>0 DEF Calls
  <2>2. /\ call' = [call EXCEPT ![t] = new] /\ pc[t] = "loop"
        /\ pc' = [pc EXCEPT ![t] = "term"] /\ UNCHANGED client
    BY <1>4 DEF LoopEnd, client_
  <2> HIDE DEF new
  <2> QED
    BY <2>1, <2>2, <1>a
<1>5. ASSUME Prep(t) PROVE Good
  <2> DEFINE new1 == [c EXCEPT !.my = Len(chunks) + 1]
             new2 == [c EXCEPT !.got = 0]
  <2>1. new1 \in Calls
    BY <1>0 DEF Calls
  <2>2. new2 \in Calls
    <3>1. 0 \in Int
      OBVIOUS
    <3> QED
      BY <1>0, <3>1, CallGot, Zenon
  <2>3. /\ pc[t] = "prep" /\ UNCHANGED client
        /\ \/ pc' = [pc EXCEPT ![t] = "submit"] /\ call' = [call EXCEPT ![t] = new1]
           \/ pc' = [pc EXCEPT ![t] = "term"] /\ call' = [call EXCEPT ![t] = new2]
    BY <1>5 DEF Prep, AllocFails
  <2> HIDE DEF new1, new2
  <2> QED
    BY <2>1, <2>2, <2>3, <1>a
<1>6. ASSUME vchan_tx_submit(t) PROVE Good
  BY <1>6 DEF vchan_tx_submit
<1>7. ASSUME mtdma_device_issue_pending(t) PROVE Good
  BY <1>7 DEF mtdma_device_issue_pending
<1>8. ASSUME WaitDone(t) PROVE Good
  <2> DEFINE new == [c EXCEPT !.got = 0]
  <2>1. new \in Calls
    <3>1. 0 \in Int
      OBVIOUS
    <3> QED
      BY <1>0, <3>1, CallGot, Zenon
  <2>2. /\ call' = [call EXCEPT ![t] = new] /\ pc[t] = "wait"
        /\ pc' = [pc EXCEPT ![t] = "term"] /\ UNCHANGED client
    BY <1>8 DEF WaitDone, client_
  <2> HIDE DEF new
  <2> QED
    BY <2>1, <2>2, <1>a
<1>9. ASSUME WaitTimeout(t) PROVE Good
  <2> DEFINE new == [c EXCEPT !.got = -1]
  <2>1. new \in Calls
    <3>1. -1 \in Int
      OBVIOUS
    <3> QED
      BY <1>0, <3>1, CallGot, Zenon
  <2>2. /\ call' = [call EXCEPT ![t] = new] /\ pc[t] = "wait"
        /\ pc' = [pc EXCEPT ![t] = "term"] /\ UNCHANGED client
    BY <1>9 DEF WaitTimeout, client_
  <2> HIDE DEF new
  <2> QED
    BY <2>1, <2>2, <1>a
<1>10. ASSUME TermRead(t) PROVE Good
  BY <1>10 DEF TermRead
<1>11. ASSUME TermHw(t) PROVE Good
  BY <1>11 DEF TermHw
<1>12. ASSUME TermIdle(t) PROVE Good
  BY <1>12 DEF TermIdle
<1>13. ASSUME TermStop(t) PROVE Good
  BY <1>13 DEF TermStop
<1>14. ASSUME TermEnd(t) PROVE Good
  <2> DEFINE new == [c EXCEPT !.it = c.it - 1]
  <2>1. new \in Calls
    <3>1. c.it - 1 \in Int
      BY <1>0, SMTT(20) DEF Calls
    <3> QED
      BY <1>0, <3>1, CallIt, Zenon
  <2>2. /\ pc[t] = "term_end"
        /\ \/ pc' = [pc EXCEPT ![t] = "idle"] /\ call' = [call EXCEPT ![t] = NoCall]
           \/ /\ pc' = [pc EXCEPT ![t] = "loop"] /\ call' = [call EXCEPT ![t] = new]
              /\ UNCHANGED client
    BY <1>14 DEF TermEnd
  <2> HIDE DEF new
  <2> QED
    BY <2>1, <2>2, <1>0, <1>a
<1>15. ASSUME DownInterrupted(t) PROVE Good
  <2> DEFINE new == [c EXCEPT !.freeing = TRUE]
  <2>1. new \in Calls
    BY <1>0 DEF Calls
  <2>2. /\ call' = [call EXCEPT ![t] = new] /\ pc[t] = "down"
        /\ pc' = [pc EXCEPT ![t] = "term"] /\ UNCHANGED client
    BY <1>15 DEF DownInterrupted
  <2> HIDE DEF new
  <2> QED
    BY <2>1, <2>2, <1>a
<1>16. Good
  BY <1>1, <1>2, <1>3, <1>4, <1>5, <1>6, <1>7, <1>8, <1>9, <1>10, <1>11, <1>12, <1>13,
     <1>14, <1>15 DEF ThreadStep
<1>17. OneClient'
  BY <1>16 DEF OneClient
<1> QED
  BY <1>16, <1>17

\* The lists stay as they are, or change the way the abstract channel does.
Stutter == UNCHANGED <<submitted, issued, completed, head, called>>

AbstractStep == [Client!Next]_(Client!vars)

\* A step that touches no list keeps what is known of them.
LEMMA StutterStep ==
  ASSUME ListInv, Stutter, chunks' \in Seq(Seq(Nat)), Len(chunks') = Len(chunks),
         pc' \in [Threads -> Labels], call' \in [Threads -> Calls], OneClient',
         \A u \in Threads : /\ pc'[u] = "submit" <=> pc[u] = "submit"
                            /\ pc[u] = "submit" => call'[u].my = call[u].my
  PROVE  ListInv' /\ AbstractStep
<1>1. Types'
  BY DEF ListInv, Types, Stutter
<1>2. Accounted' = Accounted
  BY DEF Stutter, Accounted
<1>3. Numbered'
  BY <1>2 DEF ListInv, Numbered
<1>4. AbstractStep
  BY DEF Stutter, AbstractStep, Client!vars
<1> QED
  BY <1>1, <1>3, <1>4 DEF ListInv

\* The steps of a thread that touch neither the lists nor the descriptors.
LEMMA QuietStep ==
  ASSUME ListInv, NEW t \in Threads, Moves(t), OneClient', Stutter, UNCHANGED chunks,
         pc[t] # "submit", pc'[t] # "submit"
  PROVE  ListInv' /\ AbstractStep
<1>1. chunks' \in Seq(Seq(Nat)) /\ Len(chunks') = Len(chunks)
  BY DEF ListInv, Types
<1>2. \A u \in Threads : /\ pc'[u] = "submit" <=> pc[u] = "submit"
                         /\ pc[u] = "submit" => call'[u].my = call[u].my
  BY DEF Moves
<1> QED
  BY <1>1, <1>2, StutterStep DEF Moves

LEMMA PrepStep ==
  ASSUME ListInv, NEW t \in Threads, Prep(t), Moves(t), OneClient'
  PROVE  ListInv' /\ AbstractStep
<1>1. Stutter /\ pc[t] = "prep"
  BY DEF Prep, Stutter, tasklet
<1>2. CASE AllocFails(t)
  <2>1. UNCHANGED chunks /\ pc'[t] # "submit"
    BY <1>2, <1>1 DEF AllocFails, Goto, ListInv, Types
  <2> QED
    BY <1>1, <2>1, QuietStep
<1>3. CASE /\ chunks' = Append(chunks, Chunks(call[t].sgs)) /\ Goto(t, "submit")
           /\ call' = [call EXCEPT ![t].my = Len(chunks) + 1]
  <2>1. chunks' \in Seq(Seq(Nat)) /\ Len(chunks') = Len(chunks) + 1
    <3>1. call[t].sgs \in Nat
      BY DEF ListInv, Types, Calls
    <3>2. Chunks(call[t].sgs) \in Seq(Nat)
      BY <3>1, ChunksType
    <3> QED
      BY <1>3, <3>2, AppendProperties DEF ListInv, Types
  <2>2. Types'
    BY <1>1, <2>1 DEF ListInv, Types, Moves, Stutter
  <2>3. Accounted' = Accounted
    BY <1>1 DEF Stutter, Accounted
  <2>4. \A u \in Threads : u # t => pc'[u] # "submit" /\ pc[u] # "submit"
    BY <1>1 DEF ListInv, OneClient, Inside, Moves
  <2>5. pc'[t] = "submit" /\ call'[t].my = Len(chunks) + 1
    <3>1. DOMAIN call = Threads /\ call[t] \in Calls /\ pc \in [Threads -> Labels]
      BY DEF ListInv, Types
    <3>2. call'[t] = [call[t] EXCEPT !.my = Len(chunks) + 1]
      BY <1>3, <3>1, Zenon
    <3>3. \A c \in Calls : \A m \in Nat : [c EXCEPT !.my = m].my = m
      <4> SUFFICES ASSUME NEW c \in Calls, NEW m \in Nat PROVE [c EXCEPT !.my = m].my = m
        OBVIOUS
      <4> QED
        BY DEF Calls
    <3>4. Len(chunks) + 1 \in Nat
      BY DEF ListInv, Types
    <3>5. call'[t].my = Len(chunks) + 1
      BY <3>1, <3>2, <3>3, <3>4, Zenon
    <3>6. pc' = [pc EXCEPT ![t] = "submit"]
      BY <1>3 DEF Goto
    <3> QED
      BY <3>1, <3>5, <3>6
  <2>6. Len(chunks) = Accounted
    BY <1>1, <2>4 DEF ListInv, Numbered
  <2>7. Numbered'
    BY <2>1, <2>3, <2>4, <2>5, <2>6 DEF Numbered
  <2>8. AbstractStep
    BY <1>1 DEF Stutter, AbstractStep, Client!vars
  <2> QED
    BY <2>2, <2>7, <2>8 DEF ListInv
<1> QED
  BY <1>2, <1>3 DEF Prep

LEMMA SubmitStep ==
  ASSUME ListInv, NEW t \in Threads, vchan_tx_submit(t), Moves(t), OneClient'
  PROVE  ListInv' /\ AbstractStep
<1>1. /\ pc[t] = "submit" /\ pc'[t] = "issue"
      /\ submitted' = Append(submitted, call[t].my)
      /\ UNCHANGED <<issued, completed, head, called, chunks>>
  BY DEF vchan_tx_submit, Goto, tasklet, ListInv, Types
<1>2. call[t].my = Accounted + 1 /\ Len(chunks) = Accounted + 1 /\ call[t].my \in Nat
  BY <1>1 DEF ListInv, Numbered, Types, Calls
<1>3. submitted' \in Seq(Nat) /\ Len(submitted') = Len(submitted) + 1
  BY <1>1, <1>2, AppendProperties DEF ListInv, Types
<1>4. Types'
  BY <1>1, <1>3 DEF ListInv, Types, Moves
<1>5. Accounted' = Accounted + 1
  BY <1>1, <1>3 DEF Accounted, ListInv, Types
<1>6. \A u \in Threads : pc'[u] # "submit"
  BY <1>1 DEF ListInv, OneClient, Inside, Moves
<1>7. Numbered'
  BY <1>1, <1>2, <1>5, <1>6 DEF Numbered
<1>8. Len(head \o completed) = Len(head) + Len(completed)
  BY ConcatProperties DEF ListInv, Types
<1>9. Client!Submit
  BY <1>1, <1>2, <1>8 DEF Client!Submit, Accounted, ListInv, Types
<1> QED
  BY <1>4, <1>7, <1>9 DEF ListInv, AbstractStep, Client!Next

LEMMA IssueStep ==
  ASSUME ListInv, NEW t \in Threads, mtdma_device_issue_pending(t), Moves(t), OneClient'
  PROVE  ListInv' /\ AbstractStep
<1>1. pc[t] = "issue" /\ pc'[t] = "wait" /\ UNCHANGED <<completed, head, called>>
  BY DEF mtdma_device_issue_pending, Goto, tasklet, ListInv, Types
<1>2. CASE configured /\ request = "NONE" /\ status = "IDLE"
  <2>1. issued' = issued \o submitted /\ submitted' = <<>>
    BY <1>2 DEF mtdma_device_issue_pending, vchan_issue_pending
  <2>2. issued' \in Seq(Nat) /\ Len(issued') = Len(issued) + Len(submitted)
    BY <2>1, ConcatProperties DEF ListInv, Types
  <2>3. chunks' \in Seq(Seq(Nat)) /\ Len(chunks') = Len(chunks)
    <3>1. CASE issued' = <<>>
      BY <1>2, <3>1 DEF mtdma_device_issue_pending, ListInv, Types
    <3>2. CASE issued' # <<>>
      <4>1. mtdma_start_transfer(issued')
        BY <1>2, <3>2 DEF mtdma_device_issue_pending
      <4> DEFINE iss == issued'
      <4>2. iss \in Seq(Nat) /\ mtdma_start_transfer(iss)
        BY <2>2, <4>1
      <4> HIDE DEF iss
      <4> QED
        BY <4>2, StartTypes DEF ListInv
    <3> QED
      BY <3>1, <3>2
  <2>4. submitted' \in Seq(Nat) /\ Len(submitted') = 0
    BY <2>1
  <2>5. Accounted' = Accounted
    BY <1>1, <2>2, <2>4 DEF Accounted, ListInv, Types
  <2>6. Types'
    BY <1>1, <2>2, <2>3, <2>4 DEF ListInv, Types, Moves
  <2>7. \A u \in Threads : pc'[u] # "submit" /\ pc[u] # "submit"
    BY <1>1 DEF ListInv, OneClient, Inside, Moves
  <2>8. Numbered'
    BY <2>3, <2>5, <2>7 DEF Numbered, ListInv
  <2>9. Client!Issue
    BY <1>1, <2>1 DEF Client!Issue
  <2> QED
    BY <2>6, <2>8, <2>9 DEF ListInv, AbstractStep, Client!Next
<1>3. CASE ~(configured /\ request = "NONE" /\ status = "IDLE")
  <2>1. Stutter /\ UNCHANGED chunks
    BY <1>1, <1>3 DEF mtdma_device_issue_pending, Stutter
  <2> QED
    BY <1>1, <2>1, QuietStep
<1> QED
  BY <1>2, <1>3

\* Every step of emu_dma_rw, with what it calls.
LEMMA ThreadLists ==
  ASSUME ListInv, NEW t \in Threads, MtdmaRw(t) \/ ThreadStep(t) \/ DownInterrupted(t)
  PROVE  ListInv' /\ AbstractStep
<1> DEFINE Quiet == /\ Stutter /\ UNCHANGED chunks
                    /\ pc[t] # "submit" /\ pc'[t] # "submit"
<1>1. Moves(t) /\ OneClient'
  BY EnterMoves, StepMoves
<1>2. ASSUME Quiet PROVE ListInv' /\ AbstractStep
  BY <1>1, <1>2, QuietStep
<1>3. CASE MtdmaRw(t)
  <2>1. pc[t] = "idle" /\ pc'[t] # "submit"
    BY <1>3, EnterMoves
  <2>2. Stutter /\ UNCHANGED chunks
    BY <1>3 DEF MtdmaRw, lists, tasklet, Stutter
  <2> QED
    BY <1>2, <2>1, <2>2
<1>4. CASE Prep(t)
  BY <1>1, <1>4, PrepStep
<1>5. CASE vchan_tx_submit(t)
  BY <1>1, <1>5, SubmitStep
<1>6. CASE mtdma_device_issue_pending(t)
  BY <1>1, <1>6, IssueStep
<1> USE DEF Stutter, lists, tasklet, Goto, ListInv, Types
<1>7. CASE Setup(t)
  <2>1. Quiet
    BY <1>7 DEF Setup
  <2> QED
    BY <1>2, <2>1
<1>8. CASE Down(t)
  <2>1. Quiet
    BY <1>8 DEF Down
  <2> QED
    BY <1>2, <2>1
<1>9. CASE Begin(t)
  <2>1. Quiet
    BY <1>9 DEF Begin
  <2> QED
    BY <1>2, <2>1
<1>10. CASE LoopEnd(t) \/ DownInterrupted(t)
  <2>1. Quiet
    BY <1>10 DEF LoopEnd, DownInterrupted
  <2> QED
    BY <1>2, <2>1
<1>11. CASE WaitDone(t) \/ WaitTimeout(t)
  <2>1. Quiet
    BY <1>11 DEF WaitDone, WaitTimeout
  <2> QED
    BY <1>2, <2>1
<1>12. CASE TermRead(t) \/ TermHw(t) \/ TermIdle(t) \/ TermStop(t)
  <2>1. Quiet
    BY <1>12 DEF TermRead, TermHw, TermIdle, TermStop
  <2> QED
    BY <1>2, <2>1
<1>13. CASE TermEnd(t)
  <2>1. Quiet
    BY <1>13 DEF TermEnd
  <2> QED
    BY <1>2, <2>1
<1> QED
  BY <1>3, <1>4, <1>5, <1>6, <1>7, <1>8, <1>9, <1>10, <1>11, <1>12, <1>13 DEF ThreadStep
-----------------------------------------------------------------------------
(* The engine, the interrupt handler, the tasklet and the other clients. *)

\* They leave the threads alone.
LEMMA OtherStep ==
  ASSUME ListInv, UNCHANGED <<pc, call, client>>, Types', Accounted' = Accounted,
         Len(chunks') = Len(chunks), AbstractStep
  PROVE  ListInv' /\ AbstractStep
<1>1. OneClient'
  BY DEF ListInv, OneClient, Inside
<1>2. Numbered'
  BY DEF ListInv, Numbered
<1> QED
  BY <1>1, <1>2 DEF ListInv

\* A descriptor that an interrupt finishes goes from the issued list to the end
\* of the completed one: the abstract channel finishes it.
LEMMA CompleteStep ==
  ASSUME ListInv, Complete, issued # <<>>,
         UNCHANGED <<pc, call, client, submitted, head, called, chunks>>
  PROVE  ListInv' /\ AbstractStep
<1>1. /\ issued' = Tail(issued) /\ completed' = Append(completed, Head(issued))
  BY DEF Complete
<1>2. /\ Head(issued) \in Nat /\ issued' \in Seq(Nat) /\ Len(issued') = Len(issued) - 1
  BY <1>1, HeadTailProperties DEF ListInv, Types
<1>3. completed' \in Seq(Nat) /\ Len(completed') = Len(completed) + 1
  BY <1>1, <1>2, AppendProperties DEF ListInv, Types
<1>4. Types' /\ Len(chunks') = Len(chunks)
  BY <1>2, <1>3 DEF ListInv, Types
<1>5. Accounted' = Accounted
  BY <1>2, <1>3 DEF Accounted, ListInv, Types
<1>6. head \o Append(completed, Head(issued)) = Append(head \o completed, Head(issued))
  <2> DEFINE d == Head(issued)
  <2>1. d \in Nat /\ head \in Seq(Nat) /\ completed \in Seq(Nat) /\ <<d>> \in Seq(Nat)
    BY <1>2 DEF ListInv, Types
  <2> HIDE DEF d
  <2>2. Append(completed, d) = completed \o <<d>>
    BY <2>1, AppendIsConcat
  <2>3. (head \o completed) \in Seq(Nat)
    BY <2>1, ConcatProperties
  <2>4. Append(head \o completed, d) = (head \o completed) \o <<d>>
    BY <2>1, <2>3, AppendIsConcat
  <2>5. (head \o completed) \o <<d>> = head \o (completed \o <<d>>)
    BY <2>1, ConcatAssociative
  <2>6. head \o Append(completed, d) = Append(head \o completed, d)
    BY <2>2, <2>4, <2>5
  <2> QED
    BY <2>6 DEF d
<1>7. Client!Finish
  BY <1>1, <1>6 DEF Client!Finish
<1> QED
  BY <1>4, <1>5, <1>7, OtherStep DEF AbstractStep, Client!Next

\* A step that leaves the lists alone and may start a chunk.
LEMMA EngineStep ==
  ASSUME ListInv, UNCHANGED <<pc, call, client>>, Stutter,
         UNCHANGED chunks \/ mtdma_start_transfer(issued)
  PROVE  ListInv' /\ AbstractStep
<1>1. chunks' \in Seq(Seq(Nat)) /\ Len(chunks') = Len(chunks)
  BY StartTypes DEF ListInv, Types
<1>2. Types' /\ Accounted' = Accounted
  BY <1>1 DEF ListInv, Types, Stutter, Accounted
<1>3. AbstractStep
  BY DEF Stutter, AbstractStep, Client!vars
<1> QED
  BY <1>1, <1>2, <1>3, OtherStep

LEMMA DoneStep == ListInv /\ mtdma_done_interrupt => ListInv' /\ AbstractStep
<1> SUFFICES ASSUME ListInv, mtdma_done_interrupt PROVE ListInv' /\ AbstractStep
  OBVIOUS
<1>1. UNCHANGED <<pc, call, client, head, called>>
  BY DEF mtdma_done_interrupt, client_
<1>2. CASE UNCHANGED lists
  BY <1>1, <1>2, EngineStep DEF lists, Stutter
<1>3. CASE UNCHANGED <<submitted, issued, completed>> /\ mtdma_start_transfer(issued)
  BY <1>1, <1>3, EngineStep DEF Stutter
<1>4. CASE issued # <<>> /\ Complete /\ UNCHANGED <<submitted, chunks>>
  BY <1>1, <1>4, CompleteStep
<1> QED
  BY <1>2, <1>3, <1>4 DEF mtdma_done_interrupt

LEMMA AbortStep == ListInv /\ mtdma_abort_interrupt => ListInv' /\ AbstractStep
<1> SUFFICES ASSUME ListInv, mtdma_abort_interrupt PROVE ListInv' /\ AbstractStep
  OBVIOUS
<1>1. UNCHANGED <<pc, call, client, head, called, submitted, chunks>>
  BY DEF mtdma_abort_interrupt, client_
<1>2. CASE issued # <<>>
  BY <1>1, <1>2, CompleteStep DEF mtdma_abort_interrupt
<1>3. CASE issued = <<>>
  <2>1. Stutter
    BY <1>1, <1>3 DEF mtdma_abort_interrupt, Stutter
  <2> QED
    BY <1>1, <2>1, EngineStep
<1> QED
  BY <1>2, <1>3

\* What the tasklet splices off the completed list stays finished.
LEMMA SpliceStep == ListInv /\ Splice => ListInv' /\ AbstractStep
<1> SUFFICES ASSUME ListInv, Splice PROVE ListInv' /\ AbstractStep
  OBVIOUS
<1>1. /\ head = <<>> /\ head' = completed /\ completed' = <<>>
      /\ UNCHANGED <<pc, call, client, submitted, issued, called, chunks>>
  BY DEF Splice, client_
<1>2. Types' /\ Len(chunks') = Len(chunks)
  BY <1>1 DEF ListInv, Types
<1>3. Accounted' = Accounted
  BY <1>1 DEF Accounted, ListInv, Types
<1>4. (head \o completed)' = head \o completed
  BY <1>1, ConcatEmptySeq DEF ListInv, Types
<1>5. AbstractStep
  BY <1>1, <1>4 DEF AbstractStep, Client!vars
<1> QED
  BY <1>1, <1>2, <1>3, <1>5, OtherStep

LEMMA ConcatTail ==
  ASSUME NEW S, NEW u \in Seq(S), NEW v \in Seq(S), u # <<>>
  PROVE  /\ u \o v # <<>> /\ Head(u \o v) = Head(u) /\ Tail(u \o v) = Tail(u) \o v
<1>1. /\ u \o v \in Seq(S) /\ Len(u \o v) = Len(u) + Len(v) /\ Len(u) > 0
      /\ \A i \in 1 .. Len(u) + Len(v) :
           (u \o v)[i] = IF i <= Len(u) THEN u[i] ELSE v[i - Len(u)]
  BY ConcatProperties, EmptySeq, LenProperties
<1>2. u \o v # <<>>
  BY <1>1, EmptySeq
<1>3. Head(u \o v) = Head(u)
  BY <1>1, <1>2
<1>4. /\ Tail(u) \in Seq(S) /\ Len(Tail(u)) = Len(u) - 1
      /\ \A i \in 1 .. Len(Tail(u)) : Tail(u)[i] = u[i + 1]
  BY HeadTailProperties
<1>5. /\ Tail(u \o v) \in Seq(S) /\ Len(Tail(u \o v)) = Len(u) + Len(v) - 1
      /\ \A i \in 1 .. Len(Tail(u \o v)) : Tail(u \o v)[i] = (u \o v)[i + 1]
  BY <1>1, <1>2, HeadTailProperties
<1>6. /\ Tail(u) \o v \in Seq(S) /\ Len(Tail(u) \o v) = Len(u) - 1 + Len(v)
      /\ \A i \in 1 .. Len(u) - 1 + Len(v) :
           (Tail(u) \o v)[i] = IF i <= Len(u) - 1 THEN Tail(u)[i] ELSE v[i - (Len(u) - 1)]
  BY <1>4, ConcatProperties
<1> DEFINE a == Tail(u \o v)
           b == Tail(u) \o v
<1>7. Len(a) = Len(b) /\ a \in Seq(S) /\ b \in Seq(S)
  BY <1>5, <1>6, LenProperties
<1>8. \A i \in 1 .. Len(a) : a[i] = b[i]
  BY <1>1, <1>4, <1>5, <1>6, LenProperties
<1> HIDE DEF a, b
<1>9. a = b
  BY <1>7, <1>8, SeqEqual
<1> QED
  BY <1>2, <1>3, <1>9 DEF a, b

LEMMA CallbackStep == ListInv /\ Callback => ListInv' /\ AbstractStep
<1> SUFFICES ASSUME ListInv, Callback PROVE ListInv' /\ AbstractStep
  OBVIOUS
<1>1. /\ head # <<>> /\ head' = Tail(head) /\ called' = Append(called, Head(head))
      /\ UNCHANGED <<pc, call, client, submitted, issued, completed, chunks>>
  BY DEF Callback, client_
<1>2. Head(head) \in Nat /\ Tail(head) \in Seq(Nat) /\ Len(Tail(head)) = Len(head) - 1
  BY <1>1, HeadTailProperties DEF ListInv, Types
<1>3. called' \in Seq(Nat) /\ Len(called') = Len(called) + 1
  BY <1>1, <1>2, AppendProperties DEF ListInv, Types
<1>4. Types' /\ Len(chunks') = Len(chunks)
  BY <1>1, <1>2, <1>3 DEF ListInv, Types
<1>5. Accounted' = Accounted
  BY <1>1, <1>2, <1>3 DEF Accounted, ListInv, Types
<1>6. /\ head \o completed # <<>> /\ Head(head \o completed) = Head(head)
      /\ Tail(head \o completed) = Tail(head) \o completed
  BY <1>1, ConcatTail DEF ListInv, Types
<1>7. Client!Call
  BY <1>1, <1>6 DEF Client!Call
<1> QED
  BY <1>1, <1>4, <1>5, <1>7, OtherStep DEF AbstractStep, Client!Next

\* Of what is this channel's, the other clients touch nothing.
Apart ==
  /\ UNCHANGED <<pc, call, client, chan, submitted, issued, completed, chunks, cookies, heap>>
  /\ UNCHANGED <<engine, handler, pending, head, called>>

LEMMA OthersApart == Others => Apart
  BY DEF Others, OthersDown, OthersUp, OthersCallback, Apart, lists, tasklet

LEMMA StepRefines == ListInv /\ [Next]_vars => ListInv' /\ AbstractStep
<1> SUFFICES ASSUME ListInv, [Next]_vars PROVE ListInv' /\ AbstractStep
  OBVIOUS
<1>1. CASE \E t \in Threads : MtdmaRw(t) \/ ThreadStep(t) \/ DownInterrupted(t)
  BY <1>1, ThreadLists
<1>2. CASE HwStop \/ IsrRead \/ AbortReset
  <2>1. UNCHANGED <<pc, call, client>> /\ Stutter /\ UNCHANGED chunks
    BY <1>2 DEF HwStop, IsrRead, AbortReset, client_, Stutter, lists, tasklet
  <2> QED
    BY <2>1, EngineStep
<1>3. CASE mtdma_done_interrupt
  BY <1>3, DoneStep
<1>4. CASE mtdma_abort_interrupt
  BY <1>4, AbortStep
<1>5. CASE Splice
  BY <1>5, SpliceStep
<1>6. CASE Callback
  BY <1>6, CallbackStep
<1>7. CASE UNCHANGED vars
  <2>1. UNCHANGED <<pc, call, client>> /\ Stutter /\ UNCHANGED chunks
    BY <1>7 DEF vars, client_, Stutter, lists, tasklet
  <2> QED
    BY <2>1, EngineStep
<1>8. CASE Others
  <2>1. UNCHANGED <<pc, call, client>> /\ Stutter /\ UNCHANGED chunks
    BY <1>8, OthersApart DEF Apart, Stutter
  <2> QED
    BY <2>1, EngineStep
<1> QED
  BY <1>1, <1>2, <1>3, <1>4, <1>5, <1>6, <1>7, <1>8 DEF Next, Isr

\* The abstract channel starts empty.
LEMMA InitRefines == Init => Client!Init
<1> SUFFICES ASSUME Init PROVE Client!Init
  OBVIOUS
<1>1. head = <<>> /\ completed = <<>> /\ submitted = <<>> /\ issued = <<>> /\ called = <<>>
  BY DEF Init, vchan_init
<1>2. head \o completed = <<>>
  BY <1>1, ConcatEmptySeq
<1> QED
  BY <1>1, <1>2 DEF Client!Init

\* The channel of mt-emu-mtdma-core.c and virt-dma.c is a dmaengine channel: the
\* descriptors of MT_IOCTL_MTDMA_RW are issued, finished and called back in the
\* order of their cookies and each once, however many threads call, whatever the
\* engine, the interrupts and mtdma_device_terminate_all do meanwhile.
THEOREM EngineIsRefined == Spec => EngineRefined
<1>1. Init => ListInv /\ Client!Init
  BY InitList, InitRefines
<1>2. ListInv /\ [Next]_vars => ListInv' /\ [Client!Next]_(Client!vars)
  BY StepRefines DEF AbstractStep
<1> QED
  BY <1>1, <1>2, PTL DEF Spec, EngineRefined, Client!Spec
-----------------------------------------------------------------------------
(***************************************************************************)
(* The rounds of emu_dma_rw as long as no wait times out and the engine    *)
(* raises one bit of INTR_RAW at a time.  With both bits at once the two   *)
(* handlers of mtdma_isr run one after the other: the first starts the     *)
(* next chunk, the second takes the descriptor off the list under it.      *)
(***************************************************************************)
OneAtATime == \A b \in Outcomes : b = {"DONE"} \/ b = {"ERR"}

NoHw == [busy |-> FALSE, d |-> 0, n |-> 0]

\* The engine, the handler and the channel between two rounds
Resting ==
  /\ status = "IDLE" /\ request = "NONE" /\ hw = NoHw /\ raw = {} /\ isr = "idle" /\ bits = {}

Empty == issued = <<>> /\ completed = <<>> /\ head = <<>> /\ pending = "no"

(* The stations of descriptor d while its thread waits. *)

Running(d) == hw.busy /\ hw.d = d /\ raw = {} /\ isr = "idle" /\ bits = {}

Stopped ==
  /\ hw = NoHw
  /\ \/ isr = "idle" /\ bits = {} /\ raw = {"DONE"}
     \/ isr = "idle" /\ bits = {} /\ raw = {"ERR"} /\ "error" \in mishap
     \/ isr = "done" /\ bits = {"DONE"} /\ raw = {}
     \/ isr = "abort" /\ bits = {"ERR"} /\ raw = {} /\ "error" \in mishap

Issued(d) ==
  /\ status = "BUSY" /\ request = "NONE"
  /\ issued = <<d>> /\ completed = <<>> /\ head = <<>> /\ pending = "no"
  /\ Running(d) \/ Stopped

Aborted(d) ==
  /\ isr = "reset" /\ bits = {} /\ hw = NoHw /\ raw = {} /\ "error" \in mishap
  /\ issued = <<>> /\ completed = <<d>> /\ head = <<>> /\ pending = "new"

AllStarted(d) == "error" \notin mishap => chunks[d] = <<>>

Ended(d) ==
  /\ Resting /\ AllStarted(d)
  /\ issued = <<>> /\ completed = <<d>> /\ head = <<>> /\ pending = "old"

Taken(d) ==
  /\ Resting /\ AllStarted(d)
  /\ issued = <<>> /\ completed = <<>> /\ head = <<d>> /\ pending = "no"

CalledLast(d) == called # <<>> /\ called[Len(called)] = d

Woken(d) == Resting /\ Empty /\ AllStarted(d) /\ CalledLast(d)

Waiting(d) == Issued(d) \/ Aborted(d) \/ Ended(d) \/ Taken(d)

\* The bursts of the first j chunks of n
Bursts(n, j) == IF j * LlMax <= n THEN j * LlMax ELSE n

\* The chunks that are left of descriptor d, of n bursts, are the last ones, and
\* the bursts of the others are moved or in the engine.
Transfer(d, n) ==
  LET started == Len(Chunks(n)) - Len(chunks[d]) IN
  /\ d \in DOMAIN chunks
  /\ started >= 0
  /\ \A i \in 1 .. Len(chunks[d]) : chunks[d][i] = Chunks(n)[started + i]
  /\ "error" \notin mishap => moved[d] + hw.n = Bursts(n, started)

Round(t) ==
  LET d == call[t].my
      n == call[t].sgs IN
  /\ Inside(t) => n \in Sgs
  /\ pc[t] = "prep" => configured /\ done = 0 /\ d = 0
  /\ pc[t] = "submit" => configured /\ done = 0 /\ Transfer(d, n) /\ chunks[d] = Chunks(n)
  /\ pc[t] = "issue" => /\ configured /\ done = 0 /\ Transfer(d, n) /\ chunks[d] = Chunks(n)
                        /\ submitted = <<d>> /\ Resting /\ Empty
  /\ pc[t] = "wait" => /\ submitted = <<>> /\ Transfer(d, n)
                       /\ \/ done = 0 /\ Waiting(d)
                          \/ done = 1 /\ Woken(d)
  /\ pc[t] \notin {"term_hw", "term_idle", "term_stop"}
  /\ pc[t] = "term" /\ ~call[t].freeing /\ d # 0 =>
       CalledLast(d) /\ ("error" \notin mishap => moved[d] = n)

Calm == "timeout" \notin mishap

EngineTypes ==
  /\ moved \in Seq(Nat) /\ Len(moved) = Len(chunks)
  /\ hw \in [busy : BOOLEAN, d : Nat, n : Nat]

Between == submitted = <<>> /\ Resting /\ Empty

Rounds ==
  /\ EngineTypes /\ "clobber" \notin mishap
  /\ \A t \in Threads : Round(t)
  /\ (\A t \in Threads : pc[t] \notin {"issue", "wait"}) => Between

RoundInv == Calm => Rounds
-----------------------------------------------------------------------------
LEMMA Products ==
  ASSUME NEW a \in Nat, NEW b \in Nat, NEW m \in Nat
  PROVE  (a + b) * m = a * m + b * m /\ b * m >= 0 /\ a * m \in Nat
  OBVIOUS

LEMMA Division ==
  ASSUME NEW n \in Nat
  PROVE  /\ n \div LlMax \in Nat /\ n % LlMax \in 0 .. LlMax - 1
         /\ n = ((n \div LlMax) * LlMax) + (n % LlMax)
  BY MtdmaAssumption

LEMMA ChunksAre ==
  ASSUME NEW n \in Nat
  PROVE  LET full == n \div LlMax
             rest == n % LlMax IN
         /\ Len(Chunks(n)) = IF rest > 0 THEN full + 1 ELSE full
         /\ \A i \in 1 .. full : Chunks(n)[i] = LlMax
         /\ rest > 0 => Chunks(n)[full + 1] = rest
<1> DEFINE full == n \div LlMax
           rest == n % LlMax
           front == [i \in 1 .. full |-> LlMax]
           last == IF rest > 0 THEN <<rest>> ELSE <<>>
<1>1. LlMax \in Nat /\ full \in Nat /\ rest \in Nat
  BY Division, MtdmaAssumption
<1>2. Chunks(n) = front \o last
  BY DEF Chunks
<1> HIDE DEF full, rest
<1>3. front \in Seq(Nat) /\ Len(front) = full /\ \A i \in 1 .. full : front[i] = LlMax
  BY <1>1, SeqDef
<1>4. last \in Seq(Nat) /\ Len(last) = (IF rest > 0 THEN 1 ELSE 0) /\ (rest > 0 => last[1] = rest)
  BY <1>1
<1> HIDE DEF front, last
<1>5. /\ Len(Chunks(n)) = full + Len(last)
      /\ \A i \in 1 .. full + Len(last) :
           Chunks(n)[i] = IF i <= full THEN front[i] ELSE last[i - full]
  <2>1. /\ Len(front \o last) = Len(front) + Len(last)
        /\ \A i \in 1 .. Len(front) + Len(last) :
             (front \o last)[i] = IF i <= Len(front) THEN front[i] ELSE last[i - Len(front)]
    BY <1>3, <1>4, ConcatProperties
  <2> QED
    BY <1>2, <1>3, <2>1, Zenon
<1>6. Len(Chunks(n)) = IF rest > 0 THEN full + 1 ELSE full
  BY <1>1, <1>4, <1>5
<1>7. \A i \in 1 .. full : Chunks(n)[i] = LlMax
  BY <1>1, <1>3, <1>4, <1>5
<1>8. rest > 0 => Chunks(n)[full + 1] = rest
  BY <1>1, <1>4, <1>5
<1> QED
  BY <1>6, <1>7, <1>8 DEF full, rest

LEMMA BurstsGrow ==
  ASSUME NEW n \in Nat, NEW j \in 0 .. Len(Chunks(n)) - 1
  PROVE  Bursts(n, j + 1) = Bursts(n, j) + Chunks(n)[j + 1]
<1> DEFINE full == n \div LlMax
           rest == n % LlMax
<1>1. /\ LlMax \in Nat /\ full \in Nat /\ rest \in 0 .. LlMax - 1
      /\ n = (full * LlMax) + rest
  BY Division, MtdmaAssumption
<1>2. /\ Len(Chunks(n)) = IF rest > 0 THEN full + 1 ELSE full
      /\ \A i \in 1 .. full : Chunks(n)[i] = LlMax
      /\ rest > 0 => Chunks(n)[full + 1] = rest
  BY ChunksAre
<1>3. j \in Nat
  BY ChunksType, <1>1, <1>2
<1> HIDE DEF full, rest
<1>4. (j + 1) * LlMax = j * LlMax + LlMax /\ j * LlMax \in Nat
  BY <1>1, <1>3, Products
<1>5. CASE j < full
  <2>1. /\ full - (j + 1) \in Nat /\ j + 1 \in Nat
        /\ full = (j + 1) + (full - (j + 1))
    BY <1>1, <1>3, <1>5
  <2>2. full * LlMax = (j + 1) * LlMax + (full - (j + 1)) * LlMax
        /\ (full - (j + 1)) * LlMax >= 0 /\ (full - (j + 1)) * LlMax \in Nat
    BY <1>1, <2>1, Products
  <2>3. (j + 1) * LlMax <= n
    BY <1>1, <1>4, <2>2
  <2>4. Chunks(n)[j + 1] = LlMax
    BY <1>1, <1>2, <1>3, <1>5
  <2> QED
    BY <1>1, <1>4, <2>3, <2>4 DEF Bursts
<1>6. CASE j = full
  <2>1. rest > 0 /\ Chunks(n)[j + 1] = rest
    BY <1>1, <1>2, <1>6
  <2>2. j * LlMax <= n /\ ~((j + 1) * LlMax <= n)
    BY <1>1, <1>4, <1>6
  <2> QED
    BY <1>1, <1>6, <2>1, <2>2 DEF Bursts
<1> QED
  BY <1>1, <1>2, <1>3, <1>5, <1>6

LEMMA BurstsEnds ==
  ASSUME NEW n \in Nat
  PROVE  Bursts(n, 0) = 0 /\ Bursts(n, Len(Chunks(n))) = n
<1> DEFINE full == n \div LlMax
           rest == n % LlMax
<1>1. /\ LlMax \in Nat /\ full \in Nat /\ rest \in 0 .. LlMax - 1
      /\ n = (full * LlMax) + rest
  BY Division, MtdmaAssumption
<1>2. Len(Chunks(n)) = IF rest > 0 THEN full + 1 ELSE full
  BY ChunksAre
<1> HIDE DEF full, rest
<1>3. (full + 1) * LlMax = full * LlMax + LlMax /\ full * LlMax \in Nat
  BY <1>1, Products
<1>4. 0 * LlMax = 0
  BY <1>1
<1> QED
  BY <1>1, <1>2, <1>3, <1>4 DEF Bursts
-----------------------------------------------------------------------------
\* What the sequences of one descriptor are made of
LEMMA Singleton ==
  \A d \in Nat : /\ Append(<<>>, d) = <<d>> /\ <<>> \o <<d>> = <<d>>
                 /\ Head(<<d>>) = d /\ Tail(<<d>>) = <<>> /\ <<d>> # <<>> /\ <<d>> \in Seq(Nat)
<1> SUFFICES ASSUME NEW d \in Nat
             PROVE  /\ Append(<<>>, d) = <<d>> /\ <<>> \o <<d>> = <<d>>
                    /\ Head(<<d>>) = d /\ Tail(<<d>>) = <<>> /\ <<d>> # <<>> /\ <<d>> \in Seq(Nat)
  OBVIOUS
<1>1. <<d>> \in Seq(Nat) /\ <<>> \in Seq(Nat)
  OBVIOUS
<1>2. <<>> \o <<d>> = <<d>>
  BY <1>1, ConcatEmptySeq
<1>3. Append(<<>>, d) = <<>> \o <<d>>
  BY <1>1, AppendIsConcat
<1>4. Head(<<d>>) = d /\ Tail(<<d>>) = <<>> /\ <<d>> # <<>>
  OBVIOUS
<1> QED
  BY <1>1, <1>2, <1>3, <1>4

LEMMA InitRounds == Init => Rounds
<1> SUFFICES ASSUME Init PROVE Rounds
  OBVIOUS
<1>1. EngineTypes /\ "clobber" \notin mishap /\ Between
  BY DEF Init, vchan_init, mtdma_channel_setup, EngineTypes, Between, Resting, Empty, NoHw
<1>2. ASSUME NEW t \in Threads PROVE Round(t)
  BY DEF Init, Round, Inside, NoCall
<1> QED
  BY <1>1, <1>2 DEF Rounds

\* Starting a chunk of d, when the engine stands still
LEMMA StartChunk ==
  ASSUME ListInv, EngineTypes, NEW d \in Nat, NEW n \in Nat, Transfer(d, n), hw = NoHw,
         chunks[d] # <<>>, mtdma_start_transfer(<<d>>), UNCHANGED moved
  PROVE  /\ Transfer(d, n)' /\ EngineTypes' /\ hw'.busy /\ hw'.d = d /\ raw' = {}
         /\ mishap' = mishap
<1>1. /\ hw' = [busy |-> TRUE, d |-> d, n |-> Head(chunks[d])] /\ raw' = {}
      /\ mishap' = IF hw.busy THEN mishap \cup {"clobber"} ELSE mishap
      /\ chunks' = [chunks EXCEPT ![d] = Tail(chunks[d])]
  BY Singleton DEF mtdma_start_transfer, mtdma_v0_core_start, mtdma_v0_core_write_chunk
<1>2. mishap' = mishap
  BY <1>1 DEF NoHw
<1>3. d \in 1 .. Len(chunks) /\ chunks[d] \in Seq(Nat)
  BY ElementOfSeq DEF ListInv, Types, Transfer
<1>4. /\ Head(chunks[d]) \in Nat /\ Tail(chunks[d]) \in Seq(Nat)
      /\ Len(Tail(chunks[d])) = Len(chunks[d]) - 1
      /\ \A i \in 1 .. Len(Tail(chunks[d])) : Tail(chunks[d])[i] = chunks[d][i + 1]
      /\ Head(chunks[d]) = chunks[d][1] /\ Len(chunks[d]) \in Nat \ {0}
  BY <1>3, HeadTailProperties, EmptySeq
<1>5. /\ chunks' \in Seq(Seq(Nat)) /\ Len(chunks') = Len(chunks)
      /\ chunks'[d] = Tail(chunks[d])
  BY <1>1, <1>3, <1>4, ExceptSeq DEF ListInv, Types
<1>6. EngineTypes'
  BY <1>1, <1>4, <1>5 DEF EngineTypes
<1> DEFINE started == Len(Chunks(n)) - Len(chunks[d])
<1>7. started \in 0 .. Len(Chunks(n)) - 1 /\ Len(Chunks(n)) \in Nat
  BY <1>4, ChunksType, LenProperties DEF Transfer
<1>8. Len(Chunks(n)) - Len(chunks'[d]) = started + 1
  <2>1. Len(chunks'[d]) = Len(chunks[d]) - 1
    BY <1>4, <1>5, Zenon
  <2> QED
    BY <1>4, <1>7, <2>1
<1>9. \A i \in 1 .. Len(chunks'[d]) : chunks'[d][i] = Chunks(n)[(started + 1) + i]
  <2> SUFFICES ASSUME NEW i \in 1 .. Len(chunks'[d])
               PROVE  chunks'[d][i] = Chunks(n)[(started + 1) + i]
    OBVIOUS
  <2>1. chunks'[d][i] = chunks[d][i + 1] /\ i + 1 \in 1 .. Len(chunks[d])
    BY <1>4, <1>5
  <2>2. chunks[d][i + 1] = Chunks(n)[started + (i + 1)]
    BY <2>1 DEF Transfer
  <2>3. started + (i + 1) = (started + 1) + i
    BY <1>7
  <2> QED
    BY <2>1, <2>2, <2>3
<1>10. "error" \notin mishap' => moved'[d] + hw'.n = Bursts(n, started + 1)
  <2> SUFFICES ASSUME "error" \notin mishap PROVE moved'[d] + hw'.n = Bursts(n, started + 1)
    BY <1>2
  <2>1. moved[d] + 0 = Bursts(n, started) /\ moved[d] \in Nat
    BY <1>3, ElementOfSeq DEF Transfer, EngineTypes, NoHw
  <2>2. hw'.n = Chunks(n)[started + 1]
    BY <1>1, <1>4 DEF Transfer
  <2>3. Bursts(n, started + 1) = Bursts(n, started) + Chunks(n)[started + 1]
    BY <1>7, BurstsGrow
  <2>4. hw'.n \in Nat
    BY <1>1, <1>4
  <2> HIDE DEF started
  <2> QED
    BY <2>1, <2>2, <2>3, <2>4
<1>11. d \in DOMAIN chunks'
  BY <1>3, <1>5, LenProperties
<1>12. Transfer(d, n)'
  <2> DEFINE c == Chunks(n)
             p == chunks'[d]
  <2>1. Chunks(n)' = c /\ \A j \in Nat : Bursts(n, j)' = Bursts(n, j)
    BY DEF Chunks, Bursts
  <2>2. Len(c) - Len(p) = started + 1 /\ Len(c) - Len(p) >= 0 /\ started + 1 \in Nat
    <3> HIDE DEF started, c, p
    <3>1. started \in Nat
      <4> USE DEF c, p
      <4> QED BY <1>7
    <3>2. Len(c) - Len(p) = started + 1
      BY <1>8 DEF c, p
    <3> QED
      BY <3>1, <3>2
  <2>3. \A i \in 1 .. Len(p) : p[i] = c[(Len(c) - Len(p)) + i]
    BY <1>9, <2>2
  <2>4. "error" \notin mishap' => moved'[d] + hw'.n = Bursts(n, Len(c) - Len(p))
    BY <1>10, <2>2
  <2> HIDE DEF started
  <2> QED
    BY <1>11, <2>1, <2>2, <2>3, <2>4 DEF Transfer
<1> QED
  BY <1>1, <1>2, <1>6, <1>12
-----------------------------------------------------------------------------
(* The fields of a call that an update of one of them changes and keeps. *)

LEMMA MyFields ==
  ASSUME NEW c \in Calls, NEW v \in Nat
  PROVE  /\ [c EXCEPT !.my = v].my = v /\ [c EXCEPT !.my = v].sgs = c.sgs
         /\ [c EXCEPT !.my = v].freeing = c.freeing
  BY DEF Calls
LEMMA GotFields ==
  ASSUME NEW c \in Calls, NEW v \in Int
  PROVE  /\ [c EXCEPT !.got = v].my = c.my /\ [c EXCEPT !.got = v].sgs = c.sgs
         /\ [c EXCEPT !.got = v].freeing = c.freeing /\ [c EXCEPT !.got = v].got = v
  BY DEF Calls
LEMMA ItFields ==
  ASSUME NEW c \in Calls, NEW v \in Int
  PROVE  /\ [c EXCEPT !.it = v].my = c.my /\ [c EXCEPT !.it = v].sgs = c.sgs
         /\ [c EXCEPT !.it = v].freeing = c.freeing
  BY DEF Calls
LEMMA FreeingFields ==
  ASSUME NEW c \in Calls, NEW v \in BOOLEAN
  PROVE  /\ [c EXCEPT !.freeing = v].my = c.my /\ [c EXCEPT !.freeing = v].sgs = c.sgs
         /\ [c EXCEPT !.freeing = v].freeing = v /\ [c EXCEPT !.freeing = v].got = c.got
  BY DEF Calls
LEMMA SetsMy ==
  ASSUME Types, NEW t \in Threads, NEW v \in Nat, call' = [call EXCEPT ![t].my = v]
  PROVE  call'[t].my = v /\ call'[t].sgs = call[t].sgs
<1> DEFINE c == call[t]
<1>1. c \in Calls /\ call \in [Threads -> Calls]
  BY DEF Types
<1>2. call'[t] = [c EXCEPT !.my = v]
  BY <1>1, Zenon
<1> HIDE DEF c
<1>3. call'[t].my = v /\ call'[t].sgs = c.sgs
  <2>1. [c EXCEPT !.my = v].my = v /\ [c EXCEPT !.my = v].sgs = c.sgs
    BY <1>1, MyFields
  <2> QED
    BY <1>2, <2>1, Zenon
<1> QED
  BY <1>3 DEF c

LEMMA SetsGot ==
  ASSUME Types, NEW t \in Threads, NEW v \in Int, call' = [call EXCEPT ![t].got = v]
  PROVE  call'[t].my = call[t].my /\ call'[t].sgs = call[t].sgs
<1> DEFINE c == call[t]
<1>1. c \in Calls /\ call \in [Threads -> Calls]
  BY DEF Types
<1>2. call'[t] = [c EXCEPT !.got = v]
  BY <1>1, Zenon
<1> HIDE DEF c
<1>3. call'[t].my = c.my /\ call'[t].sgs = c.sgs
  <2>1. [c EXCEPT !.got = v].my = c.my /\ [c EXCEPT !.got = v].sgs = c.sgs
    BY <1>1, GotFields
  <2> QED
    BY <1>2, <2>1, Zenon
<1> QED
  BY <1>3 DEF c

LEMMA SetsIt ==
  ASSUME Types, NEW t \in Threads, NEW v \in Int, call' = [call EXCEPT ![t].it = v]
  PROVE  call'[t].sgs = call[t].sgs
<1> DEFINE c == call[t]
<1>1. c \in Calls /\ call \in [Threads -> Calls]
  BY DEF Types
<1>2. call'[t] = [c EXCEPT !.it = v]
  BY <1>1, Zenon
<1> HIDE DEF c
<1>3. call'[t].sgs = c.sgs
  <2>1. [c EXCEPT !.it = v].sgs = c.sgs
    BY <1>1, ItFields
  <2> QED
    BY <1>2, <2>1, Zenon
<1> QED
  BY <1>3 DEF c

LEMMA SetsFreeing ==
  ASSUME Types, NEW t \in Threads, NEW v \in BOOLEAN, call' = [call EXCEPT ![t].freeing = v]
  PROVE  call'[t].freeing = v /\ call'[t].sgs = call[t].sgs
<1> DEFINE c == call[t]
<1>1. c \in Calls /\ call \in [Threads -> Calls]
  BY DEF Types
<1>2. call'[t] = [c EXCEPT !.freeing = v]
  BY <1>1, Zenon
<1> HIDE DEF c
<1>3. call'[t].freeing = v /\ call'[t].sgs = c.sgs
  <2>1. [c EXCEPT !.freeing = v].freeing = v /\ [c EXCEPT !.freeing = v].sgs = c.sgs
    BY <1>1, FreeingFields
  <2> QED
    BY <1>2, <2>1, Zenon
<1> QED
  BY <1>3 DEF c

-----------------------------------------------------------------------------
(* The steps of a thread between two waits. *)

Kept ==
  UNCHANGED <<submitted, status, request, hw, raw, isr, bits, issued, completed, head, pending,
              mishap>>

\* A thread inside is the only one that has a round to keep.
LEMMA OtherRounds ==
  ASSUME ListInv, NEW t \in Threads, Moves(t), Inside(t)
  PROVE  \A u \in Threads \ {t} : Round(u)' /\ pc[u] \in {"idle", "oops"} /\ pc'[u] = pc[u]
<1> SUFFICES ASSUME NEW u \in Threads \ {t}
             PROVE  Round(u)' /\ pc[u] \in {"idle", "oops"} /\ pc'[u] = pc[u]
  OBVIOUS
<1>1. pc[u] \in {"idle", "oops"} /\ pc'[u] = pc[u]
  BY DEF ListInv, OneClient, Inside, Moves
<1>2. Round(u)'
  BY <1>1 DEF Round, Inside
<1> QED
  BY <1>1, <1>2

LEMMA StepBetween ==
  ASSUME ListInv, Rounds, NEW t \in Threads, Moves(t), Inside(t),
         pc[t] \notin {"issue", "wait"}, pc'[t] \notin {"issue", "wait"},
         Kept, Round(t)', EngineTypes'
  PROVE  Rounds'
<1>1. \A u \in Threads \ {t} : Round(u)' /\ pc[u] \in {"idle", "oops"} /\ pc'[u] = pc[u]
  BY OtherRounds
<1>2. Between
  BY <1>1 DEF Rounds
<1>3. Between'
  BY <1>2 DEF Kept, Between, Resting, Empty
<1>4. "clobber" \notin mishap'
  BY DEF Rounds, Kept
<1> QED
  BY <1>1, <1>3, <1>4 DEF Rounds

LEMMA EnterRounds ==
  ASSUME ListInv, Rounds, NEW t \in Threads, MtdmaRw(t)
  PROVE  Rounds'
<1>1. PICK n \in Sgs, k \in TestCnts : Request(t, n, k)
  BY DEF MtdmaRw
<1>2. /\ Kept /\ UNCHANGED <<configured, done, chunks, moved, called>>
      /\ Moves(t) /\ pc[t] = "idle"
  BY EnterMoves DEF MtdmaRw, Kept, chan, lists, engine, handler, tasklet
<1>3. EngineTypes' /\ "clobber" \notin mishap'
  BY <1>2 DEF Rounds, EngineTypes, Kept
<1>4. CASE pc'[t] = "oops"
  <2>1. \A u \in Threads \ {t} : pc'[u] = pc[u] /\ call'[u] = call[u]
    BY <1>2 DEF Moves
  <2>2. ASSUME NEW u \in Threads \ {t} PROVE Round(u)'
    <3>1. Round(u)
      BY DEF Rounds
    <3>2. \A d \in Nat : \A m \in Nat : Transfer(d, m)' = Transfer(d, m)
      BY <1>2 DEF Transfer, Chunks, Bursts, Kept
    <3>3. \A d \in Nat : /\ Waiting(d)' = Waiting(d) /\ Woken(d)' = Woken(d)
                          /\ CalledLast(d)' = CalledLast(d)
      BY <1>2 DEF Waiting, Woken, Issued, Aborted, Ended, Taken, Running, Stopped, AllStarted,
                  CalledLast, Resting, Empty, Kept
    <3>4. (Resting /\ Empty)' = (Resting /\ Empty)
      BY <1>2 DEF Resting, Empty, Kept
    <3>5. call[u].my \in Nat /\ call[u].sgs \in Nat
      BY DEF ListInv, Types, Calls
    <3>6. Chunks(call[u].sgs)' = Chunks(call'[u].sgs)
      BY DEF Chunks
    <3> QED
      BY <1>2, <2>1, <3>1, <3>2, <3>3, <3>4, <3>5, <3>6 DEF Round, Inside, Kept
  <2>3. Round(t)'
    BY <1>4 DEF Round, Inside
  <2>4. (\A u \in Threads : pc'[u] \notin {"issue", "wait"}) => Between'
    <3>1. Between' = Between
      BY <1>2 DEF Between, Resting, Empty, Kept
    <3> QED
      BY <1>2, <2>1, <3>1 DEF Rounds
  <2> QED
    BY <1>3, <2>2, <2>3, <2>4 DEF Rounds
<1>5. CASE pc'[t] # "oops"
  <2>1. call' = [call EXCEPT ![t] = [sgs |-> n, it |-> k, my |-> 0, got |-> 1,
                                     freeing |-> FALSE]]
    BY <1>1, <1>5 DEF Request, Goto, ListInv, Types
  <2>2. pc'[t] = "setup"
    BY <1>1, <1>5 DEF Request, Goto, ListInv, Types
  <2>3. \A u \in Threads : ~Inside(u)
    BY <1>1, <1>5 DEF Request, Goto, ListInv, Types, OneClient
  <2>4. ASSUME NEW u \in Threads \ {t} PROVE Round(u)' /\ pc'[u] \in {"idle", "oops"}
    BY <1>2, <2>3 DEF Round, Inside, Moves
  <2>5. call'[t].sgs = n
    BY <2>1 DEF ListInv, Types
  <2>6. Round(t)'
    BY <2>2, <2>5 DEF Round, Inside
  <2>7. Between'
    <3>1. Between
      BY <2>3 DEF Rounds, Inside
    <3> QED
      BY <1>2, <3>1 DEF Between, Resting, Empty, Kept
  <2> QED
    BY <1>3, <2>4, <2>6, <2>7 DEF Rounds
<1> QED
  BY <1>4, <1>5

LEMMA AtRest ==
  ASSUME ListInv, Rounds, NEW t \in Threads, Inside(t), pc[t] \notin {"issue", "wait"}
  PROVE  Between
<1>1. \A u \in Threads \ {t} : pc[u] \in {"idle", "oops"}
  BY DEF ListInv, OneClient, Inside
<1> QED
  BY <1>1 DEF Rounds

\* Those that prepare no descriptor
LEMMA PlainRounds ==
  ASSUME ListInv, Rounds, NEW t \in Threads, Moves(t), Inside(t),
         Setup(t) \/ Down(t) \/ DownInterrupted(t) \/ Begin(t) \/ LoopEnd(t) \/ TermRead(t)
           \/ TermEnd(t)
  PROVE  Rounds'
<1>1. /\ Kept /\ UNCHANGED <<chunks, moved, called>>
  BY DEF Setup, Down, DownInterrupted, Begin, LoopEnd, TermRead, TermEnd, Kept, lists, engine,
         handler, tasklet, chan
<1>2. EngineTypes'
  BY <1>1 DEF Rounds, EngineTypes, Kept
<1>3. Types /\ pc \in [Threads -> Labels] /\ call[t].sgs \in Sgs
  BY DEF ListInv, Types, Rounds, Round
<1>4. CASE Setup(t)
  <2>1. CASE Goto(t, "down") /\ UNCHANGED call
    <3>1. pc[t] = "setup" /\ pc'[t] = "down" /\ call'[t] = call[t]
      BY <1>3, <1>4, <2>1 DEF Setup, Goto
    <3>2. Round(t)'
      BY <1>3, <3>1 DEF Round
    <3> QED
      BY <1>1, <1>2, <3>1, <3>2, StepBetween
  <2>2. CASE Goto(t, "term") /\ call' = [call EXCEPT ![t].freeing = TRUE]
    <3>1. pc[t] = "setup" /\ pc'[t] = "term"
      BY <1>3, <1>4, <2>2 DEF Setup, Goto
    <3>2. call'[t].freeing = TRUE /\ call'[t].sgs = call[t].sgs
      BY <1>3, <2>2, SetsFreeing
    <3>3. Round(t)'
      BY <1>3, <3>1, <3>2 DEF Round
    <3> QED
      BY <1>1, <1>2, <3>1, <3>3, StepBetween
  <2> QED
    BY <1>4, <2>1, <2>2 DEF Setup
<1>5. CASE Down(t)
  <2>1. pc[t] = "down" /\ pc'[t] = "loop" /\ call'[t] = call[t]
    BY <1>3, <1>5 DEF Down, Goto
  <2>2. Round(t)'
    BY <1>3, <2>1 DEF Round
  <2> QED
    BY <1>1, <1>2, <2>1, <2>2, StepBetween
<1>6. CASE Begin(t)
  <2>1. pc[t] = "loop" /\ pc'[t] = "prep" /\ configured' /\ done' = 0
    BY <1>3, <1>6 DEF Begin, Goto, mtdma_device_config
  <2>2. call' = [call EXCEPT ![t].my = 0]
    BY <1>6 DEF Begin
  <2>3. call'[t].my = 0 /\ call'[t].sgs = call[t].sgs
    BY <1>3, <2>2, SetsMy
  <2>4. Round(t)'
    BY <1>3, <2>1, <2>3 DEF Round
  <2> QED
    BY <1>1, <1>2, <2>1, <2>4, StepBetween
<1>7. CASE LoopEnd(t) \/ DownInterrupted(t)
  <2>1. pc[t] \in {"down", "loop"} /\ pc'[t] = "term"
    BY <1>3, <1>7 DEF LoopEnd, DownInterrupted, Goto
  <2>2. call' = [call EXCEPT ![t].freeing = TRUE]
    BY <1>7 DEF LoopEnd, DownInterrupted
  <2>3. call'[t].freeing = TRUE /\ call'[t].sgs = call[t].sgs
    BY <1>3, <2>2, SetsFreeing
  <2>4. Round(t)'
    BY <1>3, <2>1, <2>3 DEF Round
  <2> QED
    BY <1>1, <1>2, <2>1, <2>4, StepBetween
<1>8. CASE TermRead(t)
  <2>1. pc[t] = "term" /\ call'[t] = call[t]
    BY <1>8 DEF TermRead
  <2>2. status = "IDLE"
    BY <2>1, AtRest DEF Between, Resting
  <2>3. pc'[t] = "term_end"
    BY <1>3, <1>8, <2>2 DEF TermRead, Goto
  <2>4. Round(t)'
    BY <1>3, <2>1, <2>3 DEF Round
  <2> QED
    BY <1>1, <1>2, <2>1, <2>3, <2>4, StepBetween
<1>9. CASE TermEnd(t)
  <2>1. pc[t] = "term_end"
    BY <1>9 DEF TermEnd
  <2>2. CASE Goto(t, "idle")
    <3>1. pc'[t] = "idle"
      BY <1>3, <2>2 DEF Goto
    <3>2. Round(t)'
      BY <3>1 DEF Round, Inside
    <3> QED
      BY <1>1, <1>2, <2>1, <3>1, <3>2, StepBetween
  <2>3. CASE Goto(t, "loop") /\ call' = [call EXCEPT ![t].it = call[t].it - 1]
    <3>1. pc'[t] = "loop"
      BY <1>3, <2>3 DEF Goto
    <3>2. call[t].it - 1 \in Int
      BY <1>3 DEF Types, Calls
    <3>3. call'[t].sgs = call[t].sgs
      BY <1>3, <2>3, <3>2, SetsIt
    <3>4. Round(t)'
      BY <1>3, <3>1, <3>3 DEF Round
    <3> QED
      BY <1>1, <1>2, <2>1, <3>1, <3>4, StepBetween
  <2> QED
    BY <1>9, <2>2, <2>3 DEF TermEnd
<1> QED
  BY <1>4, <1>5, <1>6, <1>7, <1>8, <1>9

LEMMA PrepRounds ==
  ASSUME ListInv, Rounds, NEW t \in Threads, Moves(t), Inside(t), Prep(t), ListInv'
  PROVE  Rounds'
<1>1. Kept /\ UNCHANGED <<configured, done, called>> /\ pc[t] = "prep"
  BY DEF Prep, Kept, handler, tasklet, chan
<1>0. PICK n \in Sgs : n = call[t].sgs
  BY DEF Rounds, Round
<1>2. Types /\ pc \in [Threads -> Labels] /\ n \in Nat /\ call[t].sgs = n
  BY <1>0, MtdmaAssumption DEF ListInv, Types
<1>3. call[t].my = 0 /\ configured /\ done = 0
  BY <1>1 DEF Rounds, Round
<1>4. CASE AllocFails(t)
  <2>1. pc'[t] = "term" /\ call' = [call EXCEPT ![t].got = 0] /\ UNCHANGED <<chunks, moved>>
    BY <1>2, <1>4 DEF AllocFails, Goto
  <2>2. call'[t].my = call[t].my /\ call'[t].sgs = call[t].sgs
    BY <1>2, <2>1, SetsGot
  <2>3. Round(t)'
    BY <1>2, <1>3, <2>1, <2>2 DEF Round
  <2>4. EngineTypes'
    BY <1>1, <2>1 DEF Rounds, EngineTypes, Kept
  <2> QED
    BY <1>1, <2>1, <2>3, <2>4, StepBetween
<1>5. CASE /\ chunks' = Append(chunks, Chunks(call[t].sgs)) /\ moved' = Append(moved, 0)
           /\ Goto(t, "submit") /\ call' = [call EXCEPT ![t].my = Len(chunks) + 1]
  <2>0. PICK d \in Nat : d = Len(chunks) + 1
    BY <1>2 DEF Types
  <2> USE <1>0
  <2>1. Chunks(n) \in Seq(Nat) /\ Len(Chunks(n)) \in Nat
    BY <1>2, ChunksType, LenProperties
  <2>2. /\ chunks' \in Seq(Seq(Nat)) /\ Len(chunks') = d /\ chunks'[d] = Chunks(n)
    BY <1>2, <1>5, <2>0, <2>1, AppendProperties DEF Types
  <2>3. moved' \in Seq(Nat) /\ Len(moved') = d /\ moved'[d] = 0
    <3>1. moved \in Seq(Nat) /\ Len(moved) = Len(chunks)
      BY DEF Rounds, EngineTypes
    <3>2. /\ Append(moved, 0) \in Seq(Nat) /\ Len(Append(moved, 0)) = Len(moved) + 1
          /\ Append(moved, 0)[Len(moved) + 1] = 0
      BY <3>1, AppendProperties
    <3> QED
      BY <1>5, <2>0, <3>1, <3>2
  <2>4. pc'[t] = "submit"
    BY <1>2, <1>5 DEF Goto
  <2>5. call'[t].my = d /\ call'[t].sgs = n
    <3>1. call' = [call EXCEPT ![t].my = d]
      BY <1>5, <2>0
    <3> QED
      BY <1>2, <3>1, SetsMy
  <2>6. hw' = NoHw
    BY <1>1, AtRest DEF Between, Resting, Kept
  <2>7. Transfer(d, n)'
    <3>1. d \in DOMAIN chunks'
      <4>1. Len(chunks) \in Nat
        BY <1>2, LenProperties DEF Types
      <4>2. DOMAIN chunks' = 1 .. d
        BY <2>2, LenProperties
      <4> QED
        BY <2>0, <4>1, <4>2
    <3>2. Bursts(n, 0)' = 0 /\ Chunks(n)' = Chunks(n)
      BY <1>2, BurstsEnds DEF Chunks, Bursts
    <3>3. Len(Chunks(n)) - Len(chunks'[d]) = 0
      BY <2>1, <2>2
    <3>4. hw'.n = 0
      BY <2>6 DEF NoHw
    <3>5. \A i \in 1 .. Len(chunks'[d]) : chunks'[d][i] = Chunks(n)[0 + i]
      BY <2>2
    <3>6. moved'[d] + hw'.n = Bursts(n, 0)'
      BY <2>3, <3>2, <3>4
    <3> QED
      BY <3>1, <3>2, <3>3, <3>5, <3>6 DEF Transfer
  <2>8. Round(t)'
    <3>1. chunks'[d] = Chunks(n)' /\ n \in Sgs
      BY <2>2 DEF Chunks
    <3>2. Transfer(call[t].my, call[t].sgs)' /\ chunks'[call'[t].my] = Chunks(call[t].sgs)'
      BY <2>5, <2>7, <3>1
    <3> QED
      BY <1>1, <1>2, <1>3, <2>4, <2>5, <3>1, <3>2 DEF Round
  <2>9. EngineTypes'
    BY <1>1, <2>2, <2>3 DEF Rounds, EngineTypes, Kept
  <2> QED
    BY <1>1, <2>4, <2>8, <2>9, StepBetween
<1> QED
  BY <1>4, <1>5 DEF Prep

LEMMA SubmitRounds ==
  ASSUME ListInv, Rounds, NEW t \in Threads, Moves(t), Inside(t), vchan_tx_submit(t)
  PROVE  Rounds'
<1>1. /\ pc[t] = "submit" /\ pc'[t] = "issue" /\ call' = call
      /\ submitted' = Append(submitted, call[t].my)
      /\ UNCHANGED <<configured, status, request, hw, raw, isr, bits, issued, completed, head,
                     pending, mishap, done, chunks, moved, called>>
  BY DEF vchan_tx_submit, Goto, chan, engine, handler, tasklet, ListInv, Types
<1>2. Between
  BY <1>1, AtRest
<1>3. call[t].my \in Nat
  BY DEF ListInv, Types, Calls
<1>4. submitted' = <<call[t].my>>
  BY <1>1, <1>2, <1>3, Singleton DEF Between
<1>5. (Resting /\ Empty)'
  BY <1>1, <1>2 DEF Between, Resting, Empty
<1>6. /\ configured /\ done = 0 /\ Transfer(call[t].my, call[t].sgs) /\ call[t].sgs \in Sgs
      /\ chunks[call[t].my] = Chunks(call[t].sgs)
  BY <1>1 DEF Rounds, Round, Inside
<1>7. /\ Transfer(call[t].my, call[t].sgs)'
      /\ (chunks[call[t].my] = Chunks(call[t].sgs))'
  BY <1>1, <1>6 DEF Transfer, Chunks, Bursts
<1>8. Round(t)'
  BY <1>1, <1>4, <1>5, <1>6, <1>7 DEF Round
<1>9. EngineTypes' /\ "clobber" \notin mishap'
  BY <1>1 DEF Rounds, EngineTypes
<1>10. \A u \in Threads \ {t} : Round(u)'
  BY OtherRounds
<1> QED
  BY <1>1, <1>8, <1>9, <1>10 DEF Rounds

\* Where the thread waits, whatever station its descriptor is at
LEMMA WaitRounds ==
  ASSUME ListInv, Rounds, NEW t \in Threads, pc'[t] = "wait", EngineTypes',
         Moves(t) /\ Inside(t), mishap' = mishap \/ mishap' = mishap \cup {"error"},
         submitted' = <<>>, call'[t].sgs \in Sgs,
         Transfer(call[t].my, call[t].sgs)',
         (\/ done = 0 /\ Waiting(call[t].my)
          \/ done = 1 /\ Woken(call[t].my))'
  PROVE  Rounds'
<1>1. Round(t)'
  BY DEF Round
<1>2. \A u \in Threads \ {t} : Round(u)'
  BY OtherRounds
<1>3. "clobber" \notin mishap'
  BY DEF Rounds
<1> QED
  BY <1>1, <1>2, <1>3 DEF Rounds

LEMMA IssueRounds ==
  ASSUME ListInv, Rounds, NEW t \in Threads, Moves(t), Inside(t), mtdma_device_issue_pending(t)
  PROVE  Rounds'
<1>0. PICK d \in Nat, n \in Sgs : d = call[t].my /\ n = call[t].sgs
  BY DEF ListInv, Types, Calls, Rounds, Round
<1>1. /\ pc[t] = "issue" /\ pc'[t] = "wait" /\ call' = call
      /\ UNCHANGED <<request, isr, bits, completed, head, pending, done, moved, called>>
  BY DEF mtdma_device_issue_pending, Goto, handler, tasklet, ListInv, Types
<1>2. /\ configured /\ done = 0 /\ Transfer(d, n) /\ chunks[d] = Chunks(n)
      /\ submitted = <<d>> /\ Resting /\ Empty
  BY <1>0, <1>1 DEF Rounds, Round
<1>3. /\ issued' = <<d>> /\ submitted' = <<>> /\ status' = "BUSY"
      /\ mtdma_start_transfer(<<d>>)
  BY <1>2, Singleton DEF mtdma_device_issue_pending, vchan_issue_pending, Resting, Empty
<1>4. chunks[d] # <<>>
  <2>1. n \in Nat \ {0}
    BY MtdmaAssumption
  <2>2. Len(Chunks(n)) # 0
    BY <2>1, BurstsEnds
  <2> QED
    BY <1>2, <2>2
<1>5. /\ Transfer(d, n)' /\ EngineTypes' /\ hw'.busy /\ hw'.d = d /\ raw' = {}
      /\ mishap' = mishap
  <2>1. n \in Nat /\ EngineTypes /\ hw = NoHw /\ UNCHANGED moved
    BY <1>1, <1>2, MtdmaAssumption DEF Rounds, Resting
  <2> QED
    BY <1>2, <1>3, <1>4, <2>1, StartChunk
<1>6. Issued(d)'
  BY <1>1, <1>2, <1>3, <1>5 DEF Issued, Running, Resting, Empty
<1>7. (done = 0 /\ Waiting(call[t].my))'
  BY <1>0, <1>1, <1>2, <1>6 DEF Waiting
<1>8. Transfer(call[t].my, call[t].sgs)'
  BY <1>0, <1>1, <1>5
<1> QED
  BY <1>0, <1>1, <1>3, <1>5, <1>7, <1>8, WaitRounds

LEMMA WokenRounds ==
  ASSUME ListInv, Rounds, NEW t \in Threads, Moves(t), Inside(t), WaitDone(t)
  PROVE  Rounds'
<1>0. PICK d \in Nat, n \in Sgs : d = call[t].my /\ n = call[t].sgs
  BY DEF ListInv, Types, Calls, Rounds, Round
<1>1. /\ pc[t] = "wait" /\ pc'[t] = "term" /\ done > 0 /\ call' = [call EXCEPT ![t].got = 0]
      /\ Kept /\ UNCHANGED <<chunks, moved, called>>
  BY DEF WaitDone, Goto, Kept, chan, lists, engine, handler, tasklet, ListInv, Types
<1>2. submitted = <<>> /\ Transfer(d, n) /\ Woken(d)
  BY <1>0, <1>1 DEF Rounds, Round
<1>3. Between'
  BY <1>1, <1>2 DEF Woken, Between, Resting, Empty, Kept
<1>4. "error" \notin mishap => moved[d] = n
  <2> SUFFICES ASSUME "error" \notin mishap PROVE moved[d] = n
    OBVIOUS
  <2>1. chunks[d] = <<>> /\ hw.n = 0
    BY <1>2 DEF Woken, AllStarted, Resting, NoHw
  <2>2. n \in Nat
    BY MtdmaAssumption
  <2>3. Len(Chunks(n)) \in Nat
    BY <2>2, ChunksType, LenProperties
  <2>4. Len(Chunks(n)) - Len(chunks[d]) = Len(Chunks(n))
    BY <2>1, <2>3
  <2>5. moved[d] + 0 = n
    BY <1>2, <2>1, <2>2, <2>4, BurstsEnds DEF Transfer
  <2>6. moved[d] \in Nat
    <3>1. DOMAIN chunks = 1 .. Len(chunks)
      BY LenProperties DEF ListInv, Types
    <3>2. moved \in Seq(Nat) /\ d \in 1 .. Len(moved)
      BY <1>2, <3>1 DEF Transfer, Rounds, EngineTypes
    <3> QED
      BY <3>2, ElementOfSeq
  <2> QED
    BY <2>5, <2>6
<1>5. call'[t].my = d /\ call'[t].sgs = n
  <2>1. Types
    BY DEF ListInv
  <2> QED
    BY <1>0, <1>1, <2>1, SetsGot
<1>6. Round(t)'
  <2>1. CalledLast(d)' /\ ("error" \notin mishap' => moved'[d] = n)
    BY <1>1, <1>2, <1>4 DEF Woken, CalledLast, Kept
  <2>2. CalledLast(call[t].my)'
    BY <1>5, <2>1
  <2> QED
    BY <1>1, <1>5, <2>1, <2>2 DEF Round
<1>7. EngineTypes' /\ "clobber" \notin mishap'
  BY <1>1 DEF Rounds, EngineTypes, Kept
<1>8. \A u \in Threads \ {t} : Round(u)'
  BY OtherRounds
<1> QED
  BY <1>3, <1>6, <1>7, <1>8 DEF Rounds

LEMMA ThreadRounds ==
  ASSUME ListInv, Rounds, NEW t \in Threads, ThreadStep(t) \/ DownInterrupted(t), ListInv', Calm'
  PROVE  Rounds'
<1>1. Moves(t) /\ Inside(t)
  BY StepMoves
<1>2. ~WaitTimeout(t)
  BY DEF WaitTimeout, Calm
<1>3. ~(TermHw(t) \/ TermIdle(t) \/ TermStop(t))
  BY DEF TermHw, TermIdle, TermStop, Rounds, Round
<1> QED
  BY <1>1, <1>2, <1>3, PlainRounds, PrepRounds, SubmitRounds, IssueRounds, WokenRounds
     DEF ThreadStep
-----------------------------------------------------------------------------
(* The engine, the handler and the tasklet move the descriptor of the thread  *)
(* that waits from one station to the next.                                   *)

LEMMA TheWaiter ==
  ASSUME ListInv, Rounds, ~(Resting /\ Empty)
  PROVE  \E t \in Threads : /\ pc[t] = "wait" /\ done = 0 /\ submitted = <<>>
                            /\ call[t].my \in Nat /\ call[t].sgs \in Sgs
                            /\ Waiting(call[t].my) /\ Transfer(call[t].my, call[t].sgs)
<1>1. PICK t \in Threads : pc[t] \in {"issue", "wait"}
  BY DEF Rounds, Between
<1>2. Round(t)
  BY DEF Rounds
<1>3. pc[t] = "wait"
  BY <1>1, <1>2 DEF Round
<1>4. ~Woken(call[t].my)
  BY DEF Woken
<1>5. call[t].my \in Nat
  BY DEF ListInv, Types, Calls
<1> QED
  BY <1>2, <1>3, <1>4, <1>5 DEF Round, Inside

LEMMA OthersStay ==
  ASSUME ListInv, NEW t \in Threads, pc[t] = "wait", UNCHANGED client_
  PROVE  Moves(t) /\ Inside(t) /\ call' = call /\ pc'[t] = "wait"
  BY DEF ListInv, Types, Moves, Inside, client_

LEMMA StopRounds ==
  ASSUME ListInv, Rounds, HwStop, OneAtATime \/ mishap' = {}
  PROVE  Rounds'
<1>1. ~Resting
  BY DEF HwStop, Resting, NoHw
<1>2. PICK t \in Threads : /\ pc[t] = "wait" /\ done = 0 /\ submitted = <<>>
                           /\ call[t].my \in Nat /\ call[t].sgs \in Sgs
                           /\ Waiting(call[t].my) /\ Transfer(call[t].my, call[t].sgs)
  BY <1>1, TheWaiter
<1>3. PICK d \in Nat, n \in Sgs : d = call[t].my /\ n = call[t].sgs
  BY <1>2
<1>4. Issued(d) /\ Running(d)
  BY <1>2, <1>3 DEF HwStop, Waiting, Issued, Aborted, Ended, Taken, Resting, NoHw, Stopped
<1>5. PICK b \in Outcomes :
        /\ raw' = raw \cup b
        /\ moved' = [moved EXCEPT ![hw.d] = IF "ERR" \in b THEN moved[hw.d] ELSE moved[hw.d] + hw.n]
        /\ mishap' = IF "ERR" \in b THEN mishap \cup {"error"} ELSE mishap
  BY DEF HwStop
<1>6. b = {"DONE"} \/ b = {"ERR"}
  <2>1. CASE OneAtATime
    BY <2>1 DEF OneAtATime
  <2>2. CASE mishap' = {}
    <3>1. "ERR" \notin b
      BY <1>5, <2>2
    <3>2. b \in (SUBSET {"DONE", "ERR"}) \ {{}}
      BY MtdmaAssumption
    <3> QED
      BY <3>1, <3>2
  <2> QED
    BY <2>1, <2>2
<1>7. /\ hw' = NoHw
      /\ UNCHANGED <<client_, done, configured, request, status, submitted, issued, completed,
                     chunks, isr, bits, pending, head, called>>
  BY DEF HwStop, NoHw, chan, lists, handler, tasklet
<1>8. Stopped'
  BY <1>4, <1>5, <1>6, <1>7 DEF Stopped, Running
<1>9. Issued(d)'
  BY <1>4, <1>7, <1>8 DEF Issued
<1>10. /\ moved \in Seq(Nat) /\ d \in 1 .. Len(moved) /\ hw.n \in Nat /\ hw.d = d
       /\ moved[d] \in Nat /\ Len(moved) = Len(chunks)
  <2>1. DOMAIN chunks = 1 .. Len(chunks)
    BY LenProperties DEF ListInv, Types
  <2>2. moved \in Seq(Nat) /\ d \in 1 .. Len(moved) /\ Len(moved) = Len(chunks)
    BY <1>2, <1>3, <2>1 DEF Transfer, Rounds, EngineTypes
  <2>3. hw.n \in Nat /\ hw.d = d
    BY <1>4 DEF Running, Rounds, EngineTypes
  <2> QED
    BY <2>2, <2>3, ElementOfSeq
<1> DEFINE v == IF "ERR" \in b THEN moved[d] ELSE moved[d] + hw.n
<1>11. v \in Nat /\ moved' = [moved EXCEPT ![d] = v]
  BY <1>5, <1>10
<1> HIDE DEF v
<1>12. moved' \in Seq(Nat) /\ Len(moved') = Len(moved) /\ moved'[d] = v
  BY <1>10, <1>11, ExceptSeq
<1>13. EngineTypes'
  BY <1>7, <1>10, <1>12 DEF EngineTypes, NoHw
<1>14. Transfer(d, n)'
  <2>1. "error" \notin mishap' => v = moved[d] + hw.n /\ "error" \notin mishap
    BY <1>5, <1>6 DEF v
  <2>2. hw'.n = 0 /\ v \in Nat
    BY <1>7, <1>11 DEF NoHw
  <2>3. "error" \notin mishap' => moved'[d] + hw'.n = moved[d] + hw.n
    BY <1>10, <1>12, <2>1, <2>2
  <2>4. Transfer(d, n)
    BY <1>2, <1>3
  <2> QED
    BY <1>7, <2>1, <2>3, <2>4 DEF Transfer, Chunks, Bursts
<1>15. Moves(t) /\ Inside(t) /\ call' = call /\ pc'[t] = "wait"
  BY <1>2, <1>7, OthersStay
<1>16. (done = 0 /\ Waiting(call[t].my))' /\ Transfer(call[t].my, call[t].sgs)'
  BY <1>2, <1>3, <1>7, <1>9, <1>14, <1>15 DEF Waiting
<1>17. mishap' = mishap \/ mishap' = mishap \cup {"error"}
  BY <1>5
<1> QED
  BY <1>2, <1>7, <1>13, <1>15, <1>16, <1>17, WaitRounds

\* A step after which the chunks and what was moved are as before
LEMMA StationRounds ==
  ASSUME ListInv, Rounds, NEW t \in Threads, pc[t] = "wait", call[t].sgs \in Sgs,
         Transfer(call[t].my, call[t].sgs),
         UNCHANGED <<client_, chunks, moved, hw, mishap, submitted>>, submitted = <<>>,
         (\/ done = 0 /\ Waiting(call[t].my)
          \/ done = 1 /\ Woken(call[t].my))'
  PROVE  Rounds'
<1>1. Moves(t) /\ Inside(t) /\ call' = call /\ pc'[t] = "wait"
  BY OthersStay
<1>2. EngineTypes'
  BY DEF Rounds, EngineTypes
<1>3. Transfer(call[t].my, call[t].sgs)'
  BY <1>1 DEF Transfer, Chunks, Bursts
<1> QED
  BY <1>1, <1>2, <1>3, WaitRounds

LEMMA ReadRounds ==
  ASSUME ListInv, Rounds, IsrRead
  PROVE  Rounds'
<1>1. ~Resting
  BY DEF IsrRead, Resting
<1>2. PICK t \in Threads : /\ pc[t] = "wait" /\ done = 0 /\ submitted = <<>>
                           /\ call[t].my \in Nat /\ call[t].sgs \in Sgs
                           /\ Waiting(call[t].my) /\ Transfer(call[t].my, call[t].sgs)
  BY <1>1, TheWaiter
<1>3. PICK d \in Nat : d = call[t].my
  BY <1>2
<1>4. Issued(d) /\ Stopped
  BY <1>2, <1>3 DEF IsrRead, Waiting, Issued, Aborted, Ended, Taken, Resting, Running
<1>5. /\ UNCHANGED <<client_, done, configured, request, status, submitted, issued, completed,
                     chunks, hw, moved, pending, head, called, mishap>>
      /\ bits' = raw /\ raw' = {} /\ isr' = IF "DONE" \in raw THEN "done" ELSE "abort"
  BY DEF IsrRead, chan, lists, tasklet
<1>6. Stopped'
  BY <1>4, <1>5 DEF Stopped, IsrRead
<1>7. Issued(d)' /\ call' = call
  BY <1>4, <1>5, <1>6 DEF Issued, client_
<1>8. (done = 0 /\ Waiting(call[t].my))'
  BY <1>2, <1>3, <1>5, <1>7 DEF Waiting
<1> QED
  BY <1>2, <1>5, <1>8, StationRounds

LEMMA DoneRounds ==
  ASSUME ListInv, Rounds, mtdma_done_interrupt
  PROVE  Rounds'
<1>1. ~Resting
  BY DEF mtdma_done_interrupt, Resting
<1>2. PICK t \in Threads : /\ pc[t] = "wait" /\ done = 0 /\ submitted = <<>>
                           /\ call[t].my \in Nat /\ call[t].sgs \in Sgs
                           /\ Waiting(call[t].my) /\ Transfer(call[t].my, call[t].sgs)
  BY <1>1, TheWaiter
<1>3. PICK d \in Nat, n \in Sgs : d = call[t].my /\ n = call[t].sgs
  BY <1>2
<1>4. /\ Issued(d) /\ hw = NoHw /\ raw = {} /\ bits = {"DONE"} /\ isr = "done"
  BY <1>2, <1>3 DEF mtdma_done_interrupt, Waiting, Issued, Aborted, Ended, Taken, Resting,
                    Running, Stopped
<1>5. /\ issued = <<d>> /\ completed = <<>> /\ head = <<>> /\ pending = "no" /\ request = "NONE"
      /\ status = "BUSY"
  BY <1>4 DEF Issued
<1>6. /\ isr' = "idle" /\ bits' = {}
      /\ UNCHANGED <<client_, done, configured, moved, head, called, submitted>>
  BY <1>4, <1>5, Singleton DEF mtdma_done_interrupt, IsrNext, chan, lists
<1>7. Moves(t) /\ Inside(t) /\ call' = call /\ pc'[t] = "wait"
  BY <1>2, <1>6, OthersStay
<1>8. CASE chunks[d] # <<>>
  <2>1. /\ status' = "BUSY" /\ mtdma_start_transfer(<<d>>)
        /\ UNCHANGED <<request, issued, completed, pending>>
    BY <1>5, <1>8, Singleton DEF mtdma_done_interrupt
  <2>2. /\ Transfer(d, n)' /\ EngineTypes' /\ hw'.busy /\ hw'.d = d /\ raw' = {}
        /\ mishap' = mishap
    <3>1. n \in Nat /\ EngineTypes /\ UNCHANGED moved /\ Transfer(d, n)
      BY <1>2, <1>3, <1>6, MtdmaAssumption DEF Rounds
    <3> QED
      BY <1>4, <1>8, <2>1, <3>1, StartChunk
  <2>3. Issued(d)'
    BY <1>5, <1>6, <2>1, <2>2 DEF Issued, Running
  <2>4. (done = 0 /\ Waiting(call[t].my))' /\ Transfer(call[t].my, call[t].sgs)'
    BY <1>2, <1>3, <1>6, <1>7, <2>2, <2>3 DEF Waiting
  <2> QED
    BY <1>2, <1>6, <1>7, <2>2, <2>4, WaitRounds
<1>9. CASE chunks[d] = <<>>
  <2>1. /\ Complete /\ status' = "IDLE" /\ request' = "NONE"
        /\ UNCHANGED <<chunks, hw, raw, mishap>>
    BY <1>5, <1>9, Singleton DEF mtdma_done_interrupt
  <2>2. issued' = <<>> /\ completed' = <<d>> /\ pending' = "old"
    BY <1>5, <1>6, <2>1, Singleton DEF Complete, Scheduled
  <2>3. Ended(d)'
    BY <1>4, <1>5, <1>6, <1>9, <2>1, <2>2 DEF Ended, Resting, AllStarted, NoHw
  <2>4. (done = 0 /\ Waiting(call[t].my))'
    BY <1>2, <1>3, <1>6, <1>7, <2>3 DEF Waiting
  <2> QED
    BY <1>2, <1>6, <2>1, <2>4, StationRounds
<1> QED
  BY <1>8, <1>9

LEMMA AbortRounds ==
  ASSUME ListInv, Rounds, mtdma_abort_interrupt
  PROVE  Rounds'
<1>1. ~Resting
  BY DEF mtdma_abort_interrupt, Resting
<1>2. PICK t \in Threads : /\ pc[t] = "wait" /\ done = 0 /\ submitted = <<>>
                           /\ call[t].my \in Nat /\ call[t].sgs \in Sgs
                           /\ Waiting(call[t].my) /\ Transfer(call[t].my, call[t].sgs)
  BY <1>1, TheWaiter
<1>3. PICK d \in Nat : d = call[t].my
  BY <1>2
<1>4. Issued(d) /\ hw = NoHw /\ raw = {} /\ "error" \in mishap
  BY <1>2, <1>3 DEF mtdma_abort_interrupt, Waiting, Issued, Aborted, Ended, Taken, Resting,
                    Running, Stopped
<1>5. /\ issued = <<d>> /\ completed = <<>> /\ head = <<>> /\ pending = "no"
  BY <1>4 DEF Issued
<1>6. /\ isr' = "reset" /\ bits' = {} /\ Complete
      /\ UNCHANGED <<client_, done, chunks, hw, raw, moved, head, called, submitted, mishap>>
  BY <1>5, Singleton DEF mtdma_abort_interrupt, engine
<1>7. issued' = <<>> /\ completed' = <<d>> /\ pending' = "new"
  BY <1>5, <1>6, Singleton DEF Complete, Scheduled
<1>8. Aborted(d)' /\ call' = call
  BY <1>4, <1>5, <1>6, <1>7 DEF Aborted, NoHw, client_
<1>9. (done = 0 /\ Waiting(call[t].my))'
  BY <1>2, <1>3, <1>6, <1>8 DEF Waiting
<1> QED
  BY <1>2, <1>6, <1>9, StationRounds

LEMMA ResetRounds ==
  ASSUME ListInv, Rounds, AbortReset
  PROVE  Rounds'
<1>1. ~Resting
  BY DEF AbortReset, Resting
<1>2. PICK t \in Threads : /\ pc[t] = "wait" /\ done = 0 /\ submitted = <<>>
                           /\ call[t].my \in Nat /\ call[t].sgs \in Sgs
                           /\ Waiting(call[t].my) /\ Transfer(call[t].my, call[t].sgs)
  BY <1>1, TheWaiter
<1>3. PICK d \in Nat : d = call[t].my
  BY <1>2
<1>4. Aborted(d)
  BY <1>2, <1>3 DEF AbortReset, Waiting, Issued, Ended, Taken, Resting, Running, Stopped
<1>5. /\ isr' = "idle" /\ request' = "NONE" /\ status' = "IDLE"
      /\ pending' = IF pending = "new" THEN "old" ELSE pending
      /\ UNCHANGED <<client_, done, issued, completed, chunks, hw, raw, moved, bits, head, called,
                     submitted, mishap>>
  BY DEF AbortReset, lists, engine
<1>6. Ended(d)' /\ call' = call
  BY <1>4, <1>5 DEF Ended, Aborted, Resting, AllStarted, NoHw, client_
<1>7. (done = 0 /\ Waiting(call[t].my))'
  BY <1>2, <1>3, <1>5, <1>6 DEF Waiting
<1> QED
  BY <1>2, <1>5, <1>7, StationRounds

LEMMA TaskletRounds ==
  ASSUME ListInv, Rounds, Splice \/ Callback
  PROVE  Rounds'
<1>1. ~Empty
  BY DEF Splice, Callback, Empty
<1>2. PICK t \in Threads : /\ pc[t] = "wait" /\ done = 0 /\ submitted = <<>>
                           /\ call[t].my \in Nat /\ call[t].sgs \in Sgs
                           /\ Waiting(call[t].my) /\ Transfer(call[t].my, call[t].sgs)
  BY <1>1, TheWaiter
<1>3. PICK d \in Nat : d = call[t].my
  BY <1>2
<1>4. /\ UNCHANGED <<client_, configured, request, status, issued, submitted, chunks, hw, raw,
                     moved, isr, bits, mishap>>
      /\ call' = call
  BY DEF Splice, Callback, chan, engine, handler, client_
<1>5. CASE Splice
  <2>1. Ended(d)
    BY <1>2, <1>3, <1>5 DEF Splice, Waiting, Issued, Aborted, Taken
  <2>2. head' = completed /\ completed' = <<>> /\ pending' = "no" /\ UNCHANGED <<done, called>>
    BY <1>5 DEF Splice
  <2>3. Taken(d)'
    BY <1>4, <2>1, <2>2 DEF Ended, Taken, Resting, AllStarted
  <2>4. (done = 0 /\ Waiting(call[t].my))'
    BY <1>2, <1>3, <1>4, <2>2, <2>3 DEF Waiting
  <2> QED
    BY <1>2, <1>4, <2>4, StationRounds
<1>6. CASE Callback
  <2>1. Taken(d)
    BY <1>2, <1>3, <1>6 DEF Callback, Waiting, Issued, Aborted, Ended
  <2>2. /\ head' = <<>> /\ called' = Append(called, d) /\ done' = 1
        /\ UNCHANGED <<completed, pending>>
    BY <1>2, <1>6, <2>1, Singleton DEF Callback, Taken, mtdma_test_callback
  <2>3. CalledLast(d)'
    <3>1. /\ called' # <<>> /\ Len(called') = Len(called) + 1
          /\ called'[Len(called) + 1] = d
      <4>1. called \in Seq(Nat)
        BY DEF ListInv, Types
      <4>2. /\ Append(called, d) # <<>> /\ Len(Append(called, d)) = Len(called) + 1
            /\ Append(called, d)[Len(called) + 1] = d
        BY <4>1, AppendProperties
      <4> QED
        BY <2>2, <4>2
    <3> QED
      BY <3>1 DEF CalledLast
  <2>4. Woken(d)'
    BY <1>4, <2>1, <2>2, <2>3 DEF Taken, Woken, Resting, Empty, AllStarted
  <2>5. (done = 1 /\ Woken(call[t].my))'
    BY <1>3, <1>4, <2>2, <2>4
  <2> QED
    BY <1>2, <1>4, <2>5, StationRounds
<1> QED
  BY <1>5, <1>6
-----------------------------------------------------------------------------
(* Other clients leave a callback behind only when a wait of theirs timed out. *)

LateInv == late \in Nat /\ (late > 0 => ~Calm)

ChanInv == ListInv /\ LateInv /\ RoundInv

LEMMA InitLate == Init => LateInv
  BY DEF Init, emu_mtdma_init, LateInv

LEMMA InitChan == Init => ChanInv
  BY InitList, InitLate, InitRounds DEF ChanInv, RoundInv

Station ==
  <<pc, call, done, configured, request, status, submitted, issued, completed, chunks, hw, raw,
    moved, isr, bits, pending, head, called, mishap>>

LEMMA StutterRounds == UNCHANGED Station => Rounds' = Rounds
<1> SUFFICES ASSUME UNCHANGED Station PROVE Rounds' = Rounds
  OBVIOUS
<1>1. UNCHANGED <<pc, call, done, configured, request, status, submitted, issued, completed,
                  chunks, hw, raw, moved, isr, bits, pending, head, called, mishap>>
  BY DEF Station
<1> QED
  BY <1>1 DEF Rounds, EngineTypes, Round, Inside, Between, Resting, Empty, Transfer, Waiting,
              Woken, Issued, Running, Stopped, Aborted, Ended, Taken, AllStarted, CalledLast,
              Chunks, Bursts

\* The rounds are kept as long as no wait times out, when the engine raises one
\* bit at a time or has not reported an error.
LEMMA NextRounds ==
  ASSUME ListInv, ListInv', late = 0, Rounds, [Next]_vars, OneAtATime \/ mishap' = {}
  PROVE  Calm' => Rounds'
<1> SUFFICES ASSUME Calm' PROVE Rounds'
  OBVIOUS
<1>1. CASE UNCHANGED vars
  <2>1. UNCHANGED Station
    BY <1>1 DEF vars, client_, chan, lists, engine, handler, tasklet, Station
  <2> QED
    BY <2>1, StutterRounds
<1>2. CASE Others
  <2>1. UNCHANGED <<done, mishap>>
    BY <1>2 DEF Others, OthersDown, OthersUp, OthersCallback, Calm
  <2>2. UNCHANGED Station
    BY <1>2, <2>1, OthersApart DEF Apart, chan, engine, handler, Station
  <2> QED
    BY <2>2, StutterRounds
<1>3. CASE Next /\ ~Others
  BY <1>3, EnterRounds, ThreadRounds, StopRounds, ReadRounds, DoneRounds, AbortRounds,
     ResetRounds, TaskletRounds DEF Next, Isr
<1> QED
  BY <1>1, <1>2, <1>3

\* What went wrong once is not forgotten.
LEMMA MishapsStay == [Next]_vars => mishap \subseteq mishap'
<1> SUFFICES ASSUME [Next]_vars PROVE mishap \subseteq mishap'
  OBVIOUS
<1>1. CASE UNCHANGED mishap
  BY <1>1
<1>2. CASE \E e : mishap' = mishap \cup {e}
  BY <1>2
<1>3. CASE Others
  BY <1>1, <1>2, <1>3 DEF Others, OthersDown, OthersUp, OthersCallback, tasklet
<1> QED
  BY <1>1, <1>2, <1>3 DEF Next, MtdmaRw, ThreadStep, Setup, Down, DownInterrupted, Begin,
     LoopEnd, Prep, vchan_tx_submit, mtdma_device_issue_pending, WaitDone, WaitTimeout,
     TermRead, TermHw, TermIdle, TermStop, TermEnd, HwStop, Isr, IsrRead,
     mtdma_done_interrupt, mtdma_abort_interrupt, AbortReset, Splice, Callback,
     mtdma_start_transfer, mtdma_v0_core_start, vars

\* Only the other clients touch the number of their callbacks.
LEMMA LateStays == [Next]_vars => UNCHANGED late \/ OthersUp \/ OthersCallback
  BY DEF Next, MtdmaRw, ThreadStep, Setup, Down, DownInterrupted, Begin, LoopEnd, Prep,
     vchan_tx_submit, mtdma_device_issue_pending, WaitDone, WaitTimeout, TermRead, TermHw,
     TermIdle, TermStop, TermEnd, HwStop, Isr, IsrRead, mtdma_done_interrupt,
     mtdma_abort_interrupt, AbortReset, Splice, Callback, Others, OthersDown, client_, others,
     vars

LEMMA NextLate == LateInv /\ [Next]_vars => LateInv'
<1> SUFFICES ASSUME LateInv, [Next]_vars PROVE LateInv'
  OBVIOUS
<1>1. mishap \subseteq mishap'
  BY MishapsStay
<1>2. CASE UNCHANGED late
  BY <1>1, <1>2 DEF LateInv, Calm
<1>3. CASE OthersUp
  <2>1. CASE UNCHANGED <<late, mishap>>
    BY <1>2, <2>1
  <2>2. CASE late' = late + 1 /\ mishap' = mishap \cup {"timeout"}
    BY <2>2 DEF LateInv, Calm
  <2> QED
    BY <1>3, <2>1, <2>2 DEF OthersUp
<1>4. CASE OthersCallback
  BY <1>1, <1>4 DEF OthersCallback, LateInv, Calm
<1> QED
  BY <1>2, <1>3, <1>4, LateStays

LEMMA NextChan == OneAtATime /\ ChanInv /\ [Next]_vars => ChanInv'
<1> SUFFICES ASSUME OneAtATime, ChanInv, [Next]_vars PROVE ChanInv'
  OBVIOUS
<1>1. ListInv /\ ListInv'
  BY StepRefines DEF ChanInv
<1>2. Calm' => Calm
  BY MishapsStay DEF Calm
<1>3. LateInv' /\ (Calm => late = 0)
  BY NextLate DEF ChanInv, LateInv
<1> QED
  BY <1>1, <1>2, <1>3, NextRounds DEF ChanInv, RoundInv

\* When the engine raises one bit at a time: as long as no wait has timed out,
\* mtdma_v0_core_start is never called while the engine runs, and what it runs is
\* the first issued descriptor of a channel that is marked busy.
THEOREM EngineIsOwned == OneAtATime => (Spec => []HwOwned)
<1> SUFFICES ASSUME OneAtATime PROVE Spec => []HwOwned
  OBVIOUS
<1>1. ChanInv => HwOwned
  <2> SUFFICES ASSUME ListInv, Rounds PROVE HwOwned
    BY DEF ChanInv, RoundInv, Calm, HwOwned
  <2>1. "clobber" \notin mishap
    BY DEF Rounds
  <2>2. ASSUME hw.busy PROVE status = "BUSY" /\ issued # <<>> /\ Head(issued) = hw.d
    <3>1. ~Resting
      BY <2>2 DEF Resting, NoHw
    <3>2. PICK t \in Threads : call[t].my \in Nat /\ Waiting(call[t].my)
      BY <3>1, TheWaiter
    <3>3. Issued(call[t].my) /\ hw.d = call[t].my
      BY <2>2, <3>2 DEF Waiting, Issued, Running, Stopped, Aborted, Ended, Taken, Resting, NoHw
    <3> QED
      BY <3>2, <3>3, Singleton DEF Issued
  <2> QED
    BY <2>1, <2>2 DEF HwOwned
<1>2. ChanInv /\ [Next]_vars => ChanInv'
  BY NextChan
<1> QED
  BY <1>1, <1>2, InitChan, PTL DEF Spec

\* When the engine raises one bit at a time: a round of emu_dma_rw that
\* wait_for_completion_timeout ended in time was woken by the callback of its own
\* descriptor, and unless the engine reported an error every burst of the
\* scatterlist has been moved by then.
THEOREM SuccessIsOwn == OneAtATime => (Spec => []OwnSuccess)
<1> SUFFICES ASSUME OneAtATime PROVE Spec => []OwnSuccess
  OBVIOUS
<1>1. ChanInv => OwnSuccess
  BY DEF ChanInv, RoundInv, Calm, Rounds, Round, CalledLast, OwnSuccess
<1>2. ChanInv /\ [Next]_vars => ChanInv'
  BY NextChan
<1> QED
  BY <1>1, <1>2, InitChan, PTL DEF Spec
-----------------------------------------------------------------------------
(***************************************************************************)
(* The order of the descriptors on the five lists and the two cookies that *)
(* follow it, whatever times out and whatever the engine reports.          *)
(***************************************************************************)
Counts(s, k) == \A i \in 1 .. Len(s) : s[i] = k + i

Out      == Len(called) + Len(head)
Over     == Out + Len(completed)
Reached  == Over + Len(issued)

Order ==
  /\ Counts(called, 0) /\ Counts(head, Len(called)) /\ Counts(completed, Out)
  /\ Counts(issued, Over) /\ Counts(submitted, Reached)
  /\ cookie = Accounted + 1 /\ completed_cookie = Over + 1

LEMMA CountsAppend ==
  ASSUME NEW s \in Seq(Nat), NEW k \in Nat, Counts(s, k), NEW x, x = k + Len(s) + 1
  PROVE  Counts(Append(s, x), k) /\ Len(Append(s, x)) = Len(s) + 1
<1>1. x \in Nat
  OBVIOUS
<1> DEFINE u == Append(s, x)
<1>2. /\ Len(u) = Len(s) + 1 /\ u[Len(s) + 1] = x
      /\ \A i \in 1 .. Len(s) : u[i] = s[i]
  BY <1>1, AppendProperties
<1> HIDE DEF u
<1>3. ASSUME NEW i \in 1 .. Len(u) PROVE u[i] = k + i
  <2>1. CASE i \in 1 .. Len(s)
    BY <1>2, <2>1 DEF Counts
  <2>2. CASE i = Len(s) + 1
    BY <1>2, <2>2
  <2> QED
    BY <1>2, <2>1, <2>2
<1>4. Counts(u, k)
  BY <1>3 DEF Counts
<1> QED
  BY <1>2, <1>4 DEF u

LEMMA CountsTail ==
  ASSUME NEW s \in Seq(Nat), NEW k \in Nat, Counts(s, k), s # <<>>
  PROVE  Head(s) = k + 1 /\ Counts(Tail(s), k + 1) /\ Len(Tail(s)) = Len(s) - 1 /\ Len(s) > 0
<1> DEFINE u == Tail(s)
<1>1. /\ Head(s) = s[1] /\ Len(u) = Len(s) - 1 /\ Len(s) \in Nat \ {0}
      /\ \A i \in 1 .. Len(u) : u[i] = s[i + 1]
  BY HeadTailProperties, EmptySeq
<1> HIDE DEF u
<1>2. ASSUME NEW i \in 1 .. Len(u) PROVE u[i] = (k + 1) + i
  <2>1. i + 1 \in 1 .. Len(s) /\ u[i] = s[i + 1]
    BY <1>1
  <2> QED
    BY <2>1 DEF Counts
<1>3. Head(s) = k + 1
  BY <1>1 DEF Counts
<1>4. Counts(u, k + 1)
  BY <1>2 DEF Counts
<1> QED
  BY <1>1, <1>3, <1>4 DEF u

LEMMA CountsConcat ==
  ASSUME NEW s \in Seq(Nat), NEW u \in Seq(Nat), NEW k \in Nat, NEW l, l = k + Len(s),
         Counts(s, k), Counts(u, l)
  PROVE  Counts(s \o u, k) /\ Len(s \o u) = Len(s) + Len(u)
<1> DEFINE v == s \o u
<1>1. /\ Len(v) = Len(s) + Len(u)
      /\ \A i \in 1 .. Len(s) + Len(u) : v[i] = IF i <= Len(s) THEN s[i] ELSE u[i - Len(s)]
  BY ConcatProperties
<1> HIDE DEF v
<1>2. ASSUME NEW i \in 1 .. Len(v) PROVE v[i] = k + i
  <2>1. CASE i <= Len(s)
    BY <1>1, <2>1, SMTT(30) DEF Counts
  <2>2. CASE ~(i <= Len(s))
    <3>1. v[i] = u[i - Len(s)] /\ i - Len(s) \in 1 .. Len(u)
      BY <1>1, <2>2
    <3>2. u[i - Len(s)] = l + (i - Len(s))
      BY <3>1 DEF Counts
    <3> QED
      BY <3>1, <3>2
  <2> QED
    BY <2>1, <2>2
<1>3. Counts(v, k)
  BY <1>2 DEF Counts
<1> QED
  BY <1>1, <1>3 DEF v

LEMMA InitOrder == Init => Order
  BY DEF Init, vchan_init, dma_cookie_init, Order, Counts, Out, Over, Reached, Accounted

LEMMA ListLengths ==
  ASSUME Types
  PROVE  /\ Len(called) \in Nat /\ Len(head) \in Nat /\ Len(completed) \in Nat
         /\ Len(issued) \in Nat /\ Len(submitted) \in Nat /\ Len(chunks) \in Nat
         /\ Out \in Nat /\ Over \in Nat /\ Reached \in Nat /\ Accounted \in Nat
         /\ Accounted = Reached + Len(submitted)
  BY DEF Types, Out, Over, Reached, Accounted

\* A finished descriptor takes its place behind the finished ones, and its cookie
\* becomes the completed one.
LEMMA CompleteOrder ==
  ASSUME ListInv, Order, Complete, issued # <<>>, UNCHANGED <<submitted, head, called>>
  PROVE  Order'
<1>1. /\ completed_cookie' = Head(issued) + 1 /\ cookie' = cookie
      /\ issued' = Tail(issued) /\ completed' = Append(completed, Head(issued))
  BY DEF Complete, dma_cookie_complete
<1>2. /\ Head(issued) = Over + 1 /\ Counts(Tail(issued), Over + 1)
      /\ Len(Tail(issued)) = Len(issued) - 1
  BY ListLengths, CountsTail DEF Order, ListInv, Types
<1>3. Head(issued) = Out + Len(completed) + 1
  BY <1>2 DEF Over
<1>4. Counts(completed', Out) /\ Len(completed') = Len(completed) + 1
  BY <1>1, <1>3, ListLengths, CountsAppend, SMTT(30) DEF Order, ListInv, Types
<1>5. Out' = Out /\ Over' = Over + 1 /\ Reached' = Reached /\ Accounted' = Accounted
  BY <1>1, <1>2, <1>4, ListLengths DEF Out, Over, Reached, Accounted, ListInv
<1> QED
  BY <1>1, <1>2, <1>4, <1>5 DEF Order

LEMMA SubmitOrder ==
  ASSUME ListInv, Order, NEW t \in Threads, vchan_tx_submit(t)
  PROVE  Order'
<1>1. /\ submitted' = Append(submitted, call[t].my) /\ cookie' = cookie + 1
      /\ call[t].my = Accounted + 1
      /\ UNCHANGED <<issued, completed, completed_cookie, head, called>>
  BY DEF vchan_tx_submit, dma_cookie_assign, tasklet, ListInv, Numbered
<1>2. call[t].my = Reached + Len(submitted) + 1
  BY <1>1, ListLengths DEF ListInv
<1>3. Counts(submitted', Reached) /\ Len(submitted') = Len(submitted) + 1
  BY <1>1, <1>2, ListLengths, CountsAppend, SMTT(30) DEF Order, ListInv, Types
<1>4. Out' = Out /\ Over' = Over /\ Reached' = Reached /\ Accounted' = Accounted + 1
  BY <1>1, <1>3, ListLengths DEF Out, Over, Reached, Accounted, ListInv
<1>5. cookie' = Accounted' + 1
  BY <1>1, <1>4, ListLengths DEF Order, ListInv
<1> QED
  BY <1>1, <1>3, <1>4, <1>5 DEF Order

LEMMA IssueOrder ==
  ASSUME ListInv, Order, NEW t \in Threads, mtdma_device_issue_pending(t)
  PROVE  Order'
<1>1. UNCHANGED <<completed, cookies, head, called>>
  BY DEF mtdma_device_issue_pending, tasklet
<1>2. CASE vchan_issue_pending
  <2>1. issued' = issued \o submitted /\ submitted' = <<>>
    BY <1>2 DEF vchan_issue_pending
  <2>2. Counts(issued', Over) /\ Len(issued') = Len(issued) + Len(submitted)
    BY <2>1, ListLengths, CountsConcat DEF Order, Reached, ListInv, Types
  <2>3. Len(submitted') = 0 /\ Counts(submitted', Reached')
    BY <2>1 DEF Counts
  <2>4. Out' = Out /\ Over' = Over /\ Accounted' = Accounted
    BY <1>1, <2>2, <2>3, ListLengths DEF Out, Over, Accounted, ListInv
  <2> QED
    BY <1>1, <2>2, <2>3, <2>4 DEF Order, cookies
<1>3. CASE UNCHANGED <<submitted, issued>>
  BY <1>1, <1>3 DEF Order, Counts, cookies, Out, Over, Reached, Accounted
<1> QED
  BY <1>2, <1>3 DEF mtdma_device_issue_pending

LEMMA TaskletOrder ==
  ASSUME ListInv, Order, Splice \/ Callback
  PROVE  Order'
<1>1. UNCHANGED <<submitted, issued, cookies>>
  BY DEF Splice, Callback
<1>2. CASE Splice
  <2>1. /\ head = <<>> /\ head' = completed /\ completed' = <<>> /\ called' = called
    BY <1>2 DEF Splice
  <2>2. Len(head) = 0 /\ Len(completed') = 0 /\ Counts(completed', Out')
    BY <2>1 DEF Counts
  <2>3. Out = Len(called) /\ Over' = Over /\ Reached' = Reached /\ Accounted' = Accounted
    BY <1>1, <2>1, <2>2, ListLengths DEF Out, Over, Reached, Accounted, ListInv
  <2> QED
    BY <1>1, <2>1, <2>2, <2>3 DEF Order, cookies
<1>3. CASE Callback
  <2>1. /\ head # <<>> /\ head' = Tail(head) /\ called' = Append(called, Head(head))
        /\ completed' = completed
    BY <1>3 DEF Callback
  <2>2. /\ Head(head) = Len(called) + 1 /\ Counts(Tail(head), Len(called) + 1)
        /\ Len(Tail(head)) = Len(head) - 1
    BY <2>1, ListLengths, CountsTail DEF Order, ListInv, Types
  <2>3. Head(head) = 0 + Len(called) + 1 /\ 0 \in Nat
    BY <2>2, ListLengths DEF ListInv
  <2>4. Counts(called', 0) /\ Len(called') = Len(called) + 1
    BY <2>1, <2>3, CountsAppend DEF Order, ListInv, Types
  <2>5. Out' = Out /\ Over' = Over /\ Reached' = Reached /\ Accounted' = Accounted
    BY <1>1, <2>1, <2>2, <2>4, ListLengths DEF Out, Over, Reached, Accounted, ListInv
  <2> QED
    BY <1>1, <2>1, <2>2, <2>4, <2>5 DEF Order, cookies
<1> QED
  BY <1>2, <1>3

\* A step that touches neither the lists nor the cookies
LEMMA QuietOrder == Order /\ Stutter /\ UNCHANGED cookies => Order'
  BY DEF Order, Counts, Stutter, cookies, Out, Over, Reached, Accounted

LEMMA ThreadOrder ==
  ASSUME ListInv, Order, NEW t \in Threads, MtdmaRw(t) \/ ThreadStep(t) \/ DownInterrupted(t)
  PROVE  Order'
<1>1. CASE vchan_tx_submit(t)
  BY <1>1, SubmitOrder
<1>2. CASE mtdma_device_issue_pending(t)
  BY <1>2, IssueOrder
<1>3. CASE MtdmaRw(t) \/ Setup(t) \/ Down(t) \/ DownInterrupted(t) \/ Begin(t) \/ LoopEnd(t)
           \/ Prep(t)
  BY <1>3, QuietOrder DEF MtdmaRw, Setup, Down, DownInterrupted, Begin, LoopEnd, Prep, Stutter,
                          lists, tasklet
<1>4. CASE WaitDone(t) \/ WaitTimeout(t) \/ TermRead(t) \/ TermHw(t) \/ TermIdle(t)
           \/ TermStop(t) \/ TermEnd(t)
  BY <1>4, QuietOrder DEF WaitDone, WaitTimeout, TermRead, TermHw, TermIdle, TermStop, TermEnd,
                          Stutter, lists, tasklet
<1> QED
  BY <1>1, <1>2, <1>3, <1>4 DEF ThreadStep

LEMMA NextOrder == ListInv /\ Order /\ [Next]_vars => Order'
<1> SUFFICES ASSUME ListInv, Order, [Next]_vars PROVE Order'
  OBVIOUS
<1>1. CASE \E t \in Threads : MtdmaRw(t) \/ ThreadStep(t) \/ DownInterrupted(t)
  BY <1>1, ThreadOrder
<1>2. CASE HwStop \/ IsrRead \/ AbortReset \/ UNCHANGED vars
  BY <1>2, QuietOrder DEF HwStop, IsrRead, AbortReset, vars, Stutter, lists, tasklet
<1>3. CASE mtdma_done_interrupt
  <2>1. UNCHANGED <<submitted, head, called>>
    BY <1>3 DEF mtdma_done_interrupt, lists
  <2>2. CASE UNCHANGED <<issued, completed, cookies>>
    BY <2>1, <2>2, QuietOrder DEF Stutter
  <2>3. CASE Complete /\ issued # <<>>
    BY <2>1, <2>3, CompleteOrder
  <2> QED
    BY <1>3, <2>2, <2>3 DEF mtdma_done_interrupt, lists
<1>4. CASE mtdma_abort_interrupt
  <2>1. UNCHANGED <<submitted, head, called>>
    BY <1>4 DEF mtdma_abort_interrupt
  <2>2. CASE UNCHANGED <<issued, completed, cookies>>
    BY <2>1, <2>2, QuietOrder DEF Stutter
  <2>3. CASE Complete /\ issued # <<>>
    BY <2>1, <2>3, CompleteOrder
  <2> QED
    BY <1>4, <2>2, <2>3 DEF mtdma_abort_interrupt
<1>5. CASE Splice \/ Callback
  BY <1>5, TaskletOrder
<1>6. CASE Others
  <2>1. Stutter /\ UNCHANGED cookies
    BY <1>6, OthersApart DEF Apart, Stutter
  <2> QED
    BY <2>1, QuietOrder
<1> QED
  BY <1>1, <1>2, <1>3, <1>4, <1>5, <1>6 DEF Next, Isr
-----------------------------------------------------------------------------
(* The objects of the descriptors *)

Objects(cs) == [i \in DOMAIN cs |-> ChunkObjects(cs[i])]

LEMMA ObjectsType ==
  ASSUME NEW cs \in Seq(Nat)
  PROVE  /\ Objects(cs) \in Seq(Nat) /\ Len(Objects(cs)) = Len(cs)
         /\ \A i \in 1 .. Len(cs) : Objects(cs)[i] = 2 + cs[i]
         /\ mtdma_free_desc(cs) = 2 + Total(Objects(cs)) /\ mtdma_free_desc(cs) \in Nat
<1> DEFINE o == Objects(cs)
<1>1. o = [i \in 1 .. Len(cs) |-> 2 + cs[i]] /\ Len(cs) \in Nat
  BY DEF Objects, ChunkObjects
<1>2. \A i \in 1 .. Len(cs) : 2 + cs[i] \in Nat
  BY ElementOfSeq
<1> HIDE DEF o
<1>3. o \in Seq(Nat) /\ Len(o) = Len(cs) /\ \A i \in 1 .. Len(cs) : o[i] = 2 + cs[i]
  BY <1>1, <1>2, SeqDef
<1>4. mtdma_free_desc(cs) = 2 + Total(o)
  BY DEF mtdma_free_desc, o, Objects
<1>5. Total(o) \in Nat
  BY <1>3, TotalType
<1> QED
  BY <1>3, <1>4, <1>5 DEF o

\* A chunk that is started takes its objects with it.
LEMMA DescTail ==
  ASSUME NEW cs \in Seq(Nat), cs # <<>>
  PROVE  mtdma_free_desc(cs) = mtdma_free_desc(Tail(cs)) + ChunkObjects(Head(cs))
<1> DEFINE o == Objects(cs)
           u == Objects(Tail(cs))
<1>1. /\ Tail(cs) \in Seq(Nat) /\ Len(Tail(cs)) = Len(cs) - 1 /\ Head(cs) = cs[1]
      /\ Head(cs) \in Nat /\ Len(cs) \in Nat \ {0}
      /\ \A i \in 1 .. Len(Tail(cs)) : Tail(cs)[i] = cs[i + 1]
  BY HeadTailProperties, EmptySeq
<1>2. /\ o \in Seq(Nat) /\ Len(o) = Len(cs) /\ \A i \in 1 .. Len(cs) : o[i] = 2 + cs[i]
      /\ mtdma_free_desc(cs) = 2 + Total(o)
  BY ObjectsType
<1>3. /\ u \in Seq(Nat) /\ Len(u) = Len(cs) - 1
      /\ \A i \in 1 .. Len(cs) - 1 : u[i] = 2 + Tail(cs)[i]
      /\ mtdma_free_desc(Tail(cs)) = 2 + Total(u)
  BY <1>1, ObjectsType
<1> HIDE DEF o, u
<1>4. /\ o # <<>> /\ Head(o) = 2 + Head(cs) /\ Tail(o) \in Seq(Nat) /\ Len(Tail(o)) = Len(cs) - 1
      /\ \A i \in 1 .. Len(cs) - 1 : Tail(o)[i] = o[i + 1]
  <2>1. o # <<>>
    BY <1>1, <1>2
  <2>2. /\ Head(o) = o[1] /\ Tail(o) \in Seq(Nat) /\ Len(Tail(o)) = Len(o) - 1
        /\ \A i \in 1 .. Len(Tail(o)) : Tail(o)[i] = o[i + 1]
    BY <1>2, <2>1, HeadTailProperties
  <2> QED
    BY <1>1, <1>2, <2>1, <2>2
<1>5. Tail(o) = u
  <2>1. \A i \in 1 .. Len(Tail(o)) : Tail(o)[i] = u[i]
    BY <1>1, <1>2, <1>3, <1>4
  <2> QED
    BY <1>3, <1>4, <2>1, SeqEqual
<1>6. Total(o) = (2 + Head(cs)) + Total(u) /\ Total(u) \in Nat
  BY <1>2, <1>4, <1>5, TotalTail
<1> QED
  BY <1>1, <1>2, <1>3, <1>6 DEF ChunkObjects

\* What a failed allocation leaves behind: nothing.
LEMMA FreedAll == \A k \in Nat : Freed(k) = k
<1> SUFFICES ASSUME NEW k \in Nat, ~(k < 2) PROVE Freed(k) = k
  BY DEF Freed
<1> DEFINE c == ChunkObjects(LlMax)
           whole == (k - 2) \div c
           rest == (k - 2) % c
           front == [i \in 1 .. whole |-> LlMax]
           last == IF rest >= 2 THEN <<rest - 2>> ELSE <<>>
           all == front \o last
<1>1. LlMax \in Nat /\ c \in Nat /\ c = 2 + LlMax /\ c > 0 /\ k - 2 \in Nat
  BY MtdmaAssumption DEF ChunkObjects
<1>2. Freed(k) = mtdma_free_desc(all) + (IF rest = 1 THEN 1 ELSE 0)
  BY DEF Freed, Built
<1> HIDE DEF c
<1>3. whole \in Nat /\ rest \in 0 .. c - 1 /\ k - 2 = (c * whole) + rest
  BY <1>1
<1> HIDE DEF whole, rest
<1>4. front \in Seq(Nat) /\ Len(front) = whole /\ \A i \in 1 .. whole : front[i] = LlMax
  BY <1>1, <1>3, SeqDef
<1>5. mtdma_free_desc(front) = 2 + whole * c
  <2>1. /\ Objects(front) \in Seq(Nat) /\ Len(Objects(front)) = whole
        /\ \A i \in 1 .. whole : Objects(front)[i] = c
        /\ mtdma_free_desc(front) = 2 + Total(Objects(front))
    <3> HIDE DEF front
    <3> QED
      BY <1>1, <1>4, ObjectsType
  <2>2. \A i \in 1 .. Len(Objects(front)) : Objects(front)[i] = c
    BY <2>1
  <2>3. Total(Objects(front)) = Len(Objects(front)) * c
    BY <1>1, <2>1, <2>2, TotalConst, Zenon
  <2> QED
    BY <2>1, <2>3
<1>6. CASE rest < 2
  <2>1. all = front
    BY <1>3, <1>4, <1>6, ConcatEmptySeq
  <2> HIDE DEF all, front
  <2>2. whole * c = c * whole /\ whole * c \in Nat
    BY <1>1, <1>3
  <2> QED
    BY <1>1, <1>2, <1>3, <1>5, <1>6, <2>1, <2>2
<1>7. CASE rest >= 2
  <2> DEFINE x == rest - 2
  <2>1. x \in Nat
    BY <1>3, <1>7
  <2> HIDE DEF front
  <2>2. all = Append(front, x)
    BY <1>3, <1>4, <1>7, AppendIsConcat
  <2> HIDE DEF all
  <2>3. Objects(all) = Append(Objects(front), 2 + x)
    <3>1. all \in Seq(Nat) /\ Len(all) = whole + 1 /\ all[whole + 1] = x
          /\ \A i \in 1 .. whole : all[i] = front[i]
      BY <1>4, <2>1, <2>2, AppendProperties
    <3>2. /\ Objects(all) \in Seq(Nat) /\ Len(Objects(all)) = whole + 1
          /\ \A i \in 1 .. whole + 1 : Objects(all)[i] = 2 + all[i]
      BY <3>1, ObjectsType
    <3>3. /\ Objects(front) \in Seq(Nat) /\ Len(Objects(front)) = whole
          /\ \A i \in 1 .. whole : Objects(front)[i] = 2 + front[i]
      BY <1>4, ObjectsType
    <3> DEFINE u == Append(Objects(front), 2 + x)
    <3>4. /\ u \in Seq(Nat) /\ Len(u) = whole + 1 /\ u[whole + 1] = 2 + x
          /\ \A i \in 1 .. whole : u[i] = Objects(front)[i]
      BY <2>1, <3>3, AppendProperties
    <3> HIDE DEF u, x
    <3>5. ASSUME NEW i \in 1 .. whole + 1 PROVE Objects(all)[i] = u[i]
      <4>1. Objects(all)[i] = 2 + all[i] /\ whole + 1 \in 1 .. whole + 1
        BY <1>3, <3>2
      <4>2. CASE i = whole + 1
        BY <3>1, <3>4, <4>1, <4>2
      <4>3. CASE i # whole + 1
        <5>1. i \in 1 .. whole
          BY <1>3, <4>3
        <5> QED
          BY <3>1, <3>3, <3>4, <4>1, <5>1
      <4> QED
        BY <4>2, <4>3
    <3>6. Objects(all) = u
      BY <3>2, <3>4, <3>5, SeqEqual
    <3> QED
      BY <3>6 DEF u
  <2>4. /\ mtdma_free_desc(all) = 2 + Total(Objects(all))
        /\ mtdma_free_desc(front) = 2 + Total(Objects(front)) /\ Objects(front) \in Seq(Nat)
    <3>1. all \in Seq(Nat)
      BY <1>4, <2>1, <2>2, AppendProperties
    <3> QED
      BY <1>4, <3>1, ObjectsType
  <2>5. Total(Objects(all)) = Total(Objects(front)) + (2 + x) /\ Total(Objects(front)) \in Nat
    <3>1. 2 + x \in Nat
      BY <2>1
    <3> HIDE DEF x
    <3> QED
      BY <2>3, <2>4, <3>1, TotalAppend, TotalType
  <2>6. whole * c = c * whole /\ whole * c \in Nat
    BY <1>1, <1>3
  <2> DEFINE w == whole * c
             v == Total(Objects(front))
  <2>7. /\ w \in Nat /\ v \in Nat /\ 2 + v = 2 + w /\ k - 2 = w + rest /\ rest \in Nat
        /\ Freed(k) = (2 + (v + (2 + (rest - 2)))) + 0
    BY <1>2, <1>3, <1>5, <1>7, <2>4, <2>5, <2>6
  <2> HIDE DEF v, w
  <2> QED
    BY <2>7
<1> QED
  BY <1>3, <1>6, <1>7
-----------------------------------------------------------------------------
(* The objects that are allocated when the descriptors cks were allocated  *)
(* and ca called back                                                      *)

Back(ca, d) == \E i \in DOMAIN ca : ca[i] = d

Held(cks, ca) == [d \in DOMAIN cks |-> IF Back(ca, d) THEN 0 ELSE mtdma_free_desc(cks[d])]

LEMMA HeldIs ==
  ASSUME NEW cks \in Seq(Seq(Nat)), NEW ca
  PROVE  /\ Held(cks, ca) \in Seq(Nat) /\ Len(Held(cks, ca)) = Len(cks) /\ Len(cks) \in Nat
         /\ Total(Held(cks, ca)) \in Nat
         /\ \A d \in 1 .. Len(cks) :
              Held(cks, ca)[d] = IF Back(ca, d) THEN 0 ELSE mtdma_free_desc(cks[d])
<1> DEFINE h == Held(cks, ca)
<1>1. h = [d \in 1 .. Len(cks) |-> IF Back(ca, d) THEN 0 ELSE mtdma_free_desc(cks[d])]
      /\ Len(cks) \in Nat
  BY LenProperties DEF Held
<1>2. \A d \in 1 .. Len(cks) : mtdma_free_desc(cks[d]) \in Nat
  BY ElementOfSeq, ObjectsType
<1> HIDE DEF h
<1>3. \A d \in 1 .. Len(cks) : (IF Back(ca, d) THEN 0 ELSE mtdma_free_desc(cks[d])) \in Nat
  BY <1>2
<1>4. /\ h \in Seq(Nat) /\ Len(h) = Len(cks)
      /\ \A d \in 1 .. Len(cks) : h[d] = IF Back(ca, d) THEN 0 ELSE mtdma_free_desc(cks[d])
  BY <1>1, <1>3, SeqDef
<1>5. Total(h) \in Nat
  BY <1>4, TotalType
<1> QED
  BY <1>1, <1>4, <1>5 DEF h

\* A chunk of a descriptor not called back is started.
LEMMA HeldStart ==
  ASSUME NEW cks \in Seq(Seq(Nat)), NEW ca, NEW d \in 1 .. Len(cks), ~Back(ca, d),
         cks[d] # <<>>, NEW new, new = [cks EXCEPT ![d] = Tail(cks[d])]
  PROVE  Total(Held(new, ca)) = Total(Held(cks, ca)) - ChunkObjects(Head(cks[d]))
<1> DEFINE cs == cks[d]
           h == Held(cks, ca)
           g == Held(new, ca)
<1>1. cs \in Seq(Nat) /\ Tail(cs) \in Seq(Nat) /\ Head(cs) \in Nat
  <2>1. cs \in Seq(Nat)
    BY ElementOfSeq
  <2> QED
    BY <2>1, HeadTailProperties
<1>2. /\ new \in Seq(Seq(Nat)) /\ Len(new) = Len(cks) /\ new[d] = Tail(cs)
      /\ \A e \in 1 .. Len(cks) : e # d => new[e] = cks[e]
  <2>1. Tail(cs) \in Seq(Nat)
    BY <1>1
  <2>2. new \in Seq(Seq(Nat)) /\ Len(new) = Len(cks)
    BY <2>1, ExceptSeq
  <2> QED
    BY <2>2, LenProperties
<1>3. /\ h \in Seq(Nat) /\ Len(h) = Len(cks) /\ Total(h) \in Nat
      /\ \A e \in 1 .. Len(cks) : h[e] = IF Back(ca, e) THEN 0 ELSE mtdma_free_desc(cks[e])
  BY HeldIs
<1>4. /\ g \in Seq(Nat) /\ Len(g) = Len(new) /\ Total(g) \in Nat
      /\ \A e \in 1 .. Len(new) : g[e] = IF Back(ca, e) THEN 0 ELSE mtdma_free_desc(new[e])
  BY <1>2, HeldIs
<1> HIDE DEF h, g
<1>5. \A e \in 1 .. Len(h) : e # d => g[e] = h[e]
  BY <1>2, <1>3, <1>4, ZenonT(30)
<1>6. h[d] = mtdma_free_desc(cs) /\ g[d] = mtdma_free_desc(Tail(cs))
  BY <1>2, <1>3, <1>4
<1>7. mtdma_free_desc(cs) = mtdma_free_desc(Tail(cs)) + ChunkObjects(Head(cs))
  BY <1>1, DescTail
<1>8. Total(g) + h[d] = Total(h) + g[d]
  BY <1>2, <1>3, <1>4, <1>5, TotalUpdate
<1>9. mtdma_free_desc(Tail(cs)) \in Nat /\ ChunkObjects(Head(cs)) \in Nat
  <2> DEFINE u == Tail(cs)
             v == Head(cs)
  <2>1. u \in Seq(Nat) /\ v \in Nat
    BY <1>1
  <2> HIDE DEF u, v
  <2>2. mtdma_free_desc(u) \in Nat /\ ChunkObjects(v) \in Nat
    BY <2>1, ObjectsType DEF ChunkObjects
  <2> QED
    BY <2>2 DEF u, v
<1> DEFINE x == Total(g)
           y == Total(h)
           z == mtdma_free_desc(Tail(cs))
           w == ChunkObjects(Head(cs))
<1>10. x \in Nat /\ y \in Nat /\ z \in Nat /\ w \in Nat /\ x + (z + w) = y + z
  BY <1>3, <1>4, <1>6, <1>7, <1>8, <1>9
<1> HIDE DEF x, y, z, w
<1>11. x = y - w
  BY <1>10
<1> QED
  BY <1>11 DEF x, y, w, g, h

\* A descriptor is allocated.
LEMMA HeldAppend ==
  ASSUME NEW cks \in Seq(Seq(Nat)), NEW ca, NEW cs \in Seq(Nat), ~Back(ca, Len(cks) + 1),
         NEW new, new = Append(cks, cs)
  PROVE  Total(Held(new, ca)) = Total(Held(cks, ca)) + mtdma_free_desc(cs)
<1> DEFINE h == Held(cks, ca)
           g == Held(new, ca)
           x == mtdma_free_desc(cs)
           u == Append(h, x)
           n == Len(cks)
<1>1. /\ new \in Seq(Seq(Nat)) /\ Len(new) = n + 1 /\ new[n + 1] = cs
      /\ \A e \in 1 .. n : new[e] = cks[e]
  BY AppendProperties
<1>2. /\ h \in Seq(Nat) /\ Len(h) = n /\ n \in Nat
      /\ \A e \in 1 .. n : h[e] = IF Back(ca, e) THEN 0 ELSE mtdma_free_desc(cks[e])
  BY HeldIs
<1>3. /\ g \in Seq(Nat) /\ Len(g) = Len(new)
      /\ \A e \in 1 .. Len(new) : g[e] = IF Back(ca, e) THEN 0 ELSE mtdma_free_desc(new[e])
  BY <1>1, HeldIs
<1>4. x \in Nat /\ ~Back(ca, n + 1)
  BY ObjectsType
<1> HIDE DEF h, g, x, n
<1>5. u \in Seq(Nat) /\ Len(u) = n + 1 /\ u[n + 1] = x /\ \A e \in 1 .. n : u[e] = h[e]
  BY <1>2, <1>4, AppendProperties
<1>6. Total(u) = Total(h) + x
  BY <1>2, <1>4, TotalAppend
<1> HIDE DEF u
<1>7. ASSUME NEW e \in 1 .. n + 1 PROVE g[e] = u[e]
  <2>1. g[e] = IF Back(ca, e) THEN 0 ELSE mtdma_free_desc(new[e])
    BY <1>1, <1>3
  <2>2. CASE e = n + 1
    BY <1>1, <1>4, <1>5, <2>1, <2>2 DEF x
  <2>3. CASE e # n + 1
    <3>1. e \in 1 .. n
      BY <1>2, <2>3
    <3> QED
      BY <1>1, <1>2, <1>5, <2>1, <3>1
  <2> QED
    BY <2>2, <2>3
<1>8. g = u
  BY <1>1, <1>3, <1>5, <1>7, SeqEqual
<1> QED
  BY <1>6, <1>8 DEF g, h, x

\* A descriptor is called back and freed.
LEMMA HeldCalled ==
  ASSUME NEW cks \in Seq(Seq(Nat)), NEW ca \in Seq(Nat), NEW d \in 1 .. Len(cks), ~Back(ca, d)
  PROVE  Total(Held(cks, Append(ca, d))) = Total(Held(cks, ca)) - mtdma_free_desc(cks[d])
<1> DEFINE h == Held(cks, ca)
           ca2 == Append(ca, d)
           g == Held(cks, ca2)
           w == mtdma_free_desc(cks[d])
<1>1. \A e : Back(ca2, e) <=> Back(ca, e) \/ e = d
  <2> DEFINE m == Len(ca)
  <2>1. d \in Nat /\ m \in Nat /\ DOMAIN ca = 1 .. m
    BY LenProperties
  <2>2. /\ DOMAIN ca2 = 1 .. m + 1 /\ ca2[m + 1] = d
        /\ \A i \in 1 .. m : ca2[i] = ca[i]
    BY <2>1, AppendProperties, LenProperties
  <2> HIDE DEF m, ca2
  <2>3. \A i \in 1 .. m + 1 : i = m + 1 \/ i \in 1 .. m
    BY <2>1
  <2>4. m + 1 \in 1 .. m + 1 /\ \A i \in 1 .. m : i \in 1 .. m + 1
    BY <2>1
  <2> QED
    BY <2>1, <2>2, <2>3, <2>4, Zenon DEF Back
<1>2. /\ h \in Seq(Nat) /\ Len(h) = Len(cks) /\ Total(h) \in Nat
      /\ \A e \in 1 .. Len(cks) : h[e] = IF Back(ca, e) THEN 0 ELSE mtdma_free_desc(cks[e])
  BY HeldIs
<1> HIDE DEF ca2
<1>3. /\ g \in Seq(Nat) /\ Len(g) = Len(cks) /\ Total(g) \in Nat
      /\ \A e \in 1 .. Len(cks) : g[e] = IF Back(ca2, e) THEN 0 ELSE mtdma_free_desc(cks[e])
  BY HeldIs
<1>4. w \in Nat
  BY ElementOfSeq, ObjectsType
<1> HIDE DEF h, g
<1>5. \A e \in 1 .. Len(h) : e # d => g[e] = h[e]
  BY <1>1, <1>2, <1>3
<1>6. h[d] = w /\ g[d] = 0
  BY <1>1, <1>2, <1>3
<1>7. Total(g) + h[d] = Total(h) + g[d]
  BY <1>2, <1>3, <1>5, TotalUpdate
<1> DEFINE x == Total(g)
           y == Total(h)
<1>8. x \in Nat /\ y \in Nat /\ x + w = y + 0
  BY <1>2, <1>3, <1>6, <1>7
<1> HIDE DEF x, y, w
<1>9. x = y - w
  BY <1>4, <1>8
<1> QED
  BY <1>9 DEF x, y, w, g, h, ca2
-----------------------------------------------------------------------------
\* The descriptors called back are the first ones.
LEMMA CalledFirst ==
  ASSUME Types, Order, NEW d \in Nat
  PROVE  Back(called, d) <=> d <= Len(called) /\ d # 0
<1>1. DOMAIN called = 1 .. Len(called) /\ Len(called) \in Nat
  BY LenProperties DEF Types
<1>2. \A i \in 1 .. Len(called) : called[i] = i
  BY <1>1 DEF Order, Counts
<1> QED
  BY <1>1, <1>2 DEF Back

LEMMA Within ==
  ASSUME ListInv
  PROVE  Accounted <= Len(chunks) /\ Len(chunks) <= Accounted + 1
  BY ListLengths DEF ListInv, Numbered

LEMMA HeapIsHeld == HeapExact <=> heap = Total(Held(chunks, called))
  BY DEF HeapExact, Held, Back

LEMMA HeapIsHeldNext == HeapExact' <=> heap' = Total(Held(chunks', called'))
  BY DEF HeapExact, Held, Back, mtdma_free_desc, Total, ChunkObjects

\* What mtdma_start_transfer frees is held by a descriptor not called back.
LEMMA StartHeap ==
  ASSUME ListInv, Order, HeapExact, UNCHANGED called,
         NEW iss \in Seq(Nat), mtdma_start_transfer(iss),
         iss # <<>> => Head(iss) \in Len(called) + 1 .. Len(chunks)
  PROVE  HeapExact'
<1>1. CASE UNCHANGED <<chunks, heap>>
  BY <1>1, HeapIsHeld, HeapIsHeldNext
<1>2. CASE iss # <<>> /\ chunks[Head(iss)] # <<>>
  <2> DEFINE d == Head(iss)
  <2>1. /\ heap' = heap - ChunkObjects(Head(chunks[d]))
        /\ chunks' = [chunks EXCEPT ![d] = Tail(chunks[d])]
        /\ chunks[d] # <<>> /\ d \in Len(called) + 1 .. Len(chunks)
    BY <1>2 DEF mtdma_start_transfer
  <2> HIDE DEF d
  <2>2. d \in 1 .. Len(chunks) /\ d \in Nat /\ ~(d <= Len(called))
    BY <2>1, ListLengths DEF ListInv
  <2>3. ~Back(called, d)
    BY <2>2, CalledFirst DEF ListInv
  <2>4. Total(Held(chunks', called)) = Total(Held(chunks, called)) - ChunkObjects(Head(chunks[d]))
    BY <2>1, <2>2, <2>3, HeldStart DEF ListInv, Types
  <2> QED
    BY <2>1, <2>4, HeapIsHeld, HeapIsHeldNext
<1> QED
  BY <1>1, <1>2 DEF mtdma_start_transfer

LEMMA PrepHeap ==
  ASSUME ListInv, Order, HeapExact, NEW t \in Threads, Prep(t)
  PROVE  HeapExact'
<1>1. UNCHANGED called /\ pc[t] = "prep"
  BY DEF Prep, tasklet
<1>2. CASE AllocFails(t)
  <2>1. PICK k \in 0 .. (mtdma_free_desc(Chunks(call[t].sgs)) - 1) : heap' = heap + k - Freed(k)
    BY <1>2 DEF AllocFails
  <2>2. k \in Nat /\ Freed(k) = k
    <3>1. call[t].sgs \in Nat
      BY DEF ListInv, Types, Calls
    <3>2. mtdma_free_desc(Chunks(call[t].sgs)) \in Nat
      BY <3>1, ChunksType, ObjectsType
    <3> QED
      BY <3>2, FreedAll
  <2>3. heap \in Nat
    BY HeapIsHeld, HeldIs DEF ListInv, Types
  <2>4. heap' = heap /\ UNCHANGED chunks
    BY <1>2, <2>1, <2>2, <2>3 DEF AllocFails
  <2> QED
    BY <1>1, <2>4, HeapIsHeld, HeapIsHeldNext
<1>3. CASE /\ chunks' = Append(chunks, Chunks(call[t].sgs))
           /\ heap' = heap + mtdma_free_desc(Chunks(call[t].sgs))
  <2> DEFINE cs == Chunks(call[t].sgs)
  <2>1. cs \in Seq(Nat)
    BY ChunksType DEF ListInv, Types, Calls
  <2>2. Len(chunks) = Accounted
    BY <1>1 DEF ListInv, Numbered, OneClient, Inside
  <2>3. Len(chunks) + 1 \in Nat /\ ~(Len(chunks) + 1 <= Len(called))
    BY <2>2, ListLengths DEF ListInv, Accounted
  <2> HIDE DEF cs
  <2>4. ~Back(called, Len(chunks) + 1)
    BY <2>3, CalledFirst DEF ListInv
  <2>5. chunks' = Append(chunks, cs) /\ heap' = heap + mtdma_free_desc(cs)
    BY <1>3 DEF cs
  <2>6. Total(Held(chunks', called)) = Total(Held(chunks, called)) + mtdma_free_desc(cs)
    BY <2>1, <2>4, <2>5, HeldAppend DEF ListInv, Types
  <2> QED
    BY <1>1, <2>5, <2>6, HeapIsHeld, HeapIsHeldNext
<1> QED
  BY <1>2, <1>3 DEF Prep

LEMMA CallbackHeap ==
  ASSUME ListInv, Order, HeapExact, Callback
  PROVE  HeapExact'
<1> DEFINE d == Head(head)
<1>1. /\ head # <<>> /\ called' = Append(called, d) /\ UNCHANGED chunks
      /\ heap' = heap - mtdma_free_desc(chunks[d])
  BY DEF Callback, vchan_vdesc_fini
<1>2. d = Len(called) + 1 /\ Len(head) > 0
  BY <1>1, ListLengths, CountsTail DEF Order, ListInv, Types
<1> HIDE DEF d
<1>3. d \in 1 .. Len(chunks) /\ d \in Nat /\ ~(d <= Len(called))
  BY <1>2, Within, ListLengths DEF ListInv, Accounted
<1>4. ~Back(called, d)
  BY <1>3, CalledFirst DEF ListInv
<1>5. Total(Held(chunks, called')) = Total(Held(chunks, called)) - mtdma_free_desc(chunks[d])
  BY <1>1, <1>3, <1>4, HeldCalled DEF ListInv, Types
<1> QED
  BY <1>1, <1>5, HeapIsHeld, HeapIsHeldNext

LEMMA IssueHeap ==
  ASSUME ListInv, Order, HeapExact, NEW t \in Threads, mtdma_device_issue_pending(t)
  PROVE  HeapExact'
<1>1. UNCHANGED called
  BY DEF mtdma_device_issue_pending, tasklet
<1>2. CASE UNCHANGED <<chunks, heap>>
  BY <1>1, <1>2, HeapIsHeld, HeapIsHeldNext
<1>3. CASE vchan_issue_pending /\ issued' # <<>> /\ mtdma_start_transfer(issued')
  <2> DEFINE iss == issued \o submitted
  <2>1. iss \in Seq(Nat) /\ issued' = iss
    BY <1>3, ConcatProperties DEF vchan_issue_pending, ListInv, Types
  <2>2. Counts(iss, Over) /\ Len(iss) = Len(issued) + Len(submitted)
    BY ListLengths, CountsConcat DEF Order, Reached, ListInv, Types
  <2> HIDE DEF iss
  <2>3. iss # <<>> => Head(iss) = Over + 1 /\ Len(iss) > 0
    BY <2>1, <2>2, ListLengths, CountsTail DEF ListInv
  <2>4. iss # <<>> => Head(iss) \in Len(called) + 1 .. Len(chunks)
    BY <2>2, <2>3, Within, ListLengths DEF ListInv, Accounted, Over, Out
  <2>5. mtdma_start_transfer(iss)
    BY <1>3, <2>1
  <2> QED
    BY <1>1, <2>1, <2>4, <2>5, StartHeap
<1> QED
  BY <1>2, <1>3 DEF mtdma_device_issue_pending

LEMMA DoneHeap == ListInv /\ Order /\ HeapExact /\ mtdma_done_interrupt => HeapExact'
<1> SUFFICES ASSUME ListInv, Order, HeapExact, mtdma_done_interrupt PROVE HeapExact'
  OBVIOUS
<1>1. UNCHANGED called
  BY DEF mtdma_done_interrupt
<1>2. CASE UNCHANGED <<chunks, heap>>
  BY <1>1, <1>2, HeapIsHeld, HeapIsHeldNext
<1>3. CASE issued # <<>> /\ mtdma_start_transfer(issued)
  <2>1. issued # <<>> => Head(issued) = Over + 1 /\ Len(issued) > 0
    BY ListLengths, CountsTail DEF Order, ListInv, Types
  <2>2. issued # <<>> => Head(issued) \in Len(called) + 1 .. Len(chunks)
    BY <2>1, Within, ListLengths DEF ListInv, Accounted, Over, Out
  <2> QED
    BY <1>1, <1>3, <2>2, StartHeap DEF ListInv, Types
<1> QED
  BY <1>2, <1>3 DEF mtdma_done_interrupt, lists

LEMMA NextHeap == ListInv /\ Order /\ HeapExact /\ [Next]_vars => HeapExact'
<1> SUFFICES ASSUME ListInv, Order, HeapExact, [Next]_vars PROVE HeapExact'
  OBVIOUS
<1>1. CASE UNCHANGED <<chunks, heap, called>>
  BY <1>1, HeapIsHeld, HeapIsHeldNext
<1>2. ASSUME NEW t \in Threads, MtdmaRw(t) \/ ThreadStep(t) \/ DownInterrupted(t)
      PROVE  HeapExact'
  <2>1. CASE Prep(t)
    BY <2>1, PrepHeap
  <2>2. CASE mtdma_device_issue_pending(t)
    BY <2>2, IssueHeap
  <2>3. CASE MtdmaRw(t) \/ Setup(t) \/ Down(t) \/ DownInterrupted(t) \/ Begin(t) \/ LoopEnd(t)
             \/ vchan_tx_submit(t)
    BY <1>1, <2>3 DEF MtdmaRw, Setup, Down, DownInterrupted, Begin, LoopEnd, vchan_tx_submit,
                      lists, tasklet
  <2>4. CASE WaitDone(t) \/ WaitTimeout(t) \/ TermRead(t) \/ TermHw(t) \/ TermIdle(t)
             \/ TermStop(t) \/ TermEnd(t)
    BY <1>1, <2>4 DEF WaitDone, WaitTimeout, TermRead, TermHw, TermIdle, TermStop, TermEnd,
                      lists, tasklet
  <2> QED
    BY <1>2, <2>1, <2>2, <2>3, <2>4 DEF ThreadStep
<1>3. CASE HwStop \/ IsrRead \/ mtdma_abort_interrupt \/ AbortReset \/ Splice \/ UNCHANGED vars
  BY <1>1, <1>3 DEF HwStop, IsrRead, mtdma_abort_interrupt, AbortReset, Splice, vars, lists,
                    tasklet
<1>4. CASE mtdma_done_interrupt
  BY <1>4, DoneHeap
<1>5. CASE Callback
  BY <1>5, CallbackHeap
<1>6. CASE Others
  BY <1>1, <1>6, OthersApart DEF Apart
<1> QED
  BY <1>2, <1>3, <1>4, <1>5, <1>6 DEF Next, Isr

\* mtdma_free_desc, mtdma_free_chunk and mtdma_free_burst free each object that
\* mtdma_device_prep_slave_sg allocated once: however many threads call, whatever
\* the size of a chunk, wherever an allocation fails, with time-outs and errors of
\* the engine, the objects allocated are those of the descriptors not called back,
\* less the chunks that were started.
THEOREM HeapIsExact == Spec => []HeapExact
<1> DEFINE Inv == ListInv /\ Order /\ HeapExact
<1>1. Init => Inv
  <2> SUFFICES ASSUME Init PROVE HeapExact
    BY InitList, InitOrder
  <2>1. chunks = <<>> /\ called = <<>> /\ heap = 0
    BY DEF Init, vchan_init
  <2>2. Held(chunks, called) = <<>>
    BY <2>1 DEF Held
  <2> QED
    BY <2>1, <2>2, TotalEmpty, HeapIsHeld
<1>2. Inv /\ [Next]_vars => Inv'
  BY StepRefines, NextOrder, NextHeap
<1>3. Inv => HeapExact
  OBVIOUS
<1> QED
  BY <1>1, <1>2, <1>3, PTL DEF Spec
-----------------------------------------------------------------------------
(* The status of a descriptor *)

\* The chunks that are left hold what the others do not.
LEMMA ResidueIs ==
  ASSUME NEW n \in Nat, NEW p \in Seq(Nat), NEW j \in Nat, j + Len(p) = Len(Chunks(n)),
         \A i \in 1 .. Len(p) : p[i] = Chunks(n)[j + i]
  PROVE  Bursts(n, j) + Total(p) = n
<1> DEFINE m == Len(p)
           g == [k \in 0 .. m |-> Bursts(n, j + k) - Bursts(n, j)]
<1>1. m \in Nat /\ j + m = Len(Chunks(n)) /\ \A i \in 1 .. m : p[i] = Chunks(n)[j + i]
  OBVIOUS
<1>2. \A k \in Nat : Bursts(n, k) \in Nat
  <2> SUFFICES ASSUME NEW k \in Nat PROVE Bursts(n, k) \in Nat
    OBVIOUS
  <2>1. k * LlMax \in Nat
    BY MtdmaAssumption
  <2> QED
    BY <2>1 DEF Bursts
<1> HIDE DEF m
<1>3. g \in [0 .. m -> Int]
  <2>1. \A k \in 0 .. m : Bursts(n, j + k) \in Nat /\ Bursts(n, j) \in Nat
    <3>1. \A k \in 0 .. m : j + k \in Nat
      BY <1>1
    <3> QED
      BY <1>2, <3>1, Zenon
  <2> QED
    BY <2>1
<1>4. g[0] = 0 /\ g[m] = Bursts(n, j + m) - Bursts(n, j)
  <2>1. Bursts(n, j) \in Nat /\ j + 0 = j /\ 0 \in 0 .. m /\ m \in 0 .. m
    <3>1. Bursts(n, j) \in Nat
      BY <1>2, Zenon
    <3> QED
      BY <1>1, <3>1
  <2>2. g[0] = Bursts(n, j) - Bursts(n, j)
    BY <2>1
  <2> QED
    BY <2>1, <2>2
<1>5. ASSUME NEW k \in 1 .. m PROVE g[k] = g[k - 1] + p[k]
  <2>1. /\ j + (k - 1) \in 0 .. Len(Chunks(n)) - 1 /\ (j + (k - 1)) + 1 = j + k
        /\ k \in 0 .. m /\ k - 1 \in 0 .. m /\ j + k \in Nat /\ j + (k - 1) \in Nat
    BY <1>1
  <2>2. Bursts(n, j + k) = Bursts(n, j + (k - 1)) + Chunks(n)[j + k]
    BY <2>1, BurstsGrow
  <2> DEFINE x == Bursts(n, j + k)
             y == Bursts(n, j + (k - 1))
             z == Bursts(n, j)
  <2>3. x \in Nat /\ y \in Nat /\ z \in Nat
    BY <1>2, <2>1
  <2>4. g[k] = x - z /\ g[k - 1] = y - z
    BY <2>1
  <2>5. x = y + p[k] /\ p[k] \in Nat
    <3>1. p[k] \in Nat
      BY ElementOfSeq DEF m
    <3>2. p[k] = Chunks(n)[j + k]
      BY <1>1
    <3> QED
      BY <2>2, <3>1, <3>2
  <2> HIDE DEF g, x, y, z
  <2>6. x - z = (y - z) + p[k]
    BY <2>3, <2>5
  <2> QED
    BY <2>4, <2>6
<1> HIDE DEF g
<1>6. Total(p) = g[m]
  BY <1>3, <1>4, <1>5, TotalUnique DEF m
<1>7. Bursts(n, j + m) = n
  BY <1>1, BurstsEnds
<1>8. Bursts(n, j) \in Nat
  BY <1>2
<1> QED
  BY <1>4, <1>6, <1>7, <1>8

\* A descriptor is complete exactly when it has left the issued list at its head.
LEMMA CompleteIsFinished ==
  ASSUME ListInv, Order, NEW d \in Submitted
  PROVE  /\ dma_cookie_status(d) = "COMPLETE" <=> d \in Finished
         /\ dma_cookie_status(d) \in {"COMPLETE", "IN_PROGRESS"}
         /\ vchan_find_desc(d) => dma_cookie_status(d) = "IN_PROGRESS"
<1> DEFINE D == DOMAIN chunks
<1>1. D = 1 .. Len(chunks) /\ d \in D /\ \A t \in Threads : pc[t] = "submit" => call[t].my # d
  BY LenProperties DEF Submitted, ListInv, Types
<1>2. d \in 1 .. Accounted
  <2>1. CASE \E t \in Threads : pc[t] = "submit"
    <3>1. d # Accounted + 1 /\ Len(chunks) = Accounted + 1
      BY <1>1, <2>1 DEF ListInv, Numbered
    <3> QED
      BY <1>1, <3>1, ListLengths DEF ListInv
  <2>2. CASE \A t \in Threads : pc[t] # "submit"
    BY <1>1, <2>2 DEF ListInv, Numbered
  <2> QED
    BY <2>1, <2>2
<1>3. dma_cookie_status(d) = IF d <= Over THEN "COMPLETE" ELSE "IN_PROGRESS"
  BY <1>2, ListLengths, SMTT(30) DEF dma_cookie_status, Order, ListInv
<1>4. /\ DOMAIN called = 1 .. Len(called) /\ DOMAIN head = 1 .. Len(head)
      /\ DOMAIN completed = 1 .. Len(completed) /\ DOMAIN issued = 1 .. Len(issued)
  BY LenProperties DEF ListInv, Types
<1>5. d \in Finished <=>
        \/ \E i \in 1 .. Len(called) : called[i] = d
        \/ \E i \in 1 .. Len(head) : head[i] = d
        \/ \E i \in 1 .. Len(completed) : completed[i] = d
  BY <1>1, <1>4 DEF Finished
<1>6. (\E i \in 1 .. Len(called) : called[i] = d) <=> d <= Len(called)
  <2>1. \A i \in 1 .. Len(called) : called[i] = i
    BY ListLengths DEF Order, Counts, ListInv
  <2> QED
    BY <1>2, <2>1, ListLengths DEF ListInv
<1>7. (\E i \in 1 .. Len(head) : head[i] = d) <=> d > Len(called) /\ d <= Out
  <2>1. \A i \in 1 .. Len(head) : head[i] = Len(called) + i
    BY DEF Order, Counts
  <2>2. d > Len(called) /\ d <= Out =>
          d - Len(called) \in 1 .. Len(head) /\ Len(called) + (d - Len(called)) = d
    BY <1>2, ListLengths DEF Out, ListInv
  <2>3. \A i \in 1 .. Len(head) : Len(called) + i > Len(called) /\ Len(called) + i <= Out
    BY ListLengths DEF Out, ListInv
  <2> QED
    BY <2>1, <2>2, <2>3
<1>8. (\E i \in 1 .. Len(completed) : completed[i] = d) <=> d > Out /\ d <= Over
  <2>1. \A i \in 1 .. Len(completed) : completed[i] = Out + i
    BY DEF Order, Counts
  <2>2. d > Out /\ d <= Over => d - Out \in 1 .. Len(completed) /\ Out + (d - Out) = d
    BY <1>2, ListLengths DEF Over, ListInv
  <2>3. \A i \in 1 .. Len(completed) : Out + i > Out /\ Out + i <= Over
    BY ListLengths DEF Over, ListInv
  <2> QED
    BY <2>1, <2>2, <2>3
<1>9. d \in Finished <=> d <= Over
  BY <1>2, <1>5, <1>6, <1>7, <1>8, ListLengths DEF Out, Over, ListInv
<1>10. vchan_find_desc(d) => ~(d <= Over)
  <2>1. \A i \in 1 .. Len(issued) : issued[i] = Over + i
    BY DEF Order, Counts
  <2>2. \A i \in 1 .. Len(issued) : ~(Over + i <= Over)
    BY ListLengths DEF ListInv
  <2> QED
    BY <1>4, <2>1, <2>2 DEF vchan_find_desc
<1> QED
  BY <1>3, <1>9, <1>10

\* As long as nothing went wrong, what was moved, what runs and what is left of an
\* issued descriptor make up the whole.
LEMMA AllOfIt ==
  ASSUME ListInv, Rounds, mishap = {}, NEW d \in DOMAIN chunks, vchan_find_desc(d)
  PROVE  \E t \in Threads :
           /\ call[t].my = d
           /\ moved[d] + (IF hw.d = d THEN hw.n ELSE 0) + Total(chunks[d]) = call[t].sgs
<1>1. issued # <<>>
  BY DEF vchan_find_desc
<1>2. PICK t \in Threads : /\ call[t].my \in Nat /\ call[t].sgs \in Sgs
                           /\ Waiting(call[t].my) /\ Transfer(call[t].my, call[t].sgs)
  BY <1>1, TheWaiter DEF Empty
<1>3. PICK n \in Nat, e \in Nat : n = call[t].sgs /\ e = call[t].my
  BY <1>2, MtdmaAssumption
<1>4. Issued(e) /\ Transfer(e, n)
  BY <1>1, <1>2, <1>3 DEF Waiting, Aborted, Ended, Taken
<1>5. d = e
  BY <1>4 DEF Issued, vchan_find_desc
<1> DEFINE p == chunks[d]
           j == Len(Chunks(n)) - Len(p)
<1>6. d \in 1 .. Len(chunks) /\ p \in Seq(Nat) /\ Len(p) \in Nat
  BY LenProperties, ElementOfSeq DEF ListInv, Types
<1>7. /\ j >= 0 /\ \A i \in 1 .. Len(p) : p[i] = Chunks(n)[j + i]
      /\ moved[d] + hw.n = Bursts(n, j)
  BY <1>4, <1>5 DEF Transfer
<1>8. Len(Chunks(n)) \in Nat
  BY ChunksType
<1> HIDE DEF p
<1>9. j \in Nat /\ j + Len(p) = Len(Chunks(n))
  BY <1>6, <1>7, <1>8
<1> HIDE DEF j
<1>10. Bursts(n, j) + Total(p) = n
  BY <1>6, <1>7, <1>9, ResidueIs
<1>11. hw.n = IF hw.d = d THEN hw.n ELSE 0
  BY <1>4, <1>5 DEF Issued, Running, Stopped, NoHw
<1> QED
  BY <1>3, <1>5, <1>7, <1>10, <1>11 DEF p

\* mtdma_device_tx_status says COMPLETE of a submitted descriptor exactly when an
\* interrupt has taken it off the issued list, whatever timed out and whatever the
\* engine reported.  Before the first time-out and the first error, the bursts moved,
\* those in the engine and the residue of an issued descriptor add up to the
\* scatterlist of the thread that waits for it: for every number of threads, every
\* size of a chunk and every length of a scatterlist.
THEOREM StatusIsTruthful == Spec => []StatusTruthful
<1> DEFINE Inv == ListInv /\ Order /\ LateInv /\ (mishap = {} => Rounds)
<1>1. Init => Inv
  BY InitList, InitOrder, InitLate, InitRounds
<1>2. Inv /\ [Next]_vars => Inv'
  <2> SUFFICES ASSUME Inv, [Next]_vars PROVE Inv'
    OBVIOUS
  <2>1. ListInv' /\ Order' /\ LateInv'
    BY StepRefines, NextOrder, NextLate
  <2>2. mishap' = {} => mishap = {} /\ Calm' /\ late = 0
    BY MishapsStay DEF Calm, LateInv
  <2> QED
    BY <2>1, <2>2, NextRounds
<1>3. Inv => StatusTruthful
  <2> SUFFICES ASSUME Inv, NEW d \in Submitted
               PROVE  LET tx == mtdma_device_tx_status(d) IN
                      /\ tx.status = "COMPLETE" <=> d \in Finished
                      /\ vchan_find_desc(d) /\ mishap = {} =>
                           \E t \in Threads :
                             /\ call[t].my = d
                             /\ moved[d] + (IF hw.d = d THEN hw.n ELSE 0) + tx.residue
                                  = call[t].sgs
    BY DEF StatusTruthful
  <2> DEFINE tx == mtdma_device_tx_status(d)
  <2>1. tx.status = dma_cookie_status(d)
    BY DEF mtdma_device_tx_status
  <2>2. tx.status = "COMPLETE" <=> d \in Finished
    BY <2>1, CompleteIsFinished
  <2>3. ASSUME vchan_find_desc(d), mishap = {}
        PROVE  \E t \in Threads :
                 /\ call[t].my = d
                 /\ moved[d] + (IF hw.d = d THEN hw.n ELSE 0) + tx.residue = call[t].sgs
    <3>1. tx.residue = Total(chunks[d])
      BY <2>3, CompleteIsFinished DEF mtdma_device_tx_status
    <3>2. d \in DOMAIN chunks
      BY DEF Submitted
    <3> HIDE DEF tx
    <3> QED
      BY <2>3, <3>1, <3>2, AllOfIt
  <2> QED
    BY <2>2, <2>3
<1> QED
  BY <1>1, <1>2, <1>3, PTL DEF Spec
=============================================================================
