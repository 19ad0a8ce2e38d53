----------------------------- MODULE MtdmaChan -----------------------------
(***************************************************************************)
(* One channel of the mtdma dmaengine driver (mt-emu-mtdma-core.c) with    *)
(* its virtual channel (virt-dma.c) and the client of it, emu_dma_rw       *)
(* (mt-emu-mtdma-test.c), which MT_IOCTL_MTDMA_RW calls.                   *)
(*                                                                         *)
(* Actors: the ioctl threads, the interrupt handler mtdma_isr, the tasklet *)
(* vchan_complete and the engine.  vc.lock makes what it protects one      *)
(* step; mtdma_device_terminate_all and the end of mtdma_abort_interrupt   *)
(* do not take it and are several.  A descriptor is its cookie; its chunks *)
(* are the numbers of bursts in them.                                      *)
(*                                                                         *)
(* The semaphore and the completion belong to the channel number that the  *)
(* user names, not to the channel that dma_request_chan finds.  The module *)
(* is about the calls that name one number and find this channel; calls    *)
(* that name it and find another channel are "others": they share the      *)
(* semaphore and the completion and nothing else.                          *)
(***************************************************************************)
EXTENDS Integers, Sequences, FiniteSets, Sums

CONSTANTS Threads,
          LlMax,       \* info.ll_max: bursts in one chunk
          Sgs,         \* numbers of scatterlist entries of a call
          TestCnts,    \* test_info->test_cnt
          Outcomes,    \* the sets of INTR_RAW bits the engine stops with
          MaxRounds,   \* bound: rounds of all the calls; others may
                       \* take the semaphore for the rest of them
          MaxNoMem     \* bound: allocations that fail

ASSUME MtdmaAssumption ==
  /\ LlMax \in Nat \ {0} /\ Sgs \subseteq Nat \ {0} /\ TestCnts \subseteq Nat
  /\ Outcomes \subseteq ((SUBSET {"DONE", "ERR"}) \ {{}})
  /\ MaxRounds \in Nat /\ MaxNoMem \in Nat

VARIABLES pc,          \* where a thread is in emu_dma_rw
          call,        \* its arguments and its state: [sgs, it, my, got, freeing]
          client,      \* the channel's client_count
          sem, done,   \* emu_mtdma's semaphore and completion of the number
          holding,     \* another client holds the semaphore
          late,        \* callbacks that other clients no longer wait for
          configured, request, status,      \* struct mtdma_chan
          submitted, issued, completed,     \* struct virt_dma_chan
          chunks,      \* of each descriptor: the chunks not yet started
          cookie, completed_cookie,         \* struct dma_chan
          heap,        \* history: objects allocated and not freed
          hw,          \* the engine: [busy, d, n], running n bursts of d
          raw,         \* INTR_RAW
          isr, bits,   \* mtdma_isr and the status it read
          pending,     \* the tasklet: "no", or scheduled in this run of the
                       \* handler ("new") or before it ("old")
          head,        \* the descriptors the tasklet has taken
          called,      \* history: the descriptors called back
          moved,       \* history: bursts of each descriptor that were moved
          mishap,      \* history: "timeout" (of any client), "error", "clobber"
          rounds, nomem

chan == <<configured, request, status>>
cookies == <<cookie, completed_cookie>>
lists == <<submitted, issued, completed, chunks, cookies, heap>>
engine == <<hw, raw, moved>>
handler == <<isr, bits>>
tasklet == <<pending, head, called>>
others == <<holding, late>>
client_ == <<pc, call, client, sem, rounds, nomem, others>>

vars == <<client_, done, chan, lists, engine, handler, tasklet, mishap>>

NoCall == [sgs |-> 0, it |-> 0, my |-> 0, got |-> 0, freeing |-> FALSE]

emu_mtdma_init == sem = 1 /\ done = 0 /\ holding = FALSE /\ late = 0

\* DMA_MIN_COOKIE is 1: the first descriptor submitted has the cookie 2.
dma_cookie_init == cookie = 1 /\ completed_cookie = 1

mtdma_channel_setup == configured = FALSE /\ request = "NONE" /\ status = "IDLE"

vchan_init ==
  /\ submitted = <<>> /\ issued = <<>> /\ completed = <<>> /\ chunks = <<>>
  /\ pending = "no" /\ head = <<>>
  /\ dma_cookie_init

Init ==
  /\ pc = [t \in Threads |-> "idle"]
  /\ call = [t \in Threads |-> NoCall]
  /\ client = 0 /\ rounds = 0 /\ nomem = 0 /\ heap = 0
  /\ emu_mtdma_init /\ mtdma_channel_setup /\ vchan_init
  /\ hw = [busy |-> FALSE, d |-> 0, n |-> 0] /\ raw = {} /\ moved = <<>>
  /\ isr = "idle" /\ bits = {} /\ called = <<>>
  /\ mishap = {}

Goto(t, label) == pc' = [pc EXCEPT ![t] = label]

-----------------------------------------------------------------------------
\* STATUS_BUSY of the engine
mtdma_v0_core_ch_status == IF hw.busy THEN "IN_PROGRESS" ELSE "COMPLETE"

\* The list of the engine: the bursts of the first chunk of d, of which only
\* the last raises the interrupt
mtdma_v0_core_write_chunk(d) == [busy |-> TRUE, d |-> d, n |-> Head(chunks[d])]

\* The engine is given the list, INTR_RAW is cleared, the channel enabled
mtdma_v0_core_start(d) ==
  /\ hw' = mtdma_v0_core_write_chunk(d)
  /\ raw' = {}
  /\ mishap' = IF hw.busy THEN mishap \cup {"clobber"} ELSE mishap

\* The objects of a chunk: itself, the head of its bursts, the bursts
ChunkObjects(n) == 2 + n

\* mtdma_free_chunk, mtdma_free_burst: what is freed with a descriptor that has
\* these chunks: itself, the head of the chunks, the chunks
mtdma_free_desc(cs) == 2 + Total([i \in DOMAIN cs |-> ChunkObjects(cs[i])])

\* Faulty variant: a chunk that was started is taken off the list only
start_transfer_keeps(iss) ==
  IF iss = <<>> \/ chunks[Head(iss)] = <<>>
  THEN UNCHANGED <<chunks, heap, hw, raw, mishap>>
  ELSE LET d == Head(iss) IN
       /\ mtdma_v0_core_start(d)
       /\ heap' = heap
       /\ chunks' = [chunks EXCEPT ![d] = Tail(@)]

\* The first chunk that is left of the first issued descriptor, if any, is
\* started and freed
mtdma_start_transfer(iss) ==
  IF iss = <<>> \/ chunks[Head(iss)] = <<>>
  THEN UNCHANGED <<chunks, heap, hw, raw, mishap>>
  ELSE LET d == Head(iss) IN
       /\ mtdma_v0_core_start(d)
       /\ heap' = heap - ChunkObjects(Head(chunks[d]))
       /\ chunks' = [chunks EXCEPT ![d] = Tail(@)]

\* mtdma_device_transfer fills a chunk with LlMax bursts before it begins the
\* next one
Chunks(n) ==
  LET full == n \div LlMax
      rest == n % LlMax
  IN [i \in 1..full |-> LlMax] \o (IF rest > 0 THEN <<rest>> ELSE <<>>)

-----------------------------------------------------------------------------
\* emu_dma_rw

mtdma_alloc_chan_resources == status = "IDLE"

\* dma_request_chan finds the first free channel, of 64 in each direction: this
\* one, or another, whose client is then one of the others.  When all are taken,
\* or mtdma_alloc_chan_resources finds the free one busy, it yields an error
\* pointer; emu_dma_rw tests for NULL and goes on with it, which ends the thread.
Request(t, n, k) ==
  IF client > 0 \/ ~mtdma_alloc_chan_resources
  THEN Goto(t, "oops") /\ UNCHANGED <<client, call>>
  ELSE /\ Goto(t, "setup") /\ client' = 1
       /\ call' = [call EXCEPT ![t] = [sgs |-> n, it |-> k, my |-> 0, got |-> 1,
                                       freeing |-> FALSE]]

\* MT_IOCTL_MTDMA_RW with sizes that agree; others are refused at once
MtdmaRw(t) ==
  /\ pc[t] = "idle"
  /\ \E n \in Sgs, k \in TestCnts :
       /\ rounds + k <= MaxRounds /\ rounds' = rounds + k
       /\ Request(t, n, k)
  /\ UNCHANGED <<sem, nomem, done, chan, lists, engine, handler, tasklet, mishap, others>>

\* The pages, the scatterlist and its mapping; a failure releases the channel
Setup(t) ==
  /\ pc[t] = "setup"
  /\ \/ Goto(t, "down") /\ UNCHANGED <<call, nomem>>
     \/ /\ nomem < MaxNoMem /\ nomem' = nomem + 1
        /\ call' = [call EXCEPT ![t].freeing = TRUE]
        /\ Goto(t, "term")
  /\ UNCHANGED <<client, sem, rounds, done, chan, lists, engine, handler, tasklet, mishap,
                 others>>

\* down_interruptible
Down(t) ==
  /\ pc[t] = "down" /\ sem > 0
  /\ sem' = sem - 1 /\ Goto(t, "loop")
  /\ UNCHANGED <<call, client, rounds, nomem, done, chan, lists, engine, handler, tasklet,
                 mishap, others>>

\* A signal ends its sleep, and the call is over.
DownInterrupted(t) ==
  /\ pc[t] = "down" /\ sem = 0
  /\ call' = [call EXCEPT ![t].freeing = TRUE]
  /\ Goto(t, "term")
  /\ UNCHANGED <<client, sem, rounds, nomem, done, chan, lists, engine, handler, tasklet,
                 mishap, others>>

mtdma_device_config == configured' = TRUE

\* One round: reinit_completion, then mtdma_xfer begins with the configuration
Begin(t) ==
  /\ pc[t] = "loop" /\ call[t].it > 0
  /\ done' = 0 /\ mtdma_device_config
  /\ call' = [call EXCEPT ![t].my = 0]
  /\ Goto(t, "prep")
  /\ UNCHANGED <<client, sem, rounds, nomem, request, status, lists, engine, handler,
                 tasklet, mishap, others>>

\* Faulty variant: a last round that keeps the semaphore
LoopEndKeeps(t) ==
  /\ pc[t] = "loop" /\ call[t].it = 0
  /\ call' = [call EXCEPT ![t].freeing = TRUE]
  /\ Goto(t, "term")
  /\ UNCHANGED <<client, sem, rounds, nomem, done, chan, lists, engine, handler, tasklet,
                 mishap, others>>

LoopEnd(t) ==
  /\ pc[t] = "loop" /\ call[t].it = 0
  /\ sem' = sem + 1
  /\ call' = [call EXCEPT ![t].freeing = TRUE]
  /\ Goto(t, "term")
  /\ UNCHANGED <<client, rounds, nomem, done, chan, lists, engine, handler, tasklet, mishap,
                 others>>

\* The chunks that stand after k allocations: the descriptor, the head of the
\* chunks, then each chunk with the head of its bursts and its bursts.  A chunk
\* joins the list with its head burst.
Built(k) ==
  LET whole == (k - 2) \div ChunkObjects(LlMax)
      rest  == (k - 2) % ChunkObjects(LlMax)
  IN  [i \in 1..whole |-> LlMax] \o (IF rest >= 2 THEN <<rest - 2>> ELSE <<>>)

\* mtdma_alloc_desc and mtdma_alloc_chunk free what they could not complete,
\* mtdma_device_transfer the descriptor it could not
Freed(k) ==
  IF k < 2 THEN k
  ELSE mtdma_free_desc(Built(k))
         + (IF (k - 2) % ChunkObjects(LlMax) = 1 THEN 1 ELSE 0)

\* A descriptor, a chunk or a burst cannot be allocated, after k that could:
\* mtdma_xfer returns -1, which emu_dma_rw takes for a wait that was satisfied
AllocFails(t) ==
  /\ nomem < MaxNoMem /\ nomem' = nomem + 1
  /\ \E k \in 0 .. (mtdma_free_desc(Chunks(call[t].sgs)) - 1) :
       heap' = heap + k - Freed(k)
  /\ call' = [call EXCEPT ![t].got = 0]
  /\ Goto(t, "term") /\ UNCHANGED <<chunks, moved>>

\* mtdma_device_prep_slave_sg
Prep(t) ==
  /\ pc[t] = "prep" /\ configured
  /\ \/ /\ chunks' = Append(chunks, Chunks(call[t].sgs))
        /\ moved' = Append(moved, 0)
        /\ heap' = heap + mtdma_free_desc(Chunks(call[t].sgs))
        /\ call' = [call EXCEPT ![t].my = Len(chunks) + 1]
        /\ Goto(t, "submit") /\ UNCHANGED nomem
     \/ AllocFails(t)
  /\ UNCHANGED <<client, sem, rounds, done, chan, submitted, issued, completed, cookies,
                 hw, raw, handler, tasklet, mishap, others>>

\* The cookie never wraps within the bounds
dma_cookie_assign == cookie' = cookie + 1

vchan_tx_submit(t) ==
  /\ pc[t] = "submit"
  /\ dma_cookie_assign
  /\ submitted' = Append(submitted, call[t].my)
  /\ Goto(t, "issue")
  /\ UNCHANGED <<call, client, sem, rounds, nomem, done, chan, issued, completed, chunks,
                 completed_cookie, heap, engine, handler, tasklet, mishap, others>>

vchan_issue_pending == issued' = issued \o submitted /\ submitted' = <<>>

mtdma_device_issue_pending(t) ==
  /\ pc[t] = "issue" /\ Goto(t, "wait")
  /\ IF configured /\ request = "NONE" /\ status = "IDLE"
     THEN /\ vchan_issue_pending
          /\ IF issued' # <<>>
             THEN status' = "BUSY" /\ mtdma_start_transfer(issued')
             ELSE UNCHANGED <<status, chunks, heap, hw, raw, mishap>>
     ELSE UNCHANGED <<status, submitted, issued, chunks, heap, hw, raw, mishap>>
  /\ UNCHANGED <<call, client, sem, rounds, nomem, done, configured, request, completed, cookies,
                 moved, handler, tasklet, others>>

\* wait_for_completion_timeout
WaitDone(t) ==
  /\ pc[t] = "wait" /\ done > 0
  /\ done' = done - 1
  /\ call' = [call EXCEPT ![t].got = 0]
  /\ Goto(t, "term")
  /\ UNCHANGED <<client, sem, rounds, nomem, chan, lists, engine, handler, tasklet, mishap,
                 others>>

WaitTimeout(t) ==
  /\ pc[t] = "wait" /\ done = 0
  /\ call' = [call EXCEPT ![t].got = -1]
  /\ mishap' = mishap \cup {"timeout"}
  /\ Goto(t, "term")
  /\ UNCHANGED <<client, sem, rounds, nomem, done, chan, lists, engine, handler, tasklet,
                 others>>

\* mtdma_device_terminate_all, at the end of a round and, when the thread is
\* freeing, in mtdma_free_chan_resources; it takes no lock
TermRead(t) ==
  /\ pc[t] = "term"
  /\ IF configured /\ status = "BUSY"
     THEN Goto(t, "term_hw") /\ UNCHANGED configured
     ELSE Goto(t, "term_end") /\ configured' = FALSE
  /\ UNCHANGED <<call, client, sem, rounds, nomem, done, request, status, lists, engine,
                 handler, tasklet, mishap, others>>

TermHw(t) ==
  /\ pc[t] = "term_hw"
  /\ Goto(t, IF mtdma_v0_core_ch_status = "COMPLETE" THEN "term_idle" ELSE "term_stop")
  /\ UNCHANGED <<call, client, sem, rounds, nomem, done, chan, lists, engine, handler,
                 tasklet, mishap, others>>

TermIdle(t) ==
  /\ pc[t] = "term_idle"
  /\ status' = "IDLE" /\ configured' = FALSE
  /\ Goto(t, "term_end")
  /\ UNCHANGED <<call, client, sem, rounds, nomem, done, request, lists, engine, handler,
                 tasklet, mishap, others>>

TermStop(t) ==
  /\ pc[t] = "term_stop"
  /\ request' = "STOP"
  /\ Goto(t, "term_end")
  /\ UNCHANGED <<call, client, sem, rounds, nomem, done, configured, status, lists, engine,
                 handler, tasklet, mishap, others>>

TermEnd(t) ==
  /\ pc[t] = "term_end"
  /\ IF call[t].freeing
     THEN /\ Goto(t, "idle") /\ client' = 0
          /\ call' = [call EXCEPT ![t] = NoCall]
     ELSE /\ Goto(t, "loop") /\ UNCHANGED client
          /\ call' = [call EXCEPT ![t].it = @ - 1]
  /\ UNCHANGED <<sem, rounds, nomem, done, chan, lists, engine, handler, tasklet, mishap,
                 others>>

-----------------------------------------------------------------------------
\* The engine ends its chunk
HwStop ==
  /\ hw.busy
  /\ \E b \in Outcomes :
       /\ raw' = raw \cup b
       /\ moved' = [moved EXCEPT ![hw.d] = IF "ERR" \in b THEN @ ELSE @ + hw.n]
       /\ mishap' = IF "ERR" \in b THEN mishap \cup {"error"} ELSE mishap
  /\ hw' = [busy |-> FALSE, d |-> 0, n |-> 0]
  /\ UNCHANGED <<client_, done, chan, lists, handler, tasklet>>

\* mtdma_isr: read and clear INTR_RAW, then the two handlers
IsrRead ==
  /\ isr = "idle" /\ raw # {}
  /\ bits' = raw /\ raw' = {}
  /\ isr' = IF "DONE" \in raw THEN "done" ELSE "abort"
  /\ UNCHANGED <<client_, done, chan, lists, hw, moved, tasklet, mishap>>

IsrNext == /\ isr' = IF "ERR" \in bits THEN "abort" ELSE "idle"
           /\ bits' = {}

\* tasklet_schedule: on this CPU, where it runs once the handler has returned,
\* unless it is scheduled already
Scheduled == IF pending = "old" \/ isr' = "idle" THEN "old" ELSE "new"

\* Faulty variant: a done interrupt that forgets list_del
CompleteKeeps ==
  /\ completed_cookie' = Head(issued) + 1 /\ UNCHANGED <<cookie, issued>>
  /\ completed' = Append(completed, Head(issued))
  /\ pending' = Scheduled

\* Faulty variant: the newest cookie is taken for the completed one
cookie_complete_last == completed_cookie' = cookie /\ UNCHANGED cookie

dma_cookie_complete == completed_cookie' = Head(issued) + 1 /\ UNCHANGED cookie

\* list_del and vchan_cookie_complete of the first issued descriptor
Complete ==
  /\ dma_cookie_complete
  /\ issued' = Tail(issued)
  /\ completed' = Append(completed, Head(issued))
  /\ pending' = Scheduled

\* Faulty variant: a done interrupt that takes every interrupt for the last
done_interrupt_first ==
  /\ isr = "done" /\ IsrNext
  /\ IF issued = <<>> THEN UNCHANGED <<chan, lists, hw, raw, pending, mishap>>
     ELSE /\ Complete /\ status' = "IDLE" /\ request' = "NONE"
          /\ UNCHANGED <<configured, submitted, chunks, heap, hw, raw, mishap>>
  /\ UNCHANGED <<client_, done, moved, head, called>>

\* Faulty variant: a done interrupt without a break between the two cases
done_interrupt_through ==
  /\ isr = "done" /\ IsrNext
  /\ IF issued = <<>> THEN UNCHANGED <<chan, lists, hw, raw, pending, mishap>>
     ELSE /\ mtdma_start_transfer(issued)
          /\ Complete /\ status' = "IDLE" /\ request' = "NONE"
          /\ UNCHANGED <<configured, submitted>>
  /\ UNCHANGED <<client_, done, moved, head, called>>

mtdma_done_interrupt ==
  /\ isr = "done" /\ IsrNext
  /\ \/ /\ issued = <<>>
        /\ UNCHANGED <<chan, lists, hw, raw, pending, mishap>>
     \/ /\ issued # <<>> /\ request = "NONE" /\ chunks[Head(issued)] # <<>>
        /\ status' = "BUSY"
        /\ mtdma_start_transfer(issued)
        /\ UNCHANGED <<configured, request, submitted, issued, completed, cookies, pending>>
     \/ /\ issued # <<>> /\ (request = "STOP" \/ chunks[Head(issued)] = <<>>)
        /\ Complete
        /\ status' = "IDLE" /\ request' = "NONE"
        /\ UNCHANGED <<configured, submitted, chunks, heap, hw, raw, mishap>>
  /\ UNCHANGED <<client_, done, moved, head, called>>

mtdma_abort_interrupt ==
  /\ isr = "abort" /\ isr' = "reset" /\ bits' = {}
  /\ IF issued # <<>> THEN Complete ELSE UNCHANGED <<issued, completed, cookies, pending>>
  /\ UNCHANGED <<client_, done, chan, submitted, chunks, heap, engine, head, called, mishap>>

\* ... whose last two assignments come after the unlock
AbortReset ==
  /\ isr = "reset" /\ isr' = "idle"
  /\ request' = "NONE" /\ status' = "IDLE"
  /\ pending' = IF pending = "new" THEN "old" ELSE pending
  /\ UNCHANGED <<client_, done, configured, lists, engine, bits, head, called, mishap>>

\* The tasklet vchan_complete
Splice ==
  /\ pending = "old" /\ head = <<>>
  /\ pending' = "no"
  /\ head' = completed /\ completed' = <<>>
  /\ UNCHANGED <<client_, done, chan, submitted, issued, chunks, cookies, heap, engine, handler,
                 called, mishap>>

mtdma_test_callback == done' = done + 1

\* vchan_free_desc with the chunks that were never started
vchan_vdesc_fini(d) == heap' = heap - mtdma_free_desc(chunks[d])

\* The callback of one descriptor, which is then freed
Callback ==
  /\ head # <<>>
  /\ mtdma_test_callback
  /\ called' = Append(called, Head(head)) /\ head' = Tail(head)
  /\ vchan_vdesc_fini(Head(head))
  /\ UNCHANGED <<client_, chan, submitted, issued, completed, chunks, cookies, engine,
                 handler, pending, mishap>>

\* The calls on other channels.  What they do to the completion in their own
\* rounds is over when they release the semaphore: every round begins with
\* reinit_completion.  A wait of theirs that timed out leaves a callback behind.
OthersDown ==
  /\ sem > 0 /\ rounds < MaxRounds
  /\ sem' = sem - 1 /\ holding' = TRUE /\ rounds' = rounds + 1
  /\ UNCHANGED <<pc, call, client, nomem, late, done, chan, lists, engine, handler, tasklet,
                 mishap>>

OthersUp ==
  /\ holding /\ holding' = FALSE /\ sem' = sem + 1
  /\ \/ UNCHANGED <<late, mishap>>
     \/ late' = late + 1 /\ mishap' = mishap \cup {"timeout"}
  /\ UNCHANGED <<pc, call, client, rounds, nomem, done, chan, lists, engine, handler, tasklet>>

OthersCallback ==
  /\ late > 0 /\ late' = late - 1
  /\ mtdma_test_callback
  /\ UNCHANGED <<pc, call, client, sem, rounds, nomem, holding, chan, lists, engine, handler,
                 tasklet, mishap>>

Others == OthersDown \/ OthersUp \/ OthersCallback

ThreadStep(t) ==
  \/ Setup(t) \/ Down(t) \/ Begin(t) \/ LoopEnd(t) \/ Prep(t) \/ vchan_tx_submit(t)
  \/ mtdma_device_issue_pending(t) \/ WaitDone(t) \/ WaitTimeout(t)
  \/ TermRead(t) \/ TermHw(t) \/ TermIdle(t) \/ TermStop(t) \/ TermEnd(t)

Isr == IsrRead \/ mtdma_done_interrupt \/ mtdma_abort_interrupt \/ AbortReset

Next ==
  \/ \E t \in Threads : MtdmaRw(t) \/ ThreadStep(t) \/ DownInterrupted(t)
  \/ HwStop \/ Isr \/ Splice \/ Callback \/ Others

Spec == Init /\ [][Next]_vars

\* A thread in the kernel goes on running, as do the handler and the tasklet,
\* and whoever holds the semaphore releases it, since all waits have timeouts;
\* nothing is assumed of the engine, of signals and of the users
FairSpec == Spec /\ (\A t \in Threads : WF_vars(ThreadStep(t)))
                 /\ WF_vars(Isr) /\ WF_vars(Splice \/ Callback) /\ WF_vars(OthersUp)

-----------------------------------------------------------------------------
\* As long as no wait has timed out, the engine runs only the first issued
\* descriptor of a channel that is marked busy, and is never written to while
\* it runs: issue_pending, the done interrupt and the abort interrupt never
\* start it twice.
HwOwned ==
  "timeout" \notin mishap =>
    /\ hw.busy => status = "BUSY" /\ issued # <<>> /\ Head(issued) = hw.d
    /\ "clobber" \notin mishap

\* As long as no wait has timed out, here or in another client of the same
\* number, a round of emu_dma_rw that was woken (my # 0: its descriptor could be
\* allocated) was woken by the callback of its own descriptor, and if the engine
\* reported no error, all of the scatterlist has been moved.
OwnSuccess ==
  \A t \in Threads :
     (/\ "timeout" \notin mishap
      /\ pc[t] = "term" /\ ~call[t].freeing /\ call[t].got = 0 /\ call[t].my # 0)
       => /\ called # <<>> /\ called[Len(called)] = call[t].my
          /\ "error" \notin mishap => moved[call[t].my] = call[t].sgs

\* dma_cookie_status of descriptor d, whose cookie is d + 1
dma_cookie_status(d) ==
  IF d + 1 <= completed_cookie \/ d + 1 > cookie THEN "COMPLETE" ELSE "IN_PROGRESS"

vchan_find_desc(d) == \E i \in DOMAIN issued : issued[i] = d

\* mtdma_device_tx_status: the status, and as residue the bursts of the chunks
\* that were not yet started.  PAUSE is no status the driver ever sets.
mtdma_device_tx_status(d) ==
  [status  |-> dma_cookie_status(d),
   residue |-> IF dma_cookie_status(d) = "IN_PROGRESS" /\ vchan_find_desc(d)
               THEN Total(chunks[d]) ELSE 0]

Submitted == {d \in DOMAIN chunks : \A t \in Threads : pc[t] = "submit" => call[t].my # d}
Finished  == {d \in DOMAIN chunks :
                \E q \in {completed, head, called} : \E i \in DOMAIN q : q[i] = d}

\* What mtdma_device_tx_status says of a submitted descriptor is so: it is
\* complete exactly when the interrupt has taken it off the issued list, and as
\* long as no wait timed out and the engine reported no error, what was moved,
\* what the engine holds and the residue of an issued one make up the whole
\* scatterlist of the thread that waits for it.
StatusTruthful ==
  \A d \in Submitted :
    LET tx == mtdma_device_tx_status(d) IN
    /\ tx.status = "COMPLETE" <=> d \in Finished
    /\ vchan_find_desc(d) /\ mishap = {} =>
         \E t \in Threads :
           /\ call[t].my = d
           /\ moved[d] + (IF hw.d = d THEN hw.n ELSE 0) + tx.residue = call[t].sgs

\* Every object that mtdma_device_prep_slave_sg allocated is freed once: at any
\* time those of the descriptors that were not yet called back are allocated,
\* less the chunks that were started, and no other, wherever an allocation
\* failed and whatever the engine and the interrupts did.
HeapExact ==
  heap = Total([d \in DOMAIN chunks |->
                  IF \E i \in DOMAIN called : called[i] = d THEN 0
                  ELSE mtdma_free_desc(chunks[d])])

Client == INSTANCE DmaEngine WITH
            queued <- submitted, active <- issued, finished <- head \o completed

\* The channel implements the abstract one, whatever the engine does and
\* however often the client gives up: descriptors finish in the order of their
\* cookies and each is called back once.
EngineRefined == Client!Spec

\* Every MT_IOCTL_MTDMA_RW that got its channel returns, even when the engine
\* never answers and other clients take the semaphore first: it waits neither
\* for the semaphore nor for its rounds for ever, and needs no signal.
RwReturns == (client = 1) ~> (client = 0)
=============================================================================
