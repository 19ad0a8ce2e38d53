------------------------------ MODULE DmaDesc ------------------------------
(***************************************************************************)
(* The descriptor list that dma_bare_xfer() writes for one call with       *)
(* desc_cnt != 0, and the engine that walks it.                            *)
(*                                                                         *)
(* Chain mode (block_cnt = 0) writes one list, block mode one list per     *)
(* block.  Descriptor 0 goes to the channel registers, the others to the   *)
(* list memory of the channel, which is counted here in descriptors (32    *)
(* bytes): slot s is the address ll_laddr + 32 * s, and ll_laddr is a      *)
(* multiple of 1024.  Source and destination advance together, so one      *)
(* offset, pos, stands for sar_tmp - sar and dar_tmp - dar.                *)
(***************************************************************************)
EXTENDS Integers, Sequences

CONSTANTS
  Calls,      \* the calls: size, desc_cnt, its random flag, block_cnt, list in host memory
  RandSizes,  \* the values of size_rand
  Align,      \* slots in 1024 bytes: 32
  Word,       \* 2^32
  CntMod      \* 2^16: the count field of LBAR_BASIC and desc_op has 16 bits

Register == -1

CallType == [size : 1 .. (Word - 1), cnt : Nat, rnd : BOOLEAN, blocks : Nat,
             host : BOOLEAN]

ASSUME ParametersAssumption ==
  /\ Word \in Nat \ {0} /\ Align \in Nat \ {0} /\ CntMod \in Nat \ {0}
  /\ RandSizes \subseteq Nat \ {0}
  /\ Calls \subseteq {q \in CallType : q.rnd \/ q.cnt > 0}

VARIABLES
  call,     \* the arguments
  pc,       \* "block", "gen", "desc": the loops; "walk", "done", "lost": the engine
  j, i,     \* the block and the descriptor in it
  left,     \* size_tmp
  pos,      \* sar_tmp - sar
  elm,      \* elm_cnt
  ends,     \* running sums of desc_size: desc_size[k] = ends[k + 2] - ends[k + 1]
  ndesc,    \* desc_cnt_tmp
  offset,   \* padding slots so far
  total,    \* desc_cnt_total
  lbar,     \* the count in REG_DMA_CH_LBAR_BASIC
  list,     \* the descriptors in the order they were written
  rem,      \* engine: descriptors left in the current block
  fetched   \* engine: the descriptors it executed

args   == <<call>>
loop   == <<j, i, left, pos, elm, ends, ndesc, offset, total>>
memory == <<lbar, list>>
engine == <<rem, fetched>>
vars   == <<args, pc, loop, memory, engine>>

\* Faulty variant: a wider subtraction.
SubWide(a, b) == a - b

\* u32 subtraction
Sub(a, b) == IF a >= b THEN a - b ELSE a - b + Word

Last(s) == s[Len(s)]

IsBlock == call.blocks > 0
Blocks  == IF IsBlock THEN call.blocks ELSE 1

Init ==
  /\ call \in Calls
  /\ pc = "block"
  /\ j = 0 /\ i = 0 /\ left = call.size /\ pos = 0 /\ elm = 0
  /\ ends = <<0>> /\ ndesc = 0 /\ offset = 0 /\ total = 0
  /\ lbar = 0 /\ list = <<>>
  /\ rem = 0 /\ fetched = <<>>
-----------------------------------------------------------------------------
\* Where the data of block k begins.  j * size is a product of 32-bit numbers,
\* cut to 32 bits before it is added to the 64-bit sar and dar.
BlockStart(k) == (k * call.size) % Word

\* Block j begins.  Without the random flag every descriptor but the last has
\* size / (desc_cnt + 1) bytes, or size / desc_cnt after block 0.
BeginBlock ==
  /\ pc = "block" /\ j < Blocks
  /\ left' = call.size
  /\ pos' = BlockStart(j)
  /\ i' = 0
  /\ ends' = <<0>>
  /\ \/ call.rnd /\ pc' = "gen" /\ UNCHANGED <<ndesc, elm>>
     \/ /\ ~call.rnd
        /\ pc' = "desc"
        /\ ndesc' = call.cnt
        /\ elm' = call.size \div (IF j = 0 THEN call.cnt + 1 ELSE call.cnt)
  /\ UNCHANGED <<args, j, offset, total, memory, engine>>

\* Random sizes until the whole size is used up.
GenSize ==
  /\ pc = "gen" /\ left # 0
  /\ \E r \in RandSizes :
       LET d == IF r > left THEN left ELSE r IN
       /\ ends' = Append(ends, Last(ends) + d)
       /\ left' = left - d
  /\ UNCHANGED <<args, pc, j, i, pos, elm, ndesc, offset, total, memory, engine>>

\* desc_cnt_tmp is the last index, or the number of sizes after block 0.
GenEnd ==
  /\ pc = "gen" /\ left = 0
  /\ ndesc' = IF j = 0 THEN Len(ends) - 2 ELSE Len(ends) - 1
  /\ elm' = 0
  /\ pc' = "desc"
  /\ UNCHANGED <<args, j, i, left, pos, ends, offset, total, memory, engine>>

LastIndex == IF j = 0 THEN ndesc ELSE ndesc - 1

\* Faulty variant: the padding is not added to the slot.
SlotUnpadded ==
  IF j = 0
  THEN IF i = 0 THEN Register ELSE i - 1
  ELSE i + (IF call.rnd /\ ~call.host THEN total ELSE j * ndesc)

\* Faulty variant: every block starts at the beginning of the list memory.
SlotRestarted ==
  IF j = 0
  THEN IF i = 0 THEN Register ELSE i - 1
  ELSE i + offset

\* The slot of descriptor i.  After block 0 it is counted from the sizes of
\* the blocks before it: their sum for a random list in the device, and j
\* times the size of this one otherwise.
Slot ==
  IF j = 0
  THEN IF i = 0 THEN Register ELSE i - 1
  ELSE i + (IF call.rnd /\ ~call.host THEN total ELSE j * ndesc) + offset

\* The next slot, as lar is computed from i rather than from the slot.
NextSlot == IF j = 0 THEN i + offset ELSE Slot + 1

\* Padding of the last lar of a block up to a multiple of 1024 bytes.
Pad == IF IsBlock /\ i = LastIndex THEN Align - (NextSlot % Align) ELSE 0

\* Faulty variant: elm_cnt is used for the last descriptor too, and before it
\* is set.
CountElm == elm

Count ==
  IF call.rnd THEN ends[i + 2] - ends[i + 1]
  ELSE IF i = LastIndex THEN left ELSE elm

Descriptor ==
  [at  |-> Slot,
   pos |-> pos,
   n   |-> Sub(Count, 1),
   lar |-> NextSlot + Pad,
   op  |-> IF IsBlock /\ i = LastIndex /\ j # call.blocks - 1
           THEN ndesc % CntMod ELSE 0]

\* Faulty variant: LBAR_BASIC counts the descriptor in the registers too.
WriteDescCountAll ==
  /\ pc = "desc"
  /\ list' = Append(list, Descriptor)
  /\ lbar' = IF j = 0 /\ i = 0 THEN (ndesc + 1) % CntMod ELSE lbar
  /\ elm' = IF call.rnd THEN Count ELSE elm
  /\ IF IsBlock /\ j = 0
     THEN UNCHANGED <<pos, left>>
     ELSE pos' = pos + elm' /\ left' = Sub(left, Count)
  /\ offset' = offset + Pad
  /\ IF i = LastIndex
     THEN i' = 0 /\ j' = j + 1 /\ total' = total + ndesc /\ pc' = "block"
     ELSE i' = i + 1 /\ UNCHANGED <<j, total, pc>>
  /\ UNCHANGED <<args, ends, ndesc, engine>>

\* One pass of the loop that fills the list.  Block 0 of block mode does not
\* advance the addresses or the remaining size.
WriteDesc ==
  /\ pc = "desc"
  /\ list' = Append(list, Descriptor)
  /\ lbar' = IF j = 0 /\ i = 0 THEN ndesc % CntMod ELSE lbar
  /\ elm' = IF call.rnd THEN Count ELSE elm
  /\ IF IsBlock /\ j = 0
     THEN UNCHANGED <<pos, left>>
     ELSE pos' = pos + elm' /\ left' = Sub(left, Count)
  /\ offset' = offset + Pad
  /\ IF i = LastIndex
     THEN i' = 0 /\ j' = j + 1 /\ total' = total + ndesc /\ pc' = "block"
     ELSE i' = i + 1 /\ UNCHANGED <<j, total, pc>>
  /\ UNCHANGED <<args, ends, ndesc, engine>>
-----------------------------------------------------------------------------
(* The engine.  It executes the descriptor in the registers and follows lar *)
(* for the number of descriptors in LBAR_BASIC; the descriptor that ends a  *)
(* block holds the number of the next block in desc_op.                     *)

\* All blocks are written and the channel is enabled.
EngineStart ==
  /\ pc = "block" /\ j = Blocks
  /\ fetched' = <<list[1]>>
  /\ rem' = lbar
  /\ pc' = "walk"
  /\ UNCHANGED <<args, loop, memory>>

\* The indices of the descriptors written to a slot; the last one is there.
WrittenTo(slot) == {k \in 1 .. Len(list) : list[k].at = slot}

EngineFetch ==
  LET d == Last(fetched)
      n == IF rem > 0 THEN rem ELSE d.op
  IN
  /\ pc = "walk"
  /\ IF n = 0
     THEN pc' = "done" /\ UNCHANGED <<rem, fetched>>
     ELSE IF WrittenTo(d.lar) = {}
     THEN pc' = "lost" /\ UNCHANGED <<rem, fetched>>
     ELSE \E k \in WrittenTo(d.lar) :
            /\ \A l \in WrittenTo(d.lar) : l <= k
            /\ fetched' = Append(fetched, list[k])
            /\ rem' = n - 1
            /\ pc' = "walk"
  /\ UNCHANGED <<args, loop, memory>>
-----------------------------------------------------------------------------
Next == BeginBlock \/ GenSize \/ GenEnd \/ WriteDesc \/ EngineStart \/ EngineFetch

Spec == Init /\ [][Next]_vars
-----------------------------------------------------------------------------
DescType == [at : Int, pos : Nat, n : 0 .. (Word - 1), lar : Int, op : Nat]

TypeOK ==
  /\ call \in Calls
  /\ pc \in {"block", "gen", "desc", "walk", "done", "lost"}
  /\ j \in Nat /\ i \in Nat /\ left \in 0 .. (Word - 1) /\ pos \in Nat
  /\ elm \in 0 .. (Word - 1)
  /\ ends \in Seq(0 .. (Word - 1)) /\ Len(ends) > 0
  /\ ndesc \in Nat /\ offset \in Nat /\ total \in Nat
  /\ lbar \in Nat /\ list \in Seq(DescType)
  /\ rem \in Nat /\ fetched \in Seq(DescType)

\* The count of every list fits in the 16 bits of LBAR_BASIC and desc_op.
Fits == ndesc < CntMod

\* A list whose slots are computed from what was written before: all but the
\* random lists of several blocks in host memory.
Linkable == call.rnd /\ call.host => call.blocks <= 1

\* Every descriptor is where lar of the one before it points to, the padding
\* at the end of a block included.
Linked ==
  Linkable => \A k \in 1 .. Len(list) - 1 : list[k + 1].at = list[k].lar

\* No descriptor overwrites an earlier one of the call.
NoOverwrite ==
  Linkable => \A k, l \in 1 .. Len(list) : list[k].at = list[l].at => k = l

\* A size that leaves no descriptor empty.
Divisible == call.rnd \/ call.size > call.cnt

\* The descriptors of chain mode tile the data: each starts where the one
\* before it ends, the first at 0.
ChainTiles ==
  ~IsBlock /\ Divisible =>
    /\ Len(list) > 0 => list[1].pos = 0
    /\ \A k \in 1 .. Len(list) - 1 : list[k + 1].pos = list[k].pos + list[k].n + 1
    /\ pc \in {"walk", "done"} => Last(list).pos + Last(list).n + 1 = call.size

\* The engine executes what was written, in the order it was written, and
\* stops at the end of it.
EngineFollows ==
  (~call.rnd \/ ~IsBlock) /\ Fits =>
    /\ pc # "lost"
    /\ pc \in {"walk", "done"} => fetched = SubSeq(list, 1, Len(fetched))
    /\ pc = "done" => Len(fetched) = Len(list)

Covered(b) == \E k \in 1 .. Len(fetched) :
                fetched[k].pos <= b /\ b <= fetched[k].pos + fetched[k].n

\* No block begins beyond the 2^32 bytes at which BlockStart wraps.
Unwrapped == (Blocks - 1) * call.size < Word

\* When the engine has stopped, all size bytes from the start of every block
\* were transferred; and the blocks together are the whole range, without a
\* gap, if no block's start has wrapped.  (If one has, the blocks overlap and
\* the end of the range is not transferred.)
AllCovered ==
  pc = "done" /\ Fits /\ Divisible =>
    /\ \A k \in 0 .. Blocks - 1 :
         \A b \in 0 .. call.size - 1 : Covered(BlockStart(k) + b)
    /\ Unwrapped => \A b \in 0 .. call.size * Blocks - 1 : Covered(b)

\* AllCovered, except for random sizes in block mode, where most of block 0 is
\* left out.
Covers == ~(call.rnd /\ IsBlock) => AllCovered

=============================================================================
