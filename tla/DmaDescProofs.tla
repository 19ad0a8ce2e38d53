--------------------------- MODULE DmaDescProofs ---------------------------
(***************************************************************************)
(* Proofs about DmaDesc, for every call, every choice of random sizes and  *)
(* every alignment.                                                        *)
(***************************************************************************)
EXTENDS DmaDesc, SequenceTheorems, TLAPS

\* Where the loops are.
Loops ==
  /\ j <= Blocks
  /\ pc \in {"gen", "desc"} => j < Blocks
  /\ pc \in {"walk", "done", "lost"} => j = Blocks /\ Len(fetched) > 0
  /\ pc # "desc" => i = 0
  /\ pc = "desc" => i <= LastIndex
  /\ ~call.rnd /\ (pc = "desc" \/ j > 0) => ndesc = call.cnt
  /\ IF j = 0 THEN Len(list) = i /\ offset = 0 /\ total = 0 ELSE Len(list) > 0

\* The random sizes of a block add up to the size of the call.
Increasing(s) == \A k \in 1 .. Len(s) - 1 : s[k] < s[k + 1]

Sizes ==
  /\ pc = "gen" => /\ call.rnd
                   /\ ends[1] = 0 /\ Increasing(ends)
                   /\ Last(ends) + left = call.size
  /\ pc = "desc" /\ call.rnd =>
       /\ ends[1] = 0 /\ Increasing(ends)
       /\ Last(ends) = call.size
       /\ Len(ends) = (IF j = 0 THEN ndesc + 2 ELSE ndesc + 1)

\* The slot of the next descriptor of the call.
NextAt ==
  IF j = 0 THEN i - 1
  ELSE i + (IF call.rnd /\ ~call.host THEN total ELSE j * call.cnt) + offset

\* It is where the last descriptor points to, and above all slots in use.
Linking ==
  Linkable /\ j < Blocks =>
    /\ Len(list) > 0 => Last(list).lar = NextAt
    /\ \A k \in 1 .. Len(list) : list[k].at < NextAt

Ascending ==
  Linkable => \A k, l \in 1 .. Len(list) : k < l => list[k].at < list[l].at

\* Chain mode: the data up to pos is tiled by what is written.
Tiling ==
  ~IsBlock /\ Divisible =>
    /\ pc \in {"gen", "desc"} /\ i = 0 => pos = 0
    /\ pc = "desc" /\ i > 0 =>
         list[1].pos = 0 /\ pos = Last(list).pos + Last(list).n + 1
    /\ pc = "desc" /\ ~call.rnd =>
         /\ pos + left = call.size
         /\ elm >= 1 /\ left >= (ndesc + 1 - i) * elm
    /\ pc = "desc" /\ call.rnd => pos = ends[i + 1]
    /\ j > 0 => /\ list[1].pos = 0
                /\ Last(list).pos + Last(list).n + 1 = call.size

IInv == TypeOK /\ Loops /\ Sizes /\ Linking /\ Linked /\ Ascending /\ Tiling
        /\ ChainTiles
-----------------------------------------------------------------------------
(* Arithmetic *)

LEMMA DivFacts ==
  ASSUME NEW a \in Nat, NEW m \in Nat, m > 0
  PROVE  /\ a \div m \in Nat
         /\ m * (a \div m) <= a
         /\ a \div m <= a
         /\ a >= m => a \div m >= 1
<1> DEFINE q == a \div m
           r == a % m
<1>1. q \in Int /\ r \in 0 .. (m - 1) /\ a = m * q + r
  OBVIOUS
<1>2. q >= 0
  <2>1. ASSUME q <= -1 PROVE FALSE
    <3>1. m * q <= -m
      BY <1>1, <2>1
    <3> QED
      BY <1>1, <3>1
  <2> QED
    BY <1>1, <2>1
<1>3. q <= m * q
  BY <1>1, <1>2
<1>4. ASSUME a >= m, q = 0 PROVE FALSE
  <2>1. m * q = 0
    BY <1>4
  <2> QED
    BY <1>1, <1>4, <2>1
<1> HIDE DEF q, r
<1>5. q \in Nat /\ m * q <= a /\ q <= a /\ (a >= m => q >= 1)
  BY <1>1, <1>2, <1>3, <1>4
<1> QED
  BY <1>5 DEF q

LEMMA DivModFacts ==
  ASSUME NEW a \in Nat, NEW m \in Nat, m > 0
  PROVE  \E q \in Int : \E r \in 0 .. (m - 1) :
            q = a \div m /\ r = a % m /\ a = m * q + r
  OBVIOUS

LEMMA ModFacts ==
  ASSUME NEW a \in Int, NEW m \in Nat, m > 0
  PROVE  a % m \in 0 .. (m - 1)
  OBVIOUS

LEMMA SubType ==
  ASSUME NEW a \in 0 .. (Word - 1), NEW b \in 0 .. (Word - 1)
  PROVE  Sub(a, b) \in 0 .. (Word - 1)
  BY ParametersAssumption DEF Sub

LEMMA ProductStep ==
  ASSUME NEW a \in Int, NEW b \in Int
  PROVE  (a + 1) * b = a * b + b
  OBVIOUS
-----------------------------------------------------------------------------
(* The step that writes a descriptor *)

LEMMA CallFacts ==
  ASSUME TypeOK
  PROVE  /\ call.size \in 1 .. (Word - 1) /\ call.cnt \in Nat
         /\ call.rnd \in BOOLEAN /\ call.blocks \in Nat /\ call.host \in BOOLEAN
         /\ call.rnd \/ call.cnt > 0
         /\ Blocks \in Nat /\ Blocks > 0
  BY ParametersAssumption DEF TypeOK, CallType, Blocks, IsBlock

LEMMA BlockStartFacts ==
  ASSUME TypeOK, NEW k \in Nat
  PROVE  /\ BlockStart(k) \in Nat
         /\ k = 0 => BlockStart(k) = 0
         /\ k * call.size < Word => BlockStart(k) = k * call.size
<1> DEFINE x == k * call.size
<1>1. call.size \in Nat /\ Word \in Nat /\ Word > 0
  BY CallFacts, ParametersAssumption
<1>2. x \in Nat /\ (k = 0 => x = 0)
  BY <1>1
<1> HIDE DEF x
<1>3. x % Word \in 0 .. (Word - 1) /\ (x < Word => x % Word = x)
  BY <1>1, <1>2, ModFacts
<1>4. BlockStart(k) = x % Word
  BY DEF BlockStart, x
<1>5. BlockStart(k) \in Nat /\ (k = 0 => BlockStart(k) = 0)
  BY <1>1, <1>2, <1>3, <1>4
<1>6. x < Word => BlockStart(k) = x
  BY <1>3, <1>4
<1> QED
  BY <1>5, <1>6 DEF x

LEMMA EndsFacts ==
  ASSUME TypeOK
  PROVE  /\ Len(ends) \in Nat /\ Len(ends) >= 1
         /\ Last(ends) \in 0 .. (Word - 1) /\ Last(ends) \in Nat
         /\ left \in 0 .. (Word - 1) /\ left \in Nat
<1>1. /\ ends \in Seq(0 .. (Word - 1)) /\ Len(ends) > 0
      /\ left \in 0 .. (Word - 1)
  BY DEF TypeOK
<1>2. Word \in Nat
  BY ParametersAssumption
<1>3. Len(ends) \in Nat /\ Len(ends) \in 1 .. Len(ends)
  BY <1>1
<1>4. ends[Len(ends)] \in 0 .. (Word - 1)
  <2> DEFINE W == 0 .. (Word - 1)
  <2>1. ends \in Seq(W)
    BY <1>1
  <2> HIDE DEF W
  <2>2. ends[Len(ends)] \in W
    BY <1>3, <2>1
  <2> QED
    BY <2>2 DEF W
<1> QED
  BY <1>1, <1>2, <1>3, <1>4 DEF Last

LEMMA CountFacts ==
  ASSUME TypeOK, Loops, Sizes, pc = "desc"
  PROVE  /\ Count \in 0 .. (Word - 1)
         /\ call.rnd => /\ Count >= 1
                        /\ ends[i + 2] = ends[i + 1] + Count
                        /\ i = LastIndex => ends[i + 2] = call.size
<1> USE CallFacts, ParametersAssumption
<1>1. CASE ~call.rnd
  BY <1>1 DEF Count, TypeOK
<1>2. CASE call.rnd
  <2>1. i + 1 \in 1 .. Len(ends) - 1 /\ i + 2 \in 1 .. Len(ends)
    BY <1>2 DEF Loops, Sizes, LastIndex, TypeOK
  <2>2. ends[i + 1] \in 0 .. (Word - 1) /\ ends[i + 2] \in 0 .. (Word - 1)
    BY <2>1, SMTT(30) DEF TypeOK
  <2>3. ends[i + 1] < ends[i + 2]
    <3>1. ends[i + 1] < ends[(i + 1) + 1]
      BY <1>2, <2>1 DEF Sizes, Increasing
    <3>2. (i + 1) + 1 = i + 2
      BY DEF TypeOK
    <3> QED
      BY <3>1, <3>2
  <2>4. i = LastIndex => i + 2 = Len(ends)
    BY <1>2 DEF Sizes, LastIndex, TypeOK
  <2> QED
    BY <1>2, <2>2, <2>3, <2>4, SMTT(30) DEF Count, Sizes, Last
<1> QED
  BY <1>1, <1>2

LEMMA SlotFacts ==
  ASSUME TypeOK, Loops, pc = "desc"
  PROVE  /\ Slot \in Int /\ NextSlot \in Int /\ Pad \in Nat
         /\ LastIndex \in Int
         /\ Linkable => Slot = NextAt
         /\ i # LastIndex \/ ~IsBlock => Pad = 0
<1> USE CallFacts, ParametersAssumption
<1>1. Slot \in Int
  <2>1. j * ndesc \in Int
    BY DEF TypeOK
  <2> QED
    BY <2>1 DEF Slot, Register, TypeOK
<1>2. NextSlot \in Int
  BY <1>1 DEF NextSlot, TypeOK
<1>3. Pad \in Nat
  <2>1. NextSlot % Align \in 0 .. (Align - 1)
    BY <1>2, ModFacts
  <2> QED
    BY <2>1 DEF Pad
<1>4. LastIndex \in Int
  BY DEF LastIndex, TypeOK
<1>5. Linkable => Slot = NextAt
  <2>1. ASSUME j > 0, Linkable PROVE ~(call.rnd /\ call.host)
    BY <2>1 DEF Loops, Linkable, Blocks, IsBlock, TypeOK
  <2>2. CASE j = 0
    BY <2>2 DEF Slot, NextAt, Register, TypeOK
  <2>3. CASE j > 0 /\ call.rnd
    BY <2>1, <2>3 DEF Slot, NextAt, TypeOK
  <2>4. CASE j > 0 /\ ~call.rnd
    <3>1. ndesc = call.cnt
      BY <2>4 DEF Loops
    <3> QED
      BY <2>4, <3>1 DEF Slot, NextAt, TypeOK
  <2> QED
    BY <2>2, <2>3, <2>4 DEF TypeOK
<1>6. i # LastIndex \/ ~IsBlock => Pad = 0
  BY DEF Pad
<1> QED
  BY <1>1, <1>2, <1>3, <1>4, <1>5, <1>6

LEMMA DescriptorFacts ==
  ASSUME TypeOK, Loops, Sizes, pc = "desc"
  PROVE  /\ Descriptor \in DescType
         /\ Descriptor.at = Slot /\ Descriptor.pos = pos
         /\ Descriptor.lar = NextSlot + Pad
         /\ Count >= 1 => Descriptor.n = Count - 1
<1>1. Sub(Count, 1) \in 0 .. (Word - 1) /\ (Count >= 1 => Sub(Count, 1) = Count - 1)
  BY CountFacts, ParametersAssumption DEF Sub
<1>2. ndesc % CntMod \in Nat
  BY ModFacts, ParametersAssumption DEF TypeOK
<1>3. pos \in Nat
  BY DEF TypeOK
<1> QED
  BY <1>1, <1>2, <1>3, SlotFacts DEF Descriptor, DescType
-----------------------------------------------------------------------------
LEMMA InitIInv == Init => IInv
<1> SUFFICES ASSUME Init PROVE IInv
  OBVIOUS
<1> USE ParametersAssumption
<1>1. TypeOK
  BY DEF Init, TypeOK, CallType
<1> QED
  BY <1>1, CallFacts
  DEF Init, IInv, Loops, Sizes, Linking, Linked, Ascending, Tiling,
      ChainTiles, NextAt

LEMMA BeginBlockIInv == IInv /\ BeginBlock => IInv'
<1> SUFFICES ASSUME IInv, BeginBlock PROVE IInv'
  OBVIOUS
<1> USE ParametersAssumption, CallFacts
<1>0. TypeOK
  BY DEF IInv
<1>a. /\ call' = call /\ list' = list /\ j' = j /\ offset' = offset
      /\ total' = total /\ i' = 0 /\ i = 0 /\ pc = "block" /\ j < Blocks
  BY DEF BeginBlock, args, memory, IInv, Loops
<1>1. TypeOK'
  <2>1. BlockStart(j) \in Nat
    BY <1>0, BlockStartFacts DEF TypeOK
  <2>2. ASSUME NEW m \in Nat, m > 0
        PROVE  call.size \div m \in 0 .. (Word - 1)
    <3>1. call.size \in Nat /\ call.size <= Word - 1 /\ Word \in Nat
      BY <1>0
    <3>2. call.size \div m \in Nat /\ call.size \div m <= call.size
      BY <2>2, <3>1, DivFacts
    <3> QED
      BY <3>1, <3>2
  <2>3. elm' \in 0 .. (Word - 1) /\ ndesc' \in Nat
    <3>1. CASE call.rnd
      BY <1>0, <3>1 DEF BeginBlock, TypeOK
    <3>2. CASE ~call.rnd
      <4> DEFINE m == IF j = 0 THEN call.cnt + 1 ELSE call.cnt
      <4>1. m \in Nat /\ m > 0
        BY <1>0, <3>2
      <4>2. elm' = call.size \div m /\ ndesc' = call.cnt
        BY <3>2 DEF BeginBlock
      <4> HIDE DEF m
      <4> QED
        BY <1>0, <2>2, <4>1, <4>2
    <3> QED
      BY <3>1, <3>2
  <2>4. pc' \in {"gen", "desc"} /\ ends' = <<0>> /\ left' = call.size
        /\ pos' \in Nat
    BY <1>0, <2>1 DEF BeginBlock
  <2> QED
    BY <1>0, <1>a, <2>3, <2>4, SMTT(30) DEF BeginBlock, TypeOK, memory, engine
<1>2. Loops'
  <2>1. CASE call.rnd
    BY <1>0, <1>a, <2>1 DEF BeginBlock, IInv, Loops, LastIndex, Blocks, IsBlock, TypeOK
  <2>2. CASE ~call.rnd
    <3>1. ndesc' = call.cnt /\ call.cnt > 0 /\ pc' = "desc"
      BY <1>0, <2>2 DEF BeginBlock
    <3> QED
      BY <1>0, <1>a, <2>2, <3>1 DEF IInv, Loops, LastIndex, Blocks, IsBlock, TypeOK
  <2> QED
    BY <2>1, <2>2
<1>3. Sizes'
  BY <1>0, <1>a DEF BeginBlock, Sizes, Increasing, Last
<1>4. Linking' /\ Linked' /\ Ascending'
  BY <1>0, <1>a
  DEF IInv, Linking, Linked, Ascending, Linkable, NextAt, Blocks, IsBlock, Last
<1>5. Tiling'
  <2> SUFFICES ASSUME ~IsBlock, Divisible PROVE Tiling'
    BY <1>a DEF Tiling, IsBlock, Divisible
  <2>1. j = 0 /\ pos' = 0 /\ left' = call.size
    BY <1>0, <1>a, BlockStartFacts DEF BeginBlock, Blocks, TypeOK
  <2>2. CASE call.rnd
    BY <1>0, <1>a, <2>1, <2>2 DEF BeginBlock, Tiling
  <2>3. CASE ~call.rnd
    <3>1. ndesc' = call.cnt /\ elm' = call.size \div (call.cnt + 1) /\ pc' = "desc"
      BY <2>1, <2>3 DEF BeginBlock
    <3>2. call.size >= call.cnt + 1
      BY <1>0, <2>3 DEF Divisible
    <3>3. elm' >= 1 /\ call.size >= (call.cnt + 1) * elm'
      BY <1>0, <3>1, <3>2, DivFacts
    <3> QED
      BY <1>0, <1>a, <2>1, <2>3, <3>1, <3>3 DEF Tiling, TypeOK
  <2> QED
    BY <2>2, <2>3
<1>6. ChainTiles'
  BY <1>a DEF BeginBlock, IInv, ChainTiles, IsBlock, Divisible, Last
<1> QED
  BY <1>1, <1>2, <1>3, <1>4, <1>5, <1>6 DEF IInv

LEMMA GenSizeIInv == IInv /\ GenSize => IInv'
<1> SUFFICES ASSUME IInv, GenSize PROVE IInv'
  OBVIOUS
<1> USE ParametersAssumption, CallFacts
<1>0. TypeOK
  BY DEF IInv
<1>a. /\ UNCHANGED <<call, pc, j, i, pos, elm, ndesc, offset, total, list>>
      /\ pc = "gen"
  BY DEF GenSize, args, memory
<1>1. PICK r \in RandSizes :
        /\ ends' = Append(ends, Last(ends) + (IF r > left THEN left ELSE r))
        /\ left' = left - (IF r > left THEN left ELSE r)
  BY DEF GenSize
<1> DEFINE d == IF r > left THEN left ELSE r
<1>2. d \in 1 .. left /\ left \in Nat /\ Last(ends) \in Nat
      /\ Last(ends) + left = call.size
  <2>1. left # 0 /\ Last(ends) + left = call.size
    BY <1>a DEF GenSize, IInv, Sizes
  <2>2. r \in Nat /\ r > 0
    BY <1>1
  <2> QED
    BY <1>0, <2>1, <2>2, EndsFacts
<1>3. ends' = Append(ends, Last(ends) + d) /\ left' = left - d
  BY <1>1
<1> HIDE DEF d
<1>4. TypeOK'
  <2>1. Last(ends) + d \in 0 .. (Word - 1) /\ left - d \in 0 .. (Word - 1)
    <3>1. call.size \in 0 .. (Word - 1) /\ left \in 0 .. (Word - 1) /\ Word \in Nat
      BY <1>0, EndsFacts
    <3> QED
      BY <1>2, <3>1
  <2> QED
    BY <1>0, <1>a, <1>3, <2>1 DEF GenSize, TypeOK, memory, engine
<1>5. Loops'
  BY <1>a DEF IInv, Loops, LastIndex, Blocks, IsBlock
<1>6. Sizes'
  <2>1. /\ Len(ends') = Len(ends) + 1
        /\ \A k \in 1 .. Len(ends) : ends'[k] = ends[k]
        /\ ends'[Len(ends) + 1] = Last(ends) + d
    BY <1>0, <1>2, <1>3 DEF TypeOK
  <2>2. Increasing(ends')
    <3> SUFFICES ASSUME NEW k \in 1 .. Len(ends') - 1
                 PROVE  ends'[k] < ends'[k + 1]
      BY DEF Increasing
    <3>1. CASE k = Len(ends)
      BY <1>0, <1>2, <2>1, <3>1 DEF Last, TypeOK
    <3>2. CASE k # Len(ends)
      <4>1. k \in 1 .. Len(ends) - 1 /\ k + 1 \in 1 .. Len(ends)
        BY <1>0, <2>1, <3>2 DEF TypeOK
      <4> QED
        BY <1>a, <2>1, <4>1 DEF IInv, Sizes, Increasing
    <3> QED
      BY <3>1, <3>2
  <2>3. Last(ends') + left' = call.size /\ ends'[1] = 0
    <3>1. Last(ends') = Last(ends) + d
      BY <1>0, <2>1 DEF Last, TypeOK
    <3>2. ends'[1] = ends[1] /\ ends[1] = 0
      BY <1>0, <1>a, <2>1 DEF IInv, Sizes, TypeOK
    <3> QED
      BY <1>2, <1>3, <3>1, <3>2
  <2>4. call'.rnd /\ pc' = "gen" /\ Last(ends') + left' = call'.size
    BY <1>a, <2>3 DEF IInv, Sizes
  <2> QED
    BY <2>2, <2>3, <2>4 DEF Sizes
<1>7. Linking' /\ Linked' /\ Ascending'
  BY <1>a
  DEF IInv, Linking, Linked, Ascending, Linkable, NextAt, Blocks, IsBlock, Last
<1>8. Tiling' /\ ChainTiles'
  BY <1>a DEF IInv, Tiling, ChainTiles, IsBlock, Divisible, Last
<1> QED
  BY <1>4, <1>5, <1>6, <1>7, <1>8 DEF IInv

LEMMA GenEndIInv == IInv /\ GenEnd => IInv'
<1> SUFFICES ASSUME IInv, GenEnd PROVE IInv'
  OBVIOUS
<1> USE ParametersAssumption, CallFacts
<1>0. TypeOK
  BY DEF IInv
<1>a. /\ UNCHANGED <<call, j, i, left, pos, ends, offset, total, list>>
      /\ pc = "gen" /\ pc' = "desc" /\ i = 0 /\ call.rnd
  BY DEF GenEnd, args, memory, IInv, Loops, Sizes
<1>1. Len(ends) >= 2 /\ Last(ends) = call.size /\ ends[1] = 0
  <2>1. left = 0 /\ Last(ends) + left = call.size /\ ends[1] = 0
    BY <1>a DEF GenEnd, IInv, Sizes
  <2>2. Last(ends) = call.size /\ call.size \in Nat /\ call.size > 0
    BY <1>0, <2>1, EndsFacts
  <2>3. Len(ends) # 1
    BY <2>1, <2>2 DEF Last
  <2>4. Len(ends) \in Nat /\ Len(ends) >= 1
    BY <1>0, EndsFacts
  <2>5. \A n \in Nat : n >= 1 /\ n # 1 => n >= 2
    OBVIOUS
  <2>6. Len(ends) >= 2
    BY <2>3, <2>4, <2>5
  <2> QED
    BY <2>1, <2>2, <2>6
<1>2. TypeOK'
  BY <1>0, <1>a, <1>1 DEF GenEnd, TypeOK, memory, engine
<1>3. Loops'
  BY <1>0, <1>a, <1>1, SMTT(30) DEF GenEnd, IInv, Loops, LastIndex, Blocks, IsBlock, TypeOK
<1>4. Sizes'
  BY <1>0, <1>a, <1>1 DEF GenEnd, IInv, Sizes, TypeOK
<1>5. Linking' /\ Linked' /\ Ascending'
  BY <1>a
  DEF IInv, Linking, Linked, Ascending, Linkable, NextAt, Blocks, IsBlock, Last
<1>6. Tiling'
  <2> SUFFICES ASSUME ~IsBlock', Divisible'
               PROVE  /\ pos' = 0 /\ pos' = ends'[i' + 1]
                      /\ j' > 0 => /\ list'[1].pos = 0
                                   /\ Last(list').pos + Last(list').n + 1 = call'.size
    BY <1>a DEF Tiling
  <2>1. ~IsBlock /\ Divisible
    BY <1>a DEF IsBlock, Divisible
  <2>2. pos = 0 /\ (j > 0 => /\ list[1].pos = 0
                             /\ Last(list).pos + Last(list).n + 1 = call.size)
    BY <1>a, <2>1 DEF IInv, Tiling
  <2>3. ends'[i' + 1] = 0
    BY <1>a, <1>1
  <2> QED
    BY <1>a, <2>2, <2>3 DEF Last
<1>7. ChainTiles'
  BY <1>a DEF IInv, ChainTiles, IsBlock, Divisible, Last
<1> QED
  BY <1>2, <1>3, <1>4, <1>5, <1>6, <1>7 DEF IInv

LEMMA EngineIInv == IInv /\ (EngineStart \/ EngineFetch) => IInv'
<1> SUFFICES ASSUME IInv, EngineStart \/ EngineFetch PROVE IInv'
  OBVIOUS
<1> USE ParametersAssumption, CallFacts
<1>0. TypeOK
  BY DEF IInv
<1>a. /\ UNCHANGED <<call, j, i, left, pos, elm, ends, ndesc, offset, total,
                     lbar, list>>
      /\ pc \in {"block", "walk"} /\ pc' \in {"walk", "done", "lost"}
      /\ j = Blocks
  BY DEF EngineStart, EngineFetch, args, loop, memory, IInv, Loops
<1>1. TypeOK'
  <2>1. CASE EngineStart
    <3>1. list[1] \in DescType
      BY <1>0, <1>a DEF IInv, Loops, TypeOK
    <3> QED
      BY <1>0, <1>a, <2>1, <3>1 DEF EngineStart, TypeOK
  <2>2. CASE EngineFetch
    <3> DEFINE d == Last(fetched)
               n == IF rem > 0 THEN rem ELSE d.op
    <3>1. CASE UNCHANGED <<rem, fetched>>
      BY <1>0, <1>a, <3>1 DEF TypeOK
    <3>2. CASE \E k \in WrittenTo(d.lar) :
                 n # 0 /\ fetched' = Append(fetched, list[k]) /\ rem' = n - 1
      <4>1. PICK k \in 1 .. Len(list) :
              n # 0 /\ fetched' = Append(fetched, list[k]) /\ rem' = n - 1
        BY <3>2 DEF WrittenTo
      <4>2. list[k] \in DescType /\ d \in DescType
        BY <1>0, <2>2 DEF TypeOK, EngineFetch, Last, IInv, Loops
      <4>3. n \in Nat
        BY <1>0, <4>2 DEF TypeOK, DescType
      <4>4. fetched' \in Seq(DescType)
        <5>1. fetched \in Seq(DescType)
          BY <1>0 DEF TypeOK
        <5> QED
          BY <4>1, <4>2, <5>1
      <4>5. rem' \in Nat
        BY <4>1, <4>3
      <4> QED
        BY <1>0, <1>a, <4>4, <4>5 DEF TypeOK
    <3> QED
      BY <2>2, <3>1, <3>2 DEF EngineFetch
  <2> QED
    BY <2>1, <2>2
<1>2. Loops'
  <2>1. Len(fetched') > 0
    <3>1. CASE EngineStart
      BY <3>1 DEF EngineStart
    <3>2. CASE EngineFetch
      <4>1. fetched' = fetched \/ \E e \in DescType : fetched' = Append(fetched, e)
        <5>1. \A k \in 1 .. Len(list) : list[k] \in DescType
          BY <1>0 DEF TypeOK
        <5> QED
          BY <3>2, <5>1 DEF EngineFetch, WrittenTo
      <4>2. fetched \in Seq(DescType) /\ Len(fetched) > 0
        BY <1>0, <3>2 DEF EngineFetch, IInv, Loops, TypeOK
      <4> QED
        BY <4>1, <4>2
    <3> QED
      BY <3>1, <3>2
  <2> QED
    BY <1>0, <1>a, <2>1 DEF IInv, Loops, LastIndex, Blocks, IsBlock, TypeOK
<1>3. Sizes'
  BY <1>a DEF Sizes
<1>4. Linking' /\ Linked' /\ Ascending'
  BY <1>a
  DEF IInv, Linking, Linked, Ascending, Linkable, NextAt, Blocks, IsBlock, Last
<1>5. Tiling' /\ ChainTiles'
  BY <1>0, <1>a DEF IInv, Tiling, ChainTiles, IsBlock, Divisible, Last, TypeOK
<1> QED
  BY <1>1, <1>2, <1>3, <1>4, <1>5 DEF IInv

LEMMA WriteDescIInv == IInv /\ WriteDesc => IInv'
<1> SUFFICES ASSUME IInv, WriteDesc PROVE IInv'
  OBVIOUS
<1> USE ParametersAssumption, CallFacts
<1>0. TypeOK /\ Loops /\ Sizes
  BY DEF IInv
<1>a. /\ UNCHANGED <<call, ends, ndesc, rem, fetched>> /\ pc = "desc"
      /\ list' = Append(list, Descriptor)
  BY DEF WriteDesc, args, engine
<1>b. j < Blocks /\ i <= LastIndex /\ LastIndex \in Int /\ j \in Nat /\ i \in Nat
  BY <1>0, <1>a, SlotFacts DEF Loops, TypeOK
<1>c. IF i = LastIndex
      THEN i' = 0 /\ j' = j + 1 /\ total' = total + ndesc /\ pc' = "block"
      ELSE i' = i + 1 /\ j' = j /\ total' = total /\ pc' = "desc"
  BY <1>a DEF WriteDesc
<1>d. /\ Len(list') = Len(list) + 1 /\ Len(list) \in Nat
      /\ \A k \in 1 .. Len(list) : list'[k] = list[k]
      /\ list'[Len(list) + 1] = Descriptor
      /\ Last(list') = Descriptor
  BY <1>0, <1>a, DescriptorFacts DEF TypeOK, Last
<1>e. offset' = offset + Pad /\ Pad \in Nat /\ offset \in Nat
  BY <1>0, <1>a, SlotFacts DEF WriteDesc, TypeOK
<1>f. LastIndex' = (IF j' = 0 THEN ndesc ELSE ndesc - 1) /\ Blocks' = Blocks
      /\ IsBlock' = IsBlock /\ (Linkable' <=> Linkable) /\ (Divisible' <=> Divisible)
  BY <1>a DEF LastIndex, Blocks, IsBlock, Linkable, Divisible
<1>1. TypeOK'
  <2>1. list' \in Seq(DescType)
    BY <1>0, <1>a, DescriptorFacts DEF TypeOK
  <2>2. Count \in 0 .. (Word - 1)
    BY <1>0, <1>a, CountFacts
  <2>3. elm' \in 0 .. (Word - 1)
    BY <1>0, <2>2 DEF WriteDesc, TypeOK
  <2>4. pos' \in Nat /\ left' \in 0 .. (Word - 1)
    <3>1. CASE IsBlock /\ j = 0
      BY <1>0, <3>1 DEF WriteDesc, TypeOK
    <3>2. CASE ~(IsBlock /\ j = 0)
      <4>1. pos' = pos + elm' /\ left' = Sub(left, Count)
        BY <3>2 DEF WriteDesc
      <4> QED
        <5>1. pos \in Nat /\ left \in 0 .. (Word - 1)
          BY <1>0 DEF TypeOK
        <5>2. Sub(left, Count) \in 0 .. (Word - 1)
          BY <2>2, <5>1, SubType
        <5>3. pos + elm' \in Nat
          <6>1. \A x \in 0 .. (Word - 1), y \in Nat : y + x \in Nat
            OBVIOUS
          <6> QED
            BY <2>3, <5>1, <6>1
        <5> QED
          BY <4>1, <5>2, <5>3
    <3> QED
      BY <3>1, <3>2
  <2>5. lbar' \in Nat
    <3>1. ndesc % CntMod \in Nat
      BY <1>0, ModFacts DEF TypeOK
    <3> QED
      BY <1>0, <3>1 DEF WriteDesc, TypeOK
  <2> QED
    <3>1. j' \in Nat /\ i' \in Nat /\ total' \in Nat /\ pc' \in {"block", "desc"}
      <4>1. j \in Nat /\ i \in Nat /\ total \in Nat /\ ndesc \in Nat
        BY <1>0 DEF TypeOK
      <4>2. CASE i = LastIndex
        BY <1>c, <4>1, <4>2
      <4>3. CASE i # LastIndex
        BY <1>c, <4>1, <4>3
      <4> QED
        BY <4>2, <4>3
    <3>2. offset' \in Nat
      BY <1>e
    <3>3. /\ call' \in Calls /\ ends' \in Seq(0 .. (Word - 1)) /\ Len(ends') > 0
          /\ ndesc' \in Nat /\ rem' \in Nat /\ fetched' \in Seq(DescType)
      BY <1>0, <1>a DEF TypeOK
    <3> QED
      BY <2>1, <2>3, <2>4, <2>5, <3>1, <3>2, <3>3 DEF TypeOK
<1>2. Loops'
  <2>1. CASE i = LastIndex
    BY <1>0, <1>a, <1>b, <1>c, <1>d, <1>f, <2>1 DEF Loops
  <2>2. CASE i # LastIndex
    <3>1. Pad = 0
      BY <1>0, <1>a, <2>2, SlotFacts
    <3> QED
      BY <1>0, <1>a, <1>b, <1>c, <1>d, <1>e, <1>f, <2>2, <3>1
      DEF Loops, LastIndex
  <2> QED
    BY <2>1, <2>2
<1>3. Sizes'
  BY <1>0, <1>a, <1>c DEF Sizes
<1>4. Linkable => Descriptor.at = NextAt
  BY <1>0, <1>a, SlotFacts, DescriptorFacts
<1>5. Linked'
  <2> SUFFICES ASSUME Linkable, NEW k \in 1 .. Len(list') - 1
               PROVE  list'[k + 1].at = list'[k].lar
    BY <1>f DEF Linked
  <2>1. CASE k = Len(list)
    <3>1. Len(list) > 0 /\ Last(list).lar = NextAt
      BY <1>b, <1>d, <2>1 DEF IInv, Linking
    <3> QED
      BY <1>4, <1>d, <2>1, <3>1 DEF Last
  <2>2. CASE k # Len(list)
    <3>1. k \in 1 .. Len(list) - 1 /\ k + 1 \in 1 .. Len(list)
      BY <1>d, <2>2
    <3> QED
      BY <1>d, <3>1 DEF IInv, Linked
  <2> QED
    BY <2>1, <2>2
<1>6. Ascending'
  <2> SUFFICES ASSUME Linkable, NEW k \in 1 .. Len(list'), NEW l \in 1 .. Len(list'),
                      k < l
               PROVE  list'[k].at < list'[l].at
    BY <1>f DEF Ascending
  <2>1. k \in 1 .. Len(list)
    BY <1>d
  <2>2. CASE l = Len(list) + 1
    BY <1>4, <1>b, <1>d, <2>1, <2>2 DEF IInv, Linking
  <2>3. CASE l # Len(list) + 1
    <3>1. l \in 1 .. Len(list)
      BY <1>d, <2>3
    <3> QED
      BY <1>d, <2>1, <3>1 DEF IInv, Ascending
  <2> QED
    BY <2>2, <2>3
<1>7. Linking'
  <2> SUFFICES ASSUME Linkable, j' < Blocks
               PROVE  /\ Descriptor.lar = NextAt'
                      /\ \A k \in 1 .. Len(list') : list'[k].at < NextAt'
    BY <1>d, <1>f DEF Linking
  <2>0. j * call.cnt \in Int
    BY <1>0, <1>b
  <2>1. NextAt \in Int /\ Slot = NextAt /\ Descriptor.lar = NextSlot + Pad
    BY <1>0, <1>a, SlotFacts, DescriptorFacts
  <2>2. NextSlot = NextAt + 1
    BY <1>0, <1>b, <2>1 DEF NextSlot, NextAt, Loops, TypeOK
  <2>3. NextAt' = NextAt + 1 + Pad
    <3>1. CASE i # LastIndex
      <4>1. Pad = 0
        BY <1>0, <1>a, <3>1, SlotFacts
      <4> QED
        <5>1. i' = i + 1 /\ j' = j /\ total' = total /\ offset' = offset
              /\ call' = call
          BY <1>a, <1>c, <1>e, <3>1, <4>1
        <5>2. CASE j = 0
          BY <1>b, <4>1, <5>1, <5>2 DEF NextAt
        <5>3. CASE j # 0
          <6> DEFINE b == IF call.rnd /\ ~call.host THEN total ELSE j * call.cnt
          <6>1. b \in Int /\ NextAt = i + b + offset /\ NextAt' = i + 1 + b + offset
            BY <1>0, <2>0, <5>1, <5>3 DEF NextAt, TypeOK
          <6> HIDE DEF b
          <6> QED
            BY <1>b, <1>e, <4>1, <6>1
        <5> QED
          BY <5>2, <5>3
    <3>2. CASE i = LastIndex
      <4>1. j' = j + 1 /\ i' = 0 /\ total' = total + ndesc /\ j' > 0
        BY <1>b, <1>c, <3>2
      <4>2. CASE call.rnd
        <5>1. ~call.host
          BY <1>0, <1>b, <4>1, <4>2 DEF Linkable, Blocks, IsBlock
        <5>2. NextAt' = total + ndesc + offset + Pad
          BY <1>0, <1>a, <1>e, <4>1, <4>2, <5>1 DEF NextAt, TypeOK
        <5> QED
          BY <1>0, <1>b, <3>2, <4>2, <5>1, <5>2
          DEF NextAt, LastIndex, Loops, TypeOK
      <4>3. CASE ~call.rnd
        <5>1. ndesc = call.cnt
          BY <1>0, <1>a, <4>3 DEF Loops
        <5>2. (j + 1) * call.cnt = j * call.cnt + call.cnt
          BY <1>0, <1>b, ProductStep
        <5>3. NextAt' = j * call.cnt + call.cnt + offset + Pad
          <6>1. NextAt' = i' + j' * call.cnt + offset'
            BY <1>a, <4>1, <4>3 DEF NextAt
          <6> QED
            BY <1>0, <1>e, <2>0, <4>1, <5>2, <6>1
        <5>4. CASE j = 0
          BY <1>0, <1>b, <1>e, <3>2, <5>1, <5>3, <5>4 DEF NextAt, LastIndex, Loops
        <5>5. CASE j > 0
          <6>1. NextAt = i + j * call.cnt + offset /\ i = call.cnt - 1
            BY <1>b, <3>2, <4>3, <5>1, <5>5 DEF NextAt, LastIndex
          <6> QED
            BY <1>0, <1>e, <2>0, <5>3, <6>1
        <5> QED
          BY <1>b, <5>4, <5>5
      <4> QED
        BY <1>0, <4>2, <4>3
    <3> QED
      BY <3>1, <3>2
  <2>4. \A k \in 1 .. Len(list) : list[k].at < NextAt
    BY <1>b DEF IInv, Linking
  <2>5. \A k \in 1 .. Len(list) : list[k].at \in Int
    <3>1. \A k \in 1 .. Len(list) : list[k] \in DescType
      BY <1>0 DEF TypeOK
    <3> QED
      BY <3>1 DEF DescType
  <2>6. Descriptor.at = NextAt
    BY <1>4
  <2>7. ASSUME NEW k \in 1 .. Len(list') PROVE list'[k].at < NextAt'
    <3>1. CASE k = Len(list) + 1
      BY <1>d, <1>e, <2>1, <2>3, <2>6, <3>1
    <3>2. CASE k # Len(list) + 1
      BY <1>d, <1>e, <2>1, <2>3, <2>4, <2>5, <3>2
    <3> QED
      BY <3>1, <3>2
  <2> QED
    BY <1>e, <2>1, <2>2, <2>3, <2>7
<1>8. Tiling' /\ ChainTiles'
  <2> SUFFICES ASSUME ~IsBlock, Divisible PROVE Tiling' /\ ChainTiles'
    BY <1>f DEF Tiling, ChainTiles
  <2>0. Tiling /\ ChainTiles
    BY DEF IInv
  <2>1. j = 0 /\ LastIndex = ndesc /\ Len(list) = i /\ ndesc \in Nat
    BY <1>0, <1>b DEF Blocks, LastIndex, Loops, TypeOK
  <2>2. pos' = pos + elm' /\ left' = Sub(left, Count)
    BY DEF WriteDesc
  <2>3. pos \in Nat /\ elm \in Nat /\ left \in Nat
    BY <1>0 DEF TypeOK
  <2>4. ASSUME ~call.rnd
        PROVE  /\ pos + left = call.size /\ elm >= 1
               /\ left >= (ndesc + 1 - i) * elm
               /\ Count = (IF i = ndesc THEN left ELSE elm) /\ elm' = elm
    BY <1>a, <2>0, <2>1, <2>4 DEF Tiling, Count, WriteDesc
  <2>5. ASSUME ~call.rnd, i = ndesc PROVE Count >= 1 /\ pos + Count = call.size
    <3>1. (ndesc + 1 - i) * elm = elm
      BY <1>b, <2>1, <2>3, <2>5
    <3> QED
      BY <2>3, <2>4, <2>5, <3>1
  <2>6. ASSUME ~call.rnd, i # ndesc
        PROVE  /\ Count = elm /\ elm >= 1 /\ elm' = elm
               /\ pos' + left' = call.size
               /\ left' >= (ndesc + 1 - (i + 1)) * elm
    <3>1. ((ndesc - i) + 1) * elm = (ndesc - i) * elm + elm
      BY <1>b, <2>1, <2>3, ProductStep
    <3>2. (ndesc - i) + 1 = ndesc + 1 - i /\ ndesc + 1 - (i + 1) = ndesc - i
      BY <1>b, <2>1
    <3>3. (ndesc - i) * elm \in Int /\ (ndesc - i) * elm >= 0
      BY <1>b, <2>1, <2>3
    <3>4. left >= (ndesc - i) * elm + elm /\ left >= elm /\ Count = elm
      BY <2>3, <2>4, <2>6, <3>1, <3>2, <3>3
    <3>5. left' = left - elm /\ pos' = pos + elm
      BY <2>2, <2>3, <2>4, <2>6, <3>4 DEF Sub
    <3> QED
      BY <2>3, <2>4, <2>6, <3>2, <3>3, <3>4, <3>5
  <2>7. ASSUME call.rnd
        PROVE  /\ Count >= 1 /\ Count \in Nat /\ pos' = pos + Count
               /\ pos' = ends[i + 2]
               /\ i = ndesc => pos + Count = call.size
    BY <1>0, <1>a, <2>0, <2>1, <2>2, <2>3, <2>7, CountFacts DEF Tiling, WriteDesc
  <2>8. Count >= 1 /\ Descriptor.pos = pos /\ Descriptor.n = Count - 1
        /\ Count \in Nat
    BY <1>0, <1>a, <2>3, <2>5, <2>6, <2>7, DescriptorFacts, CountFacts
  <2>9. Descriptor.pos + Descriptor.n + 1 = pos + Count
    BY <2>3, <2>8
  <2>10. list'[1].pos = 0
    <3>1. CASE i = 0
      BY <1>a, <1>d, <2>0, <2>1, <2>8, <3>1 DEF Tiling
    <3>2. CASE i # 0
      BY <1>a, <1>b, <1>d, <2>0, <2>1, <3>2 DEF Tiling
    <3> QED
      BY <3>1, <3>2
  <2>11. Tiling'
    <3>1. CASE i = ndesc
      <4>1. pc' = "block" /\ j' = 1 /\ i' = 0
        BY <1>c, <2>1, <3>1
      <4>2. Descriptor.pos + Descriptor.n + 1 = call.size
        BY <2>5, <2>7, <2>9, <3>1
      <4> QED
        BY <1>a, <1>d, <2>10, <4>1, <4>2 DEF Tiling
    <3>2. CASE i # ndesc
      <4>1. pc' = "desc" /\ j' = 0 /\ i' = i + 1 /\ i' > 0
        BY <1>b, <1>c, <2>1, <3>2
      <4>2. pos' = Last(list').pos + Last(list').n + 1
        BY <1>d, <2>2, <2>6, <2>7, <2>9, <3>2
      <4>3. call.rnd => pos' = ends'[i' + 1]
        BY <1>a, <1>b, <2>7, <4>1
      <4>4. ~call.rnd => /\ pos' + left' = call.size /\ elm' >= 1
                         /\ left' >= (ndesc + 1 - i') * elm'
        BY <2>6, <3>2, <4>1
      <4> QED
        BY <1>a, <2>10, <4>1, <4>2, <4>3, <4>4 DEF Tiling
    <3> QED
      BY <3>1, <3>2
  <2>12. ChainTiles'
    <3>1. ASSUME NEW k \in 1 .. Len(list') - 1
          PROVE  list'[k + 1].pos = list'[k].pos + list'[k].n + 1
      <4>1. CASE k = Len(list)
        BY <1>a, <1>d, <2>0, <2>1, <2>8, <4>1 DEF Tiling, Last
      <4>2. CASE k # Len(list)
        <5>1. k \in 1 .. Len(list) - 1 /\ k + 1 \in 1 .. Len(list)
          BY <1>d, <4>2
        <5> QED
          BY <1>d, <2>0, <5>1, SMTT(30) DEF ChainTiles
      <4> QED
        BY <4>1, <4>2
    <3>2. pc' \notin {"walk", "done"}
      BY <1>c
    <3> QED
      BY <2>10, <3>1, <3>2 DEF ChainTiles
  <2> QED
    BY <2>11, <2>12
<1> QED
  BY <1>1, <1>2, <1>3, <1>5, <1>6, <1>7, <1>8 DEF IInv
-----------------------------------------------------------------------------
LEMMA StepIInv == IInv /\ [Next]_vars => IInv'
<1>1. IInv /\ UNCHANGED vars => IInv'
  BY DEF IInv, vars, args, loop, memory, engine, TypeOK, Loops, Sizes, Linking,
         Linked, Ascending, Tiling, ChainTiles, NextAt, LastIndex, Blocks,
         IsBlock, Linkable, Divisible, Last
<1> QED
  BY <1>1, BeginBlockIInv, GenSizeIInv, GenEndIInv, WriteDescIInv, EngineIInv
  DEF Next

LEMMA Invariance == Spec => []IInv
  BY InitIInv, StepIInv, PTL DEF Spec

\* The variables of dma_bare_xfer keep their types: the u32 arithmetic on
\* size_tmp and cnt stays below 2^32, and every index into desc_size is one
\* that was filled.
THEOREM TypeCorrect == Spec => []TypeOK
<1>1. IInv => TypeOK
  BY DEF IInv
<1> QED
  BY <1>1, Invariance, PTL

\* Every descriptor is where lar of its predecessor points to, across the
\* padding between blocks.
THEOREM ListIsLinked == Spec => []Linked
<1>1. IInv => Linked
  BY DEF IInv
<1> QED
  BY <1>1, Invariance, PTL

\* No descriptor of a call overwrites another one.
THEOREM SlotsAreDistinct == Spec => []NoOverwrite
<1>1. IInv => NoOverwrite
  <2> SUFFICES ASSUME IInv, Linkable, NEW k \in 1 .. Len(list),
                      NEW l \in 1 .. Len(list), list[k].at = list[l].at
               PROVE  k = l
    BY DEF NoOverwrite
  <2>1. list[k].at \in Int
    <3>1. list[k] \in DescType
      BY DEF IInv, TypeOK
    <3> QED
      BY <3>1 DEF DescType
  <2>2. ~(k < l) /\ ~(l < k)
    BY <2>1 DEF IInv, Ascending
  <2> QED
    BY <2>2 DEF IInv, TypeOK
<1> QED
  BY <1>1, Invariance, PTL

\* The descriptors of chain mode tile the data of the call.
THEOREM ChainIsTiled == Spec => []ChainTiles
<1>1. IInv => ChainTiles
  BY DEF IInv
<1> QED
  BY <1>1, Invariance, PTL
-----------------------------------------------------------------------------
(***************************************************************************)
(* What the engine executes.  The lists whose number of descriptors is the *)
(* same in every block: those of fixed sizes, and one random list.         *)
(***************************************************************************)
Known == ~call.rnd \/ ~IsBlock

\* Block b ends with the descriptor b * ndesc + 1 of the call; all of these but
\* the last hold the number of the descriptors to come.
Counting ==
  Known =>
    /\ Len(list) = (IF j = 0 THEN i ELSE j * ndesc + 1 + i)
    /\ Len(list) > 0 => lbar = ndesc % CntMod
    /\ \A k \in 1 .. Len(list) :
         list[k].op = IF \E b \in 1 .. Blocks - 1 : k = b * ndesc + 1
                      THEN ndesc % CntMod ELSE 0

\* The engine has executed the first descriptors of the list, and what is left
\* to it takes it to the end of a block.
Following ==
  Known /\ Fits =>
    /\ pc # "lost"
    /\ pc \in {"walk", "done"} =>
         /\ Len(fetched) <= Len(list)
         /\ \A k \in 1 .. Len(fetched) : fetched[k] = list[k]
         /\ \E b \in 1 .. Blocks : Len(fetched) + rem = b * ndesc + 1
    /\ pc = "done" => Len(fetched) = Len(list)

FollowInv == Counting /\ Following

LEMMA Monotone ==
  ASSUME NEW a \in Nat, NEW b \in Nat, NEW m \in Nat, a <= b
  PROVE  a * m <= b * m /\ a * m \in Nat /\ b * m \in Nat
<1>1. b - a \in Nat /\ b = a + (b - a)
  OBVIOUS
<1>2. (b - a) * m \in Nat /\ (b - a) * m >= 0
  BY <1>1
<1>3. (a + (b - a)) * m = a * m + (b - a) * m
  BY <1>1
<1>4. a * m \in Nat /\ b * m \in Nat
  OBVIOUS
<1> QED
  BY <1>1, <1>2, <1>3, <1>4

LEMMA InitFollow == Init => FollowInv
  BY DEF Init, FollowInv, Counting, Following

\* The steps that write nothing
LEMMA QuietFollow ==
  ASSUME IInv, IInv', FollowInv, BeginBlock \/ GenSize \/ GenEnd
  PROVE  FollowInv'
<1> USE ParametersAssumption, CallFacts
<1>1. /\ UNCHANGED <<call, j, lbar, list, rem, fetched>>
      /\ pc' \in {"gen", "desc"} /\ i' = 0 /\ i = 0
      /\ j < Blocks /\ j \in Nat
  BY DEF BeginBlock, GenSize, GenEnd, args, memory, engine, IInv, Loops, TypeOK
<1>2. Known => j = 0 \/ ~call.rnd
  BY <1>1 DEF Known, Blocks, IInv, TypeOK
<1>3. Known /\ j # 0 => ndesc' = ndesc
  <2>1. ASSUME ~call.rnd, j > 0 PROVE ndesc = call.cnt /\ ndesc' = call.cnt
    BY <1>1, <2>1 DEF IInv, Loops
  <2> QED
    BY <1>1, <1>2, <2>1
<1>4. Blocks' = Blocks /\ Known' = Known
  BY <1>1 DEF Blocks, IsBlock, Known
<1>5. j = 0 => Len(list) = 0
  BY <1>1 DEF IInv, Loops
<1>6. Counting'
  <2>1. CASE j = 0
    BY <1>1, <1>4, <1>5, <2>1 DEF Counting
  <2>2. CASE j # 0
    BY <1>1, <1>3, <1>4, <2>2 DEF FollowInv, Counting
  <2> QED
    BY <2>1, <2>2
<1>7. Following'
  BY <1>1 DEF Following
<1> QED
  BY <1>6, <1>7 DEF FollowInv

LEMMA WriteFollow ==
  ASSUME IInv, IInv', FollowInv, WriteDesc
  PROVE  FollowInv'
<1> USE ParametersAssumption, CallFacts
<1>0. TypeOK /\ Loops /\ Sizes
  BY DEF IInv
<1>a. /\ UNCHANGED <<call, ends, ndesc, rem, fetched>> /\ pc = "desc"
      /\ list' = Append(list, Descriptor)
  BY DEF WriteDesc, args, engine
<1>b. j < Blocks /\ i <= LastIndex /\ LastIndex \in Int /\ j \in Nat /\ i \in Nat /\ ndesc \in Nat
  BY <1>0, <1>a, SlotFacts DEF Loops, TypeOK
<1>c. IF i = LastIndex
      THEN i' = 0 /\ j' = j + 1 /\ pc' = "block"
      ELSE i' = i + 1 /\ j' = j /\ pc' = "desc"
  BY <1>a DEF WriteDesc
<1>d. /\ Len(list') = Len(list) + 1 /\ Len(list) \in Nat
      /\ \A k \in 1 .. Len(list) : list'[k] = list[k]
      /\ list'[Len(list) + 1] = Descriptor
  BY <1>0, <1>a, DescriptorFacts DEF TypeOK
<1>e. Blocks' = Blocks /\ Known' = Known
  BY <1>a DEF Blocks, IsBlock, Known
<1>1. Following'
  BY <1>c DEF Following
<1> SUFFICES ASSUME Known PROVE Counting'
  <2>1. ~Known => Counting'
    BY <1>e DEF Counting
  <2> QED
    BY <1>1, <2>1 DEF FollowInv
<1>f. /\ Len(list) = (IF j = 0 THEN i ELSE j * ndesc + 1 + i)
      /\ Len(list) > 0 => lbar = ndesc % CntMod
      /\ \A k \in 1 .. Len(list) :
           list[k].op = IF \E b \in 1 .. Blocks - 1 : k = b * ndesc + 1
                        THEN ndesc % CntMod ELSE 0
  BY DEF FollowInv, Counting
<1>g. j * ndesc \in Nat /\ (j + 1) * ndesc = j * ndesc + ndesc
  BY <1>b, ProductStep
<1>2. Len(list') = (IF j' = 0 THEN i' ELSE j' * ndesc + 1 + i')
  <2>1. CASE i = LastIndex
    BY <1>b, <1>c, <1>d, <1>f, <1>g, <2>1 DEF LastIndex
  <2>2. CASE i # LastIndex
    BY <1>b, <1>c, <1>d, <1>f, <1>g, <2>2, SMTT(30)
  <2> QED
    BY <2>1, <2>2
<1>3. lbar' = ndesc % CntMod
  <2>1. CASE j = 0 /\ i = 0
    BY <2>1 DEF WriteDesc
  <2>2. CASE ~(j = 0 /\ i = 0)
    <3>1. Len(list) > 0
      BY <1>b, <1>f, <1>g, <2>2
    <3> QED
      BY <1>f, <2>2, <3>1 DEF WriteDesc
  <2> QED
    BY <2>1, <2>2
<1>4. Descriptor.op = IF \E b \in 1 .. Blocks - 1 : Len(list) + 1 = b * ndesc + 1
                      THEN ndesc % CntMod ELSE 0
  <2>1. Descriptor.op = IF IsBlock /\ i = LastIndex /\ j # call.blocks - 1
                        THEN ndesc % CntMod ELSE 0
    BY DEF Descriptor
  <2>2. ASSUME i = LastIndex PROVE Len(list) + 1 = (j + 1) * ndesc + 1
    BY <1>b, <1>f, <1>g, <2>2 DEF LastIndex
  <2>3. ASSUME IsBlock, i = LastIndex, j # call.blocks - 1
        PROVE  \E b \in 1 .. Blocks - 1 : Len(list) + 1 = b * ndesc + 1
    <3>1. j + 1 \in 1 .. Blocks - 1
      BY <1>0, <1>b, <2>3 DEF Blocks
    <3> QED
      BY <2>2, <2>3, <3>1
  <2>4. ASSUME NEW b \in 1 .. Blocks - 1, Len(list) + 1 = b * ndesc + 1, ndesc > 0
        PROVE  IsBlock /\ i = LastIndex /\ j # call.blocks - 1
    <3>1. b \in Nat /\ b >= 1 /\ b <= Blocks - 1 /\ Blocks \in Nat
      BY <1>0, <2>4
    <3>2. IsBlock /\ Blocks = call.blocks
      BY <3>1 DEF Blocks
    <3>3. Len(list) = b * ndesc
      BY <1>b, <1>d, <2>4, <3>1
    <3>4. CASE b <= j
      <4>1. b * ndesc <= j * ndesc
        BY <1>b, <3>1, <3>4, Monotone
      <4>2. j # 0 /\ Len(list) = j * ndesc + 1 + i
        BY <1>b, <1>f, <3>1, <3>4
      <4> QED
        BY <1>b, <1>g, <3>3, <4>1, <4>2
    <3>5. CASE b > j + 1
      <4>1. (j + 2) * ndesc <= b * ndesc
        BY <1>b, <3>1, <3>5, Monotone
      <4>2. (j + 2) * ndesc = j * ndesc + ndesc + ndesc
        BY <1>b, <1>g
      <4>3. Len(list) <= j * ndesc + ndesc
        BY <1>b, <1>f, <1>g DEF LastIndex
      <4> QED
        BY <1>b, <1>g, <2>4, <3>3, <4>1, <4>2, <4>3
    <3>6. CASE b = j + 1
      <4>1. Len(list) = j * ndesc + ndesc
        BY <1>g, <3>3, <3>6
      <4>2. i = LastIndex
        <5>1. CASE j = 0
          BY <1>b, <1>f, <1>g, <4>1, <5>1 DEF LastIndex
        <5>2. CASE j # 0
          BY <1>b, <1>f, <1>g, <4>1, <5>2 DEF LastIndex
        <5> QED
          BY <5>1, <5>2
      <4> QED
        BY <1>b, <3>1, <3>2, <3>6, <4>2
    <3> QED
      BY <1>b, <3>1, <3>4, <3>5, <3>6
  <2>5. ASSUME ndesc = 0 PROVE ndesc % CntMod = 0
    BY <2>5
  <2> QED
    BY <1>b, <2>1, <2>3, <2>4, <2>5
<1>5. ASSUME NEW k \in 1 .. Len(list')
      PROVE  list'[k].op = IF \E b \in 1 .. Blocks - 1 : k = b * ndesc + 1
                           THEN ndesc % CntMod ELSE 0
  <2>1. CASE k = Len(list) + 1
    BY <1>4, <1>d, <2>1
  <2>2. CASE k # Len(list) + 1
    <3>1. k \in 1 .. Len(list)
      BY <1>d, <2>2
    <3> QED
      BY <1>d, <1>f, <3>1
  <2> QED
    BY <2>1, <2>2
<1> QED
  BY <1>2, <1>3, <1>5, <1>a, <1>e DEF Counting

\* Only one descriptor was written to the slot of descriptor k.
LEMMA OneWriter ==
  ASSUME IInv, Linkable, NEW k \in 1 .. Len(list)
  PROVE  WrittenTo(list[k].at) = {k}
<1>1. \A l \in 1 .. Len(list) : list[l].at \in Int
  <2>1. \A l \in 1 .. Len(list) : list[l] \in DescType
    BY DEF IInv, TypeOK
  <2> QED
    BY <2>1 DEF DescType
<1>2. ASSUME NEW l \in 1 .. Len(list), list[l].at = list[k].at PROVE l = k
  <2>1. ~(l < k) /\ ~(k < l)
    BY <1>1, <1>2 DEF IInv, Ascending
  <2> QED
    BY <2>1 DEF IInv, TypeOK
<1> QED
  BY <1>2 DEF WrittenTo

\* EngineStart executes the descriptor in the registers and expects as many as
\* LBAR_BASIC says.
LEMMA StartFollow ==
  ASSUME IInv, FollowInv, EngineStart
  PROVE  FollowInv'
<1> USE ParametersAssumption, CallFacts
<1>0. TypeOK /\ Loops
  BY DEF IInv
<1>1. /\ UNCHANGED <<call, j, i, ndesc, lbar, list>> /\ pc = "block" /\ j = Blocks
      /\ fetched' = <<list[1]>> /\ rem' = lbar /\ pc' = "walk"
  BY DEF EngineStart, args, loop, memory
<1>2. Blocks' = Blocks /\ Known' = Known /\ Fits' = Fits
  BY <1>1 DEF Blocks, IsBlock, Known, Fits
<1>3. Counting'
  BY <1>1, <1>2 DEF FollowInv, Counting
<1>4. Following'
  <2> SUFFICES ASSUME Known, Fits
               PROVE  /\ Len(fetched') <= Len(list')
                      /\ \A k \in 1 .. Len(fetched') : fetched'[k] = list'[k]
                      /\ Len(fetched') + rem' = 1 * ndesc' + 1
                      /\ 1 \in 1 .. Blocks'
    BY <1>1, <1>2 DEF Following
  <2>1. Blocks \in Nat /\ Blocks > 0 /\ ndesc \in Nat /\ Len(list) \in Nat
    BY <1>0 DEF TypeOK
  <2>2. Len(list) > 0
    BY <1>0, <1>1, <2>1 DEF Loops
  <2>3. lbar = ndesc
    BY <1>1, <2>1, <2>2, SMTT(30) DEF FollowInv, Counting, Fits
  <2> QED
    BY <1>1, <1>2, <2>1, <2>2, <2>3
<1> QED
  BY <1>3, <1>4 DEF FollowInv

LEMMA FetchFollow ==
  ASSUME IInv, FollowInv, EngineFetch
  PROVE  FollowInv'
<1> USE ParametersAssumption, CallFacts
<1>0. TypeOK /\ Loops
  BY DEF IInv
<1>1. /\ UNCHANGED <<call, j, i, ndesc, lbar, list>> /\ pc = "walk" /\ j = Blocks
  BY <1>0 DEF EngineFetch, args, loop, memory, Loops
<1>2. Blocks' = Blocks /\ Known' = Known /\ Fits' = Fits
  BY <1>1 DEF Blocks, IsBlock, Known, Fits
<1>3. Counting'
  BY <1>1, <1>2 DEF FollowInv, Counting
<1>4. ASSUME Known, Fits PROVE Following'
  <2> DEFINE m == Len(fetched)
             d == Last(fetched)
             n == IF rem > 0 THEN rem ELSE d.op
  <2>1. PICK b \in 1 .. Blocks : m + rem = b * ndesc + 1
    BY <1>1, <1>4 DEF FollowInv, Following
  <2>2. /\ m \in Nat /\ m > 0 /\ rem \in Nat /\ ndesc \in Nat /\ Blocks \in Nat /\ b \in Nat
        /\ Len(list) \in Nat /\ fetched \in Seq(DescType) /\ list \in Seq(DescType)
    BY <1>0, <1>1 DEF TypeOK, Loops
  <2>3. m <= Len(list) /\ \A k \in 1 .. m : fetched[k] = list[k]
    BY <1>1, <1>4 DEF FollowInv, Following
  <2>4. Len(list) = Blocks * ndesc + 1
    <3>1. Blocks # 0 /\ i = 0 /\ Blocks * ndesc \in Nat
      BY <1>0, <1>1, <2>2 DEF Loops
    <3>2. Len(list) = Blocks * ndesc + 1 + 0
      BY <1>1, <1>4, <3>1 DEF FollowInv, Counting
    <3> QED
      BY <3>1, <3>2
  <2>5. d = list[m]
    BY <2>2, <2>3 DEF Last
  <2>6. b * ndesc <= Blocks * ndesc /\ b * ndesc \in Nat /\ Blocks * ndesc \in Nat
    BY <2>1, <2>2, Monotone
  <2>7. d.op = IF \E c \in 1 .. Blocks - 1 : m = c * ndesc + 1 THEN ndesc % CntMod ELSE 0
    <3>1. m \in 1 .. Len(list)
      BY <2>2, <2>3
    <3>2. \A k \in 1 .. Len(list) :
            list[k].op = IF \E c \in 1 .. Blocks - 1 : k = c * ndesc + 1
                         THEN ndesc % CntMod ELSE 0
      BY <1>4 DEF FollowInv, Counting
    <3> HIDE DEF m, d
    <3> QED
      BY <2>5, <3>1, <3>2, Zenon
  <2>8. ndesc % CntMod = ndesc
    BY <1>4, <2>2 DEF Fits
  \* What is left, if anything, ends with a block too.
  <2>9. n # 0 => /\ m < Len(list)
                 /\ \E c \in 1 .. Blocks : m + n = c * ndesc + 1
    <3>1. CASE rem > 0
      <4>1. n = rem /\ m + n = b * ndesc + 1
        BY <2>1, <3>1
      <4>2. m < Len(list)
        <5> DEFINE x == b * ndesc
                   y == Blocks * ndesc
        <5>1. m + rem = x + 1 /\ Len(list) = y + 1 /\ x <= y /\ x \in Nat /\ y \in Nat
          BY <2>1, <2>4, <2>6
        <5> HIDE DEF x, y
        <5> QED
          BY <2>2, <3>1, <5>1
      <4> HIDE DEF n, m
      <4> QED
        BY <2>1, <4>1, <4>2
    <3>2. CASE rem = 0 /\ d.op # 0
      <4>1. PICK c \in 1 .. Blocks - 1 : m = c * ndesc + 1
        BY <2>7, <3>2
      <4>2. n = ndesc /\ ndesc > 0
        BY <2>2, <2>7, <2>8, <3>2, <4>1
      <4>3. c + 1 \in 1 .. Blocks /\ c \in Nat /\ c + 1 \in Nat
        BY <2>2, <4>1
      <4>4. (c + 1) * ndesc = c * ndesc + ndesc /\ (c + 1) * ndesc <= Blocks * ndesc
            /\ c * ndesc \in Nat
        BY <2>2, <4>3, ProductStep, Monotone
      <4>5. m + n = (c + 1) * ndesc + 1
        BY <2>2, <4>1, <4>2, <4>4
      <4>6. m < Len(list)
        BY <2>2, <2>4, <2>6, <4>1, <4>2, <4>4
      <4> QED
        BY <4>3, <4>5, <4>6
    <3> QED
      BY <2>2, <3>1, <3>2
  <2>10. n = 0 => m = Len(list)
    <3> SUFFICES ASSUME rem = 0, d.op = 0 PROVE m = Len(list)
      BY <2>2
    <3>1. m = b * ndesc + 1
      BY <2>1, <2>2, <2>6
    <3>2. CASE b = Blocks
      BY <2>4, <3>1, <3>2
    <3>3. CASE b # Blocks
      <4>1. b \in 1 .. Blocks - 1
        BY <2>1, <2>2, <3>3
      <4>2. ndesc = 0
        BY <2>7, <2>8, <3>1, <4>1
      <4> QED
        BY <2>2, <2>4, <3>1, <4>2
    <3> QED
      BY <3>2, <3>3
  <2> HIDE DEF n
  <2>11. CASE n = 0
    <3>1. pc' = "done" /\ UNCHANGED <<rem, fetched>>
      BY <2>11 DEF EngineFetch, n
    <3> QED
      BY <1>1, <1>2, <2>1, <2>3, <2>10, <2>11, <3>1 DEF Following
  <2>12. CASE n # 0
    <3>1. m + 1 \in 1 .. Len(list) /\ m \in 1 .. Len(list) - 1
      BY <2>2, <2>9, <2>12
    <3>2. Linkable
      BY <1>0, <1>4 DEF Known, Linkable, IsBlock
    <3>3. d.lar = list[m + 1].at
      BY <2>5, <3>1, <3>2 DEF IInv, Linked
    <3>4. WrittenTo(d.lar) = {m + 1}
      BY <3>1, <3>2, <3>3, OneWriter
    <3>5. fetched' = Append(fetched, list[m + 1]) /\ rem' = n - 1 /\ pc' = "walk"
      BY <2>12, <3>4 DEF EngineFetch, n
    <3>6. list[m + 1] \in DescType
      BY <2>2, <3>1
    <3>7. /\ Len(fetched') = m + 1
          /\ \A k \in 1 .. m : fetched'[k] = fetched[k]
          /\ fetched'[m + 1] = list[m + 1]
      BY <2>2, <3>5, <3>6
    <3>8. \A k \in 1 .. Len(fetched') : fetched'[k] = list[k]
      <4> SUFFICES ASSUME NEW k \in 1 .. m + 1 PROVE fetched'[k] = list[k]
        BY <3>7
      <4>1. CASE k = m + 1
        BY <3>7, <4>1
      <4>2. CASE k # m + 1
        <5>1. k \in 1 .. m
          BY <2>2, <4>2
        <5> QED
          BY <2>3, <3>7, <5>1
      <4> QED
        BY <4>1, <4>2
    <3>9. \E c \in 1 .. Blocks : Len(fetched') + rem' = c * ndesc + 1
      <4>1. PICK c \in 1 .. Blocks : m + n = c * ndesc + 1
        BY <2>9, <2>12
      <4>2. n \in Nat
        <5>1. d \in DescType
          BY <2>2, <2>5, <3>1
        <5> QED
          BY <2>2, <5>1 DEF n, DescType
      <4>3. (m + 1) + (n - 1) = m + n
        BY <2>2, <4>2
      <4> QED
        BY <3>5, <3>7, <4>1, <4>3
    <3>10. Len(fetched') <= Len(list)
      BY <2>2, <3>1, <3>7
    <3>11. pc' = "walk" /\ list' = list /\ ndesc' = ndesc
      BY <1>1, <3>5
    <3> HIDE DEF m
    <3> QED
      BY <1>2, <3>8, <3>9, <3>10, <3>11 DEF Following
  <2> QED
    BY <2>11, <2>12
<1> QED
  BY <1>2, <1>3, <1>4 DEF FollowInv, Following

LEMMA NextFollow == IInv /\ IInv' /\ FollowInv /\ [Next]_vars => FollowInv'
<1> SUFFICES ASSUME IInv, IInv', FollowInv, [Next]_vars PROVE FollowInv'
  OBVIOUS
<1>1. UNCHANGED vars => FollowInv'
  BY DEF vars, args, loop, memory, engine, FollowInv, Counting, Following, Known, Fits, Blocks,
         IsBlock
<1> QED
  BY <1>1, QuietFollow, WriteFollow, StartFollow, FetchFollow DEF Next

\* The engine executes the descriptors of the call in the order in which
\* dma_bare_xfer wrote them and stops behind the last, for every list whose
\* count fits in LBAR_BASIC: it never follows lar to a slot that holds nothing or
\* the descriptor of another block.
THEOREM EngineFollowsList == Spec => []EngineFollows
<1>1. IInv /\ FollowInv => EngineFollows
  <2> SUFFICES ASSUME IInv, Following, Known, Fits
               PROVE  /\ pc # "lost"
                      /\ pc \in {"walk", "done"} => fetched = SubSeq(list, 1, Len(fetched))
                      /\ pc = "done" => Len(fetched) = Len(list)
    BY DEF FollowInv, EngineFollows, Known
  <2>1. ASSUME pc \in {"walk", "done"} PROVE fetched = SubSeq(list, 1, Len(fetched))
    <3> DEFINE m == Len(fetched)
               s == SubSeq(list, 1, m)
    <3>1. fetched \in Seq(DescType) /\ list \in Seq(DescType) /\ m \in Nat
      BY DEF IInv, TypeOK
    <3>2. m <= Len(list) /\ \A k \in 1 .. m : fetched[k] = list[k]
      BY <2>1 DEF Following
    <3>3. \A k \in 1 .. m : list[k] \in DescType
      BY <3>1, <3>2
    <3>4. /\ s \in Seq(DescType) /\ Len(s) = IF 1 <= m THEN m - 1 + 1 ELSE 0
          /\ \A k \in 1 .. m - 1 + 1 : s[k] = list[1 + k - 1]
      BY <3>1, <3>3, SubSeqProperties
    <3>5. Len(s) = m /\ \A k \in 1 .. m : s[k] = list[k]
      BY <3>1, <3>4
    <3> HIDE DEF s
    <3>6. fetched = s
      BY <3>1, <3>2, <3>4, <3>5, SeqEqual
    <3> QED
      BY <3>6 DEF s
  <2> QED
    BY <2>1 DEF Following
<1>2. Init => IInv /\ FollowInv
  BY InitIInv, InitFollow
<1>3. IInv /\ FollowInv /\ [Next]_vars => FollowInv' /\ IInv'
  BY StepIInv, NextFollow
<1> QED
  BY <1>1, <1>2, <1>3, PTL DEF Spec
-----------------------------------------------------------------------------
(***************************************************************************)
(* What the transfers cover.  Only the last descriptor of block 0 moves    *)
(* data that no other one does, since the block does not advance.          *)
(***************************************************************************)
Advance == ~(IsBlock /\ j = 0)

\* The addresses and the remaining size of a block of fixed sizes
Remaining ==
  ~call.rnd /\ Divisible /\ pc = "desc" =>
    /\ pos + left = BlockStart(j) + call.size
    /\ elm >= 1 /\ left >= (LastIndex + 1 - i) * elm
    /\ ~Advance => left = call.size

\* The bytes of block j below Reached are in some descriptor.
Reached == IF pc = "desc" /\ Advance THEN pos ELSE BlockStart(j)

InList(b) == \E k \in 1 .. Len(list) : list[k].pos <= b /\ b <= list[k].pos + list[k].n

InBlock(k) == \A b \in 0 .. call.size - 1 : InList(BlockStart(k) + b)

Covering ==
  Known /\ Divisible =>
    /\ \A k \in 0 .. j - 1 : InBlock(k)
    /\ \A b \in BlockStart(j) .. Reached - 1 : InList(b)

CoverInv == Remaining /\ Covering

LEMMA InitCover == Init => CoverInv
<1> SUFFICES ASSUME Init PROVE CoverInv
  OBVIOUS
<1>1. TypeOK
  BY InitIInv DEF IInv
<1>2. j = 0 /\ pc = "block" /\ BlockStart(j) \in Nat
  BY <1>1, BlockStartFacts DEF Init
<1>3. Reached = BlockStart(j)
  BY <1>2 DEF Reached
<1> QED
  BY <1>2, <1>3 DEF CoverInv, Remaining, Covering

\* A block begins at its start.
LEMMA BeginCover ==
  ASSUME IInv, CoverInv, BeginBlock
  PROVE  CoverInv'
<1> USE ParametersAssumption, CallFacts
<1>0. TypeOK
  BY DEF IInv
<1>a. /\ UNCHANGED <<call, list, j>> /\ i' = 0 /\ pc = "block"
      /\ left' = call.size /\ pos' = BlockStart(j) /\ BlockStart(j) \in Nat
      /\ j \in Nat /\ call.size \in Nat /\ call.size > 0
  <2>1. j \in Nat /\ call.size \in Nat /\ call.size > 0
    BY <1>0 DEF TypeOK
  <2>2. BlockStart(j) \in Nat
    BY <1>0, <2>1, BlockStartFacts
  <2> QED
    BY <2>1, <2>2 DEF BeginBlock, args, memory
<1>b. \A k : BlockStart(k)' = BlockStart(k)
  BY <1>a DEF BlockStart
<1>1. Remaining'
  <2> SUFFICES ASSUME ~call.rnd, Divisible
               PROVE  /\ pos' + left' = BlockStart(j) + call.size
                      /\ elm' >= 1 /\ left' >= (LastIndex' + 1 - i') * elm'
                      /\ ~Advance' => left' = call.size
    BY <1>a, <1>b DEF Remaining, Divisible
  <2> DEFINE m == IF j = 0 THEN call.cnt + 1 ELSE call.cnt
  <2>1. ndesc' = call.cnt /\ elm' = call.size \div m
    BY DEF BeginBlock
  <2>2. m \in Nat /\ m > 0 /\ call.size >= m
    BY <1>0, <1>a DEF Divisible
  <2>3. LastIndex' + 1 - i' = m
    BY <1>0, <1>a, <2>1 DEF LastIndex
  <2> HIDE DEF m
  <2>4. elm' >= 1 /\ call.size >= m * elm'
    BY <1>a, <2>1, <2>2, DivFacts
  <2> QED
    BY <1>a, <2>3, <2>4
<1>2. Reached = BlockStart(j) /\ Reached' = Reached
  BY <1>a, <1>b DEF Reached
<1>3. Covering'
  BY <1>a, <1>b, <1>2
  DEF CoverInv, Covering, Known, IsBlock, Divisible, InBlock, InList
<1> QED
  BY <1>1, <1>3 DEF CoverInv

LEMMA GenCover ==
  ASSUME IInv, IInv', CoverInv, GenSize \/ GenEnd
  PROVE  CoverInv'
<1> USE ParametersAssumption, CallFacts
<1>0. TypeOK /\ TypeOK'
  BY DEF IInv
<1>a. /\ UNCHANGED <<call, list, j, i, pos>> /\ call.rnd /\ pc = "gen" /\ i = 0
      /\ j < Blocks /\ j \in Nat
  BY <1>0 DEF GenSize, GenEnd, args, memory, IInv, Sizes, Loops, TypeOK
<1>b. \A k : BlockStart(k)' = BlockStart(k)
  BY <1>a DEF BlockStart
<1>1. Remaining'
  BY <1>a DEF Remaining
<1>2. ASSUME Known, Divisible PROVE Reached' = Reached
  <2>1. ~IsBlock /\ j = 0
    BY <1>a, <1>2 DEF Known, Blocks
  <2>2. pos = 0
    BY <1>2, <1>a, <2>1 DEF IInv, Tiling
  <2>3. BlockStart(j) = 0
    BY <1>0, <2>1, BlockStartFacts
  <2> QED
    BY <1>a, <1>b, <2>1, <2>2, <2>3 DEF Reached
<1>3. Covering'
  BY <1>a, <1>b, <1>2
  DEF CoverInv, Covering, Known, IsBlock, Divisible, InBlock, InList
<1> QED
  BY <1>1, <1>3 DEF CoverInv

LEMMA EngineCover ==
  ASSUME IInv, IInv', CoverInv, EngineStart \/ EngineFetch
  PROVE  CoverInv'
<1>1. /\ UNCHANGED <<call, list, j>>
      /\ pc \notin {"desc"} /\ pc' \notin {"desc"}
  BY DEF EngineStart, EngineFetch, args, loop, memory
<1>2. /\ \A k : BlockStart(k)' = BlockStart(k)
      /\ Reached' = Reached
  BY <1>1 DEF Reached, BlockStart
<1> QED
  BY <1>1, <1>2
  DEF CoverInv, Remaining, Covering, Known, IsBlock, Divisible, InBlock, InList

\* The descriptor written next begins where the block is tiled up to; if it is
\* the last of its block, it ends the block.
LEMMA WriteCover ==
  ASSUME IInv, IInv', CoverInv, WriteDesc
  PROVE  CoverInv'
<1> USE ParametersAssumption, CallFacts
<1>0. TypeOK /\ Loops /\ Sizes
  BY DEF IInv
<1>a. /\ UNCHANGED <<call, ends, ndesc>> /\ pc = "desc"
      /\ list' = Append(list, Descriptor)
      /\ elm' = (IF call.rnd THEN Count ELSE elm)
      /\ Advance => pos' = pos + elm' /\ left' = Sub(left, Count)
      /\ ~Advance => pos' = pos /\ left' = left
      /\ IF i = LastIndex
         THEN i' = 0 /\ j' = j + 1 /\ pc' = "block"
         ELSE i' = i + 1 /\ j' = j /\ pc' = "desc"
  BY DEF WriteDesc, args, engine, Advance
<1>b. /\ j < Blocks /\ i <= LastIndex /\ LastIndex \in Int /\ j \in Nat /\ i \in Nat
      /\ pos \in Nat /\ left \in Nat /\ elm \in Nat /\ left <= Word - 1 /\ elm <= Word - 1
      /\ call.size \in Nat /\ call.size > 0
  <2>1. j < Blocks /\ i <= LastIndex /\ LastIndex \in Int
    BY <1>0, <1>a, SlotFacts DEF Loops
  <2>2. /\ j \in Nat /\ i \in Nat /\ pos \in Nat
        /\ left \in 0 .. (Word - 1) /\ elm \in 0 .. (Word - 1)
    BY <1>0 DEF TypeOK
  <2>3. call.size \in 1 .. (Word - 1) /\ Word \in Nat
    BY <1>0
  <2> QED
    BY <2>1, <2>2, <2>3
<1>c. /\ Len(list') = Len(list) + 1 /\ Len(list) \in Nat
      /\ \A k \in 1 .. Len(list) : list'[k] = list[k]
      /\ list'[Len(list) + 1] = Descriptor
  <2>1. list \in Seq(DescType)
    BY <1>0 DEF TypeOK
  <2>2. Descriptor \in DescType
    BY <1>0, <1>a, DescriptorFacts
  <2> QED
    BY <1>a, <2>1, <2>2
<1>d. Known' = Known /\ Divisible' = Divisible /\ IsBlock' = IsBlock
  BY <1>a DEF IsBlock, Known, Divisible
<1>e. /\ BlockStart(j) \in Nat /\ BlockStart(j') \in Nat
      /\ j = 0 => BlockStart(j) = 0
      /\ \A k : BlockStart(k)' = BlockStart(k)
  <2>1. j' \in Nat
    BY <1>a, <1>b
  <2> QED
    BY <1>0, <1>a, <1>b, <2>1, BlockStartFacts DEF BlockStart
<1> SUFFICES ASSUME Divisible PROVE CoverInv'
  BY <1>d DEF CoverInv, Remaining, Covering
\* What is left holds the descriptors to come.
<1>1. ASSUME ~call.rnd
      PROVE  /\ left >= elm /\ elm >= 1
             /\ left - elm >= (LastIndex + 1 - (i + 1)) * elm
  <2> DEFINE x == (LastIndex - i) * elm
  <2>1. left >= (LastIndex + 1 - i) * elm /\ elm >= 1
    BY <1>1, <1>a DEF CoverInv, Remaining
  <2>2. (LastIndex + 1 - i) * elm = x + elm
    <3>1. ((LastIndex - i) + 1) * elm = x + elm
      BY <1>b, ProductStep
    <3>2. (LastIndex - i) + 1 = LastIndex + 1 - i
      BY <1>b
    <3> QED
      BY <3>1, <3>2
  <2>3. x \in Nat /\ LastIndex + 1 - (i + 1) = LastIndex - i
    <3>1. LastIndex - i \in Nat
      BY <1>b
    <3> QED
      BY <1>b, <3>1
  <2>4. left - elm >= x /\ left >= elm
    <3> HIDE DEF x
    <3> QED
      BY <1>b, <2>1, <2>2, <2>3
  <2> QED
    BY <2>1, <2>3, <2>4
<1>2. Count \in Nat /\ Count >= 1
  <2>1. CASE call.rnd
    BY <1>0, <1>a, <2>1, CountFacts
  <2>2. CASE ~call.rnd
    BY <1>b, <1>1, <2>2 DEF Count
  <2> QED
    BY <2>1, <2>2
<1>3. Descriptor.pos = pos /\ Descriptor.n = Count - 1
  BY <1>0, <1>2, <1>a, DescriptorFacts
<1>4. ASSUME ~call.rnd, i # LastIndex, Advance
      PROVE  Count = elm /\ elm' = elm /\ left' = left - elm /\ pos' = pos + elm
  BY <1>4, <1>1, <1>a, <1>b DEF Count, Sub
<1>5. Remaining'
  <2> SUFFICES ASSUME ~call.rnd, i # LastIndex
               PROVE  /\ pos' + left' = BlockStart(j') + call.size
                      /\ elm' >= 1 /\ left' >= (LastIndex' + 1 - i') * elm'
                      /\ ~Advance' => left' = call.size
    BY <1>a, <1>e DEF Remaining
  <2>1. /\ i' = i + 1 /\ j' = j /\ elm' = elm /\ LastIndex' = LastIndex
        /\ Advance' = Advance
    BY <1>a, <1>d DEF LastIndex, Advance
  <2>2. pos + left = BlockStart(j) + call.size /\ (~Advance => left = call.size)
    BY <1>a DEF CoverInv, Remaining
  <2> DEFINE x == (LastIndex + 1 - (i + 1)) * elm
             y == BlockStart(j) + call.size
  <2>3. left - elm >= x /\ elm >= 1 /\ x \in Int /\ y \in Nat
    BY <1>1, <1>b, <1>e
  <2>4. pos' + left' = y /\ left' >= x /\ (~Advance => left' = call.size)
    <3> HIDE DEF x, y
    <3>1. pos + left = y
      BY <2>2 DEF y
    <3>2. CASE Advance
      BY <1>4, <1>b, <2>3, <3>1, <3>2
    <3>3. CASE ~Advance
      BY <1>a, <1>b, <2>2, <2>3, <3>1, <3>3
    <3> QED
      BY <3>2, <3>3
  <2> QED
    BY <2>1, <2>3, <2>4
\* The bytes of block j that are covered with the descriptor
<1> DEFINE top == IF i = LastIndex THEN BlockStart(j) + call.size
                  ELSE IF Advance THEN pos + Count ELSE BlockStart(j)
<1>6. ASSUME Known PROVE top \in Nat /\ top <= pos + Count /\ Reached >= pos
  <2>0. top \in Nat
    BY <1>2, <1>b, <1>e
  <2>1. CASE i # LastIndex /\ Advance
    BY <1>2, <1>a, <1>b, <2>0, <2>1 DEF Reached
  <2>2. CASE ~Advance
    <3>1. j = 0 /\ IsBlock /\ ~call.rnd /\ BlockStart(j) = 0
      BY <1>6, <1>e, <2>2 DEF Advance, Known
    <3>2. pos + left = call.size /\ left = call.size
      BY <1>a, <1>b, <2>2, <3>1 DEF CoverInv, Remaining
    <3>3. pos = 0 /\ Reached = 0
      BY <1>b, <2>2, <3>1, <3>2 DEF Reached
    <3>4. i = LastIndex => Count = call.size
      BY <3>1, <3>2 DEF Count
    <3> QED
      BY <1>2, <1>b, <2>0, <2>2, <3>1, <3>3, <3>4
  <2>3. CASE i = LastIndex /\ Advance
    <3>1. Reached = pos /\ top = BlockStart(j) + call.size
      BY <1>a, <2>3 DEF Reached
    <3>2. CASE call.rnd
      <4>1. ~IsBlock /\ j = 0
        BY <1>6, <1>b, <3>2 DEF Known, Blocks
      <4>2. pos = ends[i + 1]
        BY <1>a, <3>2, <4>1 DEF IInv, Tiling
      <4>3. ends[i + 2] = ends[i + 1] + Count /\ ends[i + 2] = call.size
        BY <1>0, <1>a, <2>3, <3>2, CountFacts
      <4>4. top = pos + Count
        BY <1>b, <1>e, <3>1, <4>1, <4>2, <4>3
      <4> QED
        BY <1>2, <1>b, <2>0, <3>1, <4>4
    <3>3. CASE ~call.rnd
      <4>1. pos + left = BlockStart(j) + call.size /\ Count = left
        BY <1>a, <2>3, <3>3 DEF CoverInv, Remaining, Count
      <4> QED
        BY <1>2, <1>b, <2>0, <3>1, <4>1
    <3> QED
      BY <3>2, <3>3
  <2> QED
    BY <2>1, <2>2, <2>3
<1>7. ASSUME NEW b, InList(b) PROVE InList(b)'
  <2>1. PICK k \in 1 .. Len(list) : list[k].pos <= b /\ b <= list[k].pos + list[k].n
    BY <1>7 DEF InList
  <2>2. k \in 1 .. Len(list') /\ list'[k] = list[k]
    BY <1>c
  <2> QED
    BY <2>1, <2>2 DEF InList
<1>8. ASSUME Known, NEW b \in BlockStart(j) .. top - 1 PROVE InList(b)'
  <2>0. Reached \in Nat /\ b \in Nat
    BY <1>b, <1>e, <1>6, <1>8 DEF Reached
  <2>1. CASE b < Reached
    <3>1. b \in BlockStart(j) .. Reached - 1
      BY <1>e, <1>6, <1>8, <2>0, <2>1
    <3> QED
      BY <1>8, <1>7, <3>1 DEF CoverInv, Covering
  <2>2. CASE ~(b < Reached)
    <3>1. pos <= b /\ b <= pos + (Count - 1)
      <4> DEFINE lo == Reached
                 n  == Count
                 hi == top
      <4>1. hi <= pos + n /\ lo >= pos /\ hi \in Nat
        BY <1>6, <1>8
      <4>2. lo \in Nat /\ n \in Nat /\ b \in Nat /\ b <= hi - 1 /\ ~(b < lo)
        BY <1>2, <1>e, <2>0, <2>2, <1>8, <4>1
      <4> HIDE DEF lo, hi, n, top
      <4>3. pos <= b /\ b <= pos + (n - 1)
        BY <1>b, <4>1, <4>2
      <4> QED
        BY <4>3 DEF n
    <3>2. Len(list) + 1 \in 1 .. Len(list')
      BY <1>c
    <3> QED
      BY <1>3, <1>c, <3>1, <3>2 DEF InList
  <2> QED
    BY <2>1, <2>2
<1>9. Covering'
  <2> SUFFICES ASSUME Known
               PROVE  /\ \A k \in 0 .. j' - 1 : InBlock(k)'
                      /\ \A b \in BlockStart(j)' .. Reached' - 1 : InList(b)'
    BY <1>d DEF Covering
  <2>1. ASSUME NEW k \in 0 .. j - 1 PROVE InBlock(k)'
    <3>1. InBlock(k)
      BY <2>1 DEF CoverInv, Covering
    <3> QED
      BY <1>7, <1>a, <1>e, <3>1 DEF InBlock
  <2>2. CASE i = LastIndex
    <3>1. ASSUME NEW k, k = j PROVE InBlock(k)'
      <4>1. ASSUME NEW b \in BlockStart(j) .. top - 1
            PROVE  \E m \in 1 .. Len(list') :
                     list'[m].pos <= b /\ b <= list'[m].pos + list'[m].n
        <5> HIDE DEF top
        <5> QED
          BY <1>8, <4>1 DEF InList
      <4>2. ASSUME NEW b \in 0 .. call.size - 1
            PROVE  \E m \in 1 .. Len(list') :
                     /\ list'[m].pos <= BlockStart(k) + b
                     /\ BlockStart(k) + b <= list'[m].pos + list'[m].n
        <5>1. BlockStart(k) + b \in BlockStart(j) .. top - 1
          BY <1>b, <1>e, <2>2, <3>1
        <5> HIDE DEF top
        <5> QED
          BY <4>1, <5>1
      <4> QED
        BY <1>a, <1>e, <4>2 DEF InBlock, InList
    <3>2. j' = j + 1 /\ Reached' = BlockStart(j)'
      BY <1>a, <2>2 DEF Reached
    <3>3. BlockStart(j)' \in Nat
      BY <1>e
    <3> QED
      BY <1>b, <2>1, <3>1, <3>2, <3>3
  <2>3. CASE i # LastIndex
    <3>1. j' = j /\ Reached' = top /\ BlockStart(j)' = BlockStart(j)
      <4>1. j' = j /\ pc' = "desc" /\ Advance' = Advance
        BY <1>a, <1>d, <2>3 DEF Advance
      <4>2. Advance => pos' = pos + Count
        BY <1>4, <1>a, <2>3
      <4> QED
        BY <1>e, <2>3, <4>1, <4>2 DEF Reached
    <3> HIDE DEF top
    <3> QED
      BY <1>8, <2>1, <3>1
  <2> QED
    BY <2>2, <2>3
<1> QED
  BY <1>5, <1>9 DEF CoverInv

LEMMA NextCover == IInv /\ IInv' /\ CoverInv /\ [Next]_vars => CoverInv'
<1> SUFFICES ASSUME IInv, IInv', CoverInv, [Next]_vars PROVE CoverInv'
  OBVIOUS
<1>1. UNCHANGED vars => CoverInv'
  BY DEF vars, args, loop, memory, engine, CoverInv, Remaining, Covering, Known, Divisible,
         Reached, Advance, IsBlock, LastIndex, InBlock, InList, BlockStart
<1> QED
  BY <1>1, BeginCover, GenCover, WriteCover, EngineCover DEF Next

\* The blocks together, if no start has wrapped, are one range.
LEMMA BlocksTile ==
  ASSUME TypeOK, Unwrapped, NEW b \in 0 .. call.size * Blocks - 1
  PROVE  \E k \in 0 .. Blocks - 1 : \E c \in 0 .. call.size - 1 : b = BlockStart(k) + c
<1> DEFINE n == call.size
           m == Blocks
<1>1. n \in Nat /\ n > 0 /\ m \in Nat /\ m > 0 /\ Word \in Nat
  BY CallFacts, ParametersAssumption
<1>2. b \in Nat /\ b < n * m
  BY <1>1
<1> HIDE DEF n, m
<1>3. PICK k \in Int : \E c \in 0 .. n - 1 : k = b \div n /\ b = n * k + c
  BY <1>1, <1>2, DivModFacts
<1>4. k \in Nat /\ n * k <= b
  BY <1>1, <1>2, <1>3, DivFacts
<1>5. k <= m - 1
  <2> SUFFICES ASSUME k >= m PROVE FALSE
    BY <1>1, <1>4
  <2>1. n * k >= n * m
    BY <1>1, <1>4
  <2> DEFINE x == n * k
             y == n * m
  <2>2. x \in Nat /\ y \in Nat /\ x >= y /\ x <= b /\ b < y
    BY <1>1, <1>2, <1>4, <2>1
  <2> HIDE DEF x, y
  <2> QED
    BY <1>2, <2>2
<1>6. k * n < Word
  <2>1. k * n <= (m - 1) * n
    BY <1>1, <1>4, <1>5
  <2>2. (m - 1) * n < Word
    BY DEF Unwrapped, n, m
  <2> DEFINE x == k * n
             y == (m - 1) * n
  <2>3. x \in Int /\ y \in Int /\ x <= y /\ y < Word
    BY <1>1, <1>4, <2>1, <2>2
  <2> HIDE DEF x, y
  <2>4. x < Word
    BY <1>1, <2>3
  <2> QED
    BY <2>4 DEF x
<1>7. BlockStart(k) = k * n
  BY <1>4, <1>6, BlockStartFacts DEF n
<1>8. \E c \in 0 .. n - 1 : b = BlockStart(k) + c
  <2>1. n * k = k * n
    BY <1>1, <1>4
  <2> DEFINE x == k * n
  <2>2. \E c \in 0 .. n - 1 : b = x + c
    BY <1>3, <2>1
  <2> QED
    BY <1>7, <2>2
<1>9. k \in 0 .. m - 1
  BY <1>1, <1>4, <1>5
<1> QED
  BY <1>8, <1>9 DEF n, m

\* When the engine has stopped it has transferred every byte of every block
\* from the block's start, the 32-bit product j * size, on, for every list of
\* fixed sizes and every random chain whose count fits in LBAR_BASIC and whose
\* descriptors are not empty, block 0 included although it does not advance the
\* addresses; and, if no start has wrapped, every byte of the whole range.
THEOREM EveryByteIsCovered == Spec => []Covers
<1>1. IInv /\ FollowInv /\ CoverInv => Covers
  <2> SUFFICES ASSUME IInv, FollowInv, CoverInv, Known, pc = "done", Fits, Divisible
               PROVE  /\ \A k \in 0 .. Blocks - 1 :
                           \A b \in 0 .. call.size - 1 : Covered(BlockStart(k) + b)
                      /\ Unwrapped =>
                           \A b \in 0 .. call.size * Blocks - 1 : Covered(b)
    BY DEF Covers, AllCovered, Known
  <2>1. TypeOK /\ j = Blocks
    BY DEF IInv, Loops
  <2>2. ASSUME NEW b, InList(b) PROVE Covered(b)
    <3>1. PICK k \in 1 .. Len(list) : list[k].pos <= b /\ b <= list[k].pos + list[k].n
      BY <2>2 DEF InList
    <3>2. k \in 1 .. Len(fetched) /\ fetched[k] = list[k]
      BY DEF FollowInv, Following
    <3> QED
      BY <3>1, <3>2 DEF Covered
  <2>3. ASSUME NEW k \in 0 .. Blocks - 1, NEW b \in 0 .. call.size - 1
        PROVE  Covered(BlockStart(k) + b)
    <3>1. InBlock(k)
      BY <2>1 DEF CoverInv, Covering
    <3>2. InList(BlockStart(k) + b)
      BY <3>1 DEF InBlock
    <3> QED
      BY <2>2, <3>2
  <2>4. ASSUME Unwrapped, NEW b \in 0 .. call.size * Blocks - 1
        PROVE  Covered(b)
    <3>1. PICK k \in 0 .. Blocks - 1 :
            \E c \in 0 .. call.size - 1 : b = BlockStart(k) + c
      BY <2>1, <2>4, BlocksTile
    <3> QED
      BY <2>3, <3>1
  <2> QED
    BY <2>3, <2>4
<1>2. Init => IInv /\ FollowInv /\ CoverInv
  BY InitIInv, InitFollow, InitCover
<1>3. IInv /\ FollowInv /\ CoverInv /\ [Next]_vars => FollowInv' /\ IInv' /\ CoverInv'
  BY StepIInv, NextFollow, NextCover
<1> QED
  BY <1>1, <1>2, <1>3, PTL DEF Spec
=============================================================================
