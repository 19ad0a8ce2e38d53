----------------------------- MODULE PageTable -----------------------------
(***************************************************************************)
(* The page tables of the DMA engine's MMU, as pcie_mmu_init               *)
(* (mmu_init_pagetable.c) writes them: one step per page of the pool.      *)
(* Four levels, PC, PR, PD and PT; a page of 2 MB or more skips PR.        *)
(*                                                                         *)
(* Addresses are page numbers (address >> 12); the entry at index n of the *)
(* table at page b is <<b, n>>.  An entry is the base it holds: every      *)
(* entry is written valid.  There is one context (MMU_MAX_CTXT_NUM).       *)
(***************************************************************************)
EXTENDS Integers

CONSTANTS
  PoolNum,     \* MMU_MAX_VA_POOL_NUM
  IndexMod,    \* 2^8: va_pool_index is a uint8_t parameter
  PageSizes    \* the values of page_size_e that MMU_PAGE_SIZE may be: 0 .. 7

ASSUME PageTableAssumption ==
  /\ PoolNum \in Nat /\ IndexMod \in Nat \ {0} /\ PageSizes \subseteq 0 .. 7

VARIABLES
  va_page_size, \* of every page
  va_size,      \* gen_va_pool's local, which is never assigned
  next,         \* the loop of setup_page_desc: the next page
  pc_ass, pr_ass, pd_ass, pt_ass, \* entry and base of an index: *_addr_ass
                                  \* and the *_base_ass of the level below
  mem,          \* the tables in memory
  pcbase        \* the MMU's PC base register; 0 before it is written

ptVars == <<va_page_size, va_size, next, pc_ass, pr_ass, pd_ass, pt_ass, mem,
            pcbase>>

\* 4 KB pages in a page of each size; sizes outside the enumeration count as
\* the smallest (the default of the switches).
Span == [s \in 0 .. 8 |->
           CASE s = 1 -> 2 [] s = 2 -> 4 [] s = 3 -> 16 [] s = 4 -> 64
             [] s = 5 -> 512 [] s = 6 -> 8192 [] s = 7 -> 131072
             [] OTHER -> 1]

PC_BASE == 8388608    \* MMU_PC_BASE_ADDR >> 12
PR_BASE == PC_BASE + 8192
PD_BASE == PC_BASE + 16384
PT_BASE == PC_BASE + 24576
PA_BASE == 4194304

\* gen_va_pool
va_pool(j) == j * Span[va_size]

\* gen_pa_pool: of every four entries a PR, a PD, a PT and a data page.
pr_pool(j) == PR_BASE + 4 * j
pd_pool(j) == PD_BASE + 4 * j + 1
pt_pool(j) == PT_BASE + 4 * j + 2
pa_pool(j) == PA_BASE + j * Span[va_page_size]

\* The indices of gen_page_desc: (v >> shift) & mask.
Bits(v, shift, mask) == (v \div 2^shift) % (mask + 1)

pc_index(v) == Bits(v, 27, 511)
pr_index(v) == IF va_page_size < 5 THEN Bits(v, 18, 511) ELSE Bits(v, 27, 511)
pd_index(v) == IF va_page_size < 5 THEN Bits(v, 9, 511) ELSE Bits(v, 18, 511)

\* Faulty variant: 64 KB pages with the index of 16 KB pages.
pt_index_short(v) ==
  CASE va_page_size = 1 -> Bits(v, 1, 255) [] va_page_size = 2 -> Bits(v, 2, 127)
    [] va_page_size = 3 -> Bits(v, 2, 31)  [] va_page_size = 4 -> Bits(v, 6, 7)
    [] va_page_size = 5 -> Bits(v, 9, 511) [] va_page_size = 6 -> Bits(v, 13, 31)
    [] va_page_size = 7 -> Bits(v, 17, 1)  [] OTHER -> Bits(v, 0, 511)

pt_index(v) ==
  CASE va_page_size = 1 -> Bits(v, 1, 255) [] va_page_size = 2 -> Bits(v, 2, 127)
    [] va_page_size = 3 -> Bits(v, 4, 31)  [] va_page_size = 4 -> Bits(v, 6, 7)
    [] va_page_size = 5 -> Bits(v, 9, 511) [] va_page_size = 6 -> Bits(v, 13, 31)
    [] va_page_size = 7 -> Bits(v, 17, 1)  [] OTHER -> Bits(v, 0, 511)

\* 0x8000000000000000: no entry.
Unused == [addr |-> <<0, 0>>, base |-> 0]

PtInit ==
  /\ va_page_size \in PageSizes
  /\ va_size \in 0 .. 8
  /\ next = 0
  /\ pc_ass = [n \in 0 .. (IndexMod - 1) |-> Unused]
  /\ pr_ass = pc_ass /\ pd_ass = pc_ass /\ pt_ass = pc_ass
  /\ mem = <<>> /\ pcbase = 0
-----------------------------------------------------------------------------
\* The loops of gen_page_desc over the indices up to n: is there an entry with
\* this address, and the base of the first such.
Known(ass, a, n) == \E k \in 0 .. n : ass[k].addr = a

BaseOf(ass, a, n) ==
  ass[CHOOSE k \in 0 .. n : /\ ass[k].addr = a
                            /\ \A l \in 0 .. (k - 1) : ass[l].addr # a].base

\* One level: the base an entry leads to, and the table after it.
Below(ass, a, n, fresh) == IF Known(ass, a, n) THEN BaseOf(ass, a, n) ELSE fresh

Noted(ass, a, n, stored, fresh) ==
  IF Known(ass, a, n) THEN ass
  ELSE [ass EXCEPT ![n] = [addr |-> stored, base |-> fresh]]

\* The memory m after the entry a is written, if the level was not known.
Written(m, ass, a, n, base) ==
  IF Known(ass, a, n) THEN m
  ELSE [x \in DOMAIN m \cup {a} |-> IF x = a THEN base ELSE m[x]]

\* gen_page_desc for page j of the pool.  The PR level notes the address of
\* the PC entry, so that no PR entry is ever known.
gen_page_desc(j) ==
  LET n == j % IndexMod
      v == va_pool(j)
      large == va_page_size >= 5
      pcA == <<PC_BASE, pc_index(v)>>
      pr_base == Below(pc_ass, pcA, n, pr_pool(n))
      prA == <<pr_base, pr_index(v)>>
      pd_base == Below(pr_ass, prA, n, pd_pool(n))
      pdA == <<pd_base, pd_index(v)>>
      pt_base == Below(pd_ass, pdA, n, pt_pool(n))
      ptA == <<pt_base, pt_index(v)>>
      pa_page == Below(pt_ass, ptA, n, pa_pool(n))
  IN  /\ pc_ass' = Noted(pc_ass, pcA, n, pcA, pr_base)
      /\ pr_ass' = Noted(pr_ass, prA, n, pcA, pd_base)
      /\ pd_ass' = Noted(pd_ass, pdA, n, pdA, pt_base)
      /\ pt_ass' = Noted(pt_ass, ptA, n, ptA, pa_page)
      /\ mem' =
           LET pc == Written(mem, pc_ass, pcA, n, IF large THEN pd_base ELSE pr_base)
               pr == IF large THEN pc ELSE Written(pc, pr_ass, prA, n, pd_base)
               pd == Written(pr, pd_ass, pdA, n, pt_base)
           IN  Written(pd, pt_ass, ptA, n, pa_page)

\* One turn of the loop of setup_page_desc.
setup_page_desc ==
  /\ next < PoolNum
  /\ gen_page_desc(next)
  /\ next' = next + 1
  /\ UNCHANGED <<va_page_size, va_size, pcbase>>

\* The tables are complete: the base register is written.
pcie_mmu_cfg_init ==
  /\ next = PoolNum /\ pcbase = 0
  /\ pcbase' = PC_BASE
  /\ UNCHANGED <<va_page_size, va_size, next, pc_ass, pr_ass, pd_ass, pt_ass, mem>>

PtNext == setup_page_desc \/ pcie_mmu_cfg_init
-----------------------------------------------------------------------------
(* What the MMU does with the tables (external): the virtual page number   *)
(* split into fields of nine bits, the last of them shortened by the page. *)
Entry(a) == IF a \in DOMAIN mem THEN mem[a] ELSE 0

Walk(v) ==
  LET span == Span[va_page_size]
      field(l) == (v \div 512^l) % 512
      top == Entry(<<PC_BASE, field(3)>>)
  IN  IF va_page_size < 5
      THEN LET pd == Entry(<<top, field(2)>>)
               pt == Entry(<<pd, field(1)>>)
           IN  Entry(<<pt, field(0) \div span>>)
      ELSE LET pt == Entry(<<top, field(2)>>)
           IN  Entry(<<pt, (v % (512 * 512)) \div span>>)

\* The page set up last is translated, through all the levels, to the physical
\* page reserved for its index in the pool, whatever the earlier pages left in
\* the tables and in the arrays that share them, and however far apart the
\* uninitialised va_size puts the pages.  Of the pages of 2 MB and more this
\* holds for the first of the pool only: each has a PD of its own, but the PC
\* entry they share keeps pointing to the first one's.
NewestWalks ==
  (next > 0 /\ (va_page_size < 5 \/ (next - 1) % IndexMod = 0)) =>
    Walk(va_pool(next - 1)) = pa_pool((next - 1) % IndexMod)
=============================================================================
