------------------------------- MODULE Vmem -------------------------------
(***************************************************************************)
(* The video memory allocator of driver/mm.c: pages of a pool, handed out  *)
(* in runs by best fit.  A tree of the free runs, keyed by length and page *)
(* number, and a tree of the allocated runs, keyed by address, are AVL     *)
(* trees; page_list tags the first and the last page of every run, so that *)
(* vmem_free finds the free neighbours it merges with.                     *)
(*                                                                         *)
(* An AVL node is a record with its children inside it; Nil is NULL.  An   *)
(* ASSERT of mm.c loops for ever: ok = FALSE in a node and hung = TRUE.    *)
(* RECURSIVE operators keep this module to TLC.                            *)
(***************************************************************************)
EXTENDS Integers, Sequences, FiniteSets

CONSTANTS PageBytes,   \* VMEM_PAGE_SIZE, a power of two
          KeyLo,       \* 2^32: MAKE_KEY puts its second argument below it
          KeyHi,       \* 2^32: MAKE_KEY keeps its first argument modulo this, so
                       \* that addresses this far apart have one key
          Pools,       \* the <<addr, size>> given to vmem_init
          Sizes        \* the sizes, in bytes, asked of vmem_alloc

ASSUME VmemAssumption ==
  /\ PageBytes \in Nat \ {0} /\ KeyLo \in Nat \ {0} /\ KeyHi \in Nat \ {0}
  /\ KeyHi % PageBytes = 0
  /\ Sizes \subseteq Nat
  /\ \A p \in Pools : p[1] \in Nat /\ p[2] \in Nat

VARIABLES free_tree, alloc_tree,
          page_list,      \* 0..num_pages-1 -> tags, or <<>> before vmem_init
          base_addr,
          alloc_page_count, free_page_count,
          hung,           \* an ASSERT has failed: its while(1) never ends
          ret             \* the last call, its argument and what it returned

vars == <<free_tree, alloc_tree, page_list, base_addr, alloc_page_count,
          free_page_count, hung, ret>>

-----------------------------------------------------------------------------
\* AVL trees

Nil == [height |-> -1]

MaxOf(a, b) == IF a >= b THEN a ELSE b

MakeKey(a, b) == (a % KeyHi) * KeyLo + b
KeyToValue(k) == k \div KeyLo

make_avl_node(key, page) ==
  [key |-> key, page |-> page, height |-> 0, left |-> Nil, right |-> Nil, ok |-> TRUE]

get_balance_factor(t) == IF t = Nil THEN 0 ELSE t.right.height - t.left.height

SetHeight(t) == [t EXCEPT !.height = MaxOf(t.left.height, t.right.height) + 1]

\* Faulty variant: a rotation that forgets the height of the node that goes down
rotation_left_height(t) ==
  IF t = Nil \/ t.right = Nil THEN t
  ELSE SetHeight([t.right EXCEPT !.left = [t EXCEPT !.right = t.right.left]])

rotation_left(t) ==
  IF t = Nil \/ t.right = Nil THEN t
  ELSE SetHeight([t.right EXCEPT !.left = SetHeight([t EXCEPT !.right = t.right.left])])

rotation_right(t) ==
  IF t = Nil \/ t.left = Nil THEN Nil
  ELSE SetHeight([t.left EXCEPT !.right = SetHeight([t EXCEPT !.left = t.left.right])])

do_balance(t) ==
  LET bf == get_balance_factor(t) IN
  CASE bf >= 2 /\ get_balance_factor(t.right) \in {0, 1} -> rotation_left(t)
    [] bf >= 2 /\ get_balance_factor(t.right) = -1 ->
         rotation_left([t EXCEPT !.right = rotation_right(t.right)])
    [] bf <= -2 /\ get_balance_factor(t.left) \in {-1, 0} -> rotation_right(t)
    [] bf <= -2 /\ get_balance_factor(t.left) = 1 ->
         rotation_right([t EXCEPT !.left = rotation_left(t.left)])
    [] bf \in -1..1 -> t
    [] OTHER -> [t EXCEPT !.ok = FALSE]

\* The insertion balances a node before it updates its height
RECURSIVE avltree_insert(_, _, _)
avltree_insert(t, key, page) ==
  SetHeight(do_balance(
    CASE t = Nil -> make_avl_node(key, page)
      [] t # Nil /\ key >= t.key ->
           [t EXCEPT !.right = avltree_insert(t.right, key, page)]
      [] OTHER -> [t EXCEPT !.left = avltree_insert(t.left, key, page)]))

\* The leftmost (dir "left") or rightmost node, and the tree without it.  A
\* root that is itself that node yields Nil, whatever hangs on its other side.
RECURSIVE unlink_end_node(_, _)
unlink_end_node(t, dir) ==
  LET other == IF dir = "left" THEN "right" ELSE "left" IN
  IF t = Nil THEN [tree |-> Nil, found |-> Nil]
  ELSE IF t[dir] = Nil THEN [tree |-> Nil, found |-> t]
  ELSE LET u == unlink_end_node(t[dir], dir)
           last == u.tree = Nil
       IN [tree |-> do_balance(SetHeight(
                      [t EXCEPT ![dir] = IF last THEN u.found[other] ELSE u.tree])),
           found |-> IF last THEN [u.found EXCEPT !.left = Nil, !.right = Nil]
                             ELSE u.found]

\* The tree without its root
do_unlink(t) ==
  LET r == unlink_end_node(t.right, "left")
      l == unlink_end_node(t.left, "right")
      Root(n, left, right) == SetHeight([n EXCEPT !.left = left, !.right = right])
  IN CASE r.tree # Nil -> Root(r.found, t.left, r.tree)
       [] r.tree = Nil /\ l.tree # Nil -> Root(l.found, l.tree, t.right)
       [] r.tree = Nil /\ l.tree = Nil /\ t.right # Nil ->
            Root(t.right, t.left, t.right.right)
       [] r.tree = Nil /\ l.tree = Nil /\ t.right = Nil /\ t.left # Nil ->
            Root(t.left, t.left.left, Nil)
       [] OTHER -> Nil

Rebalanced(t) == IF t = Nil THEN Nil ELSE do_balance(SetHeight(t))

RECURSIVE avltree_remove(_, _)
avltree_remove(t, key) ==
  IF t = Nil THEN [tree |-> Nil, found |-> Nil]
  ELSE IF key = t.key THEN [tree |-> Rebalanced(do_unlink(t)), found |-> t]
  ELSE LET side == IF key > t.key THEN "right" ELSE "left"
           u == avltree_remove(t[side], key)
       IN [tree |-> Rebalanced([t EXCEPT ![side] = u.tree]), found |-> u.found]

\* Faulty variant: first fit by equality, a run of exactly the length asked for
remove_exact_value(t, key) == avltree_remove(t, key)

\* The node with the smallest key that is at least key
RECURSIVE remove_approx_value(_, _)
remove_approx_value(t, key) ==
  IF t = Nil THEN [tree |-> Nil, found |-> Nil]
  ELSE IF key = t.key THEN [tree |-> Rebalanced(do_unlink(t)), found |-> t]
  ELSE LET side == IF key > t.key THEN "right" ELSE "left"
           u == remove_approx_value(t[side], key)
       IN IF side = "left" /\ u.found = Nil
          THEN [tree |-> Rebalanced(do_unlink([t EXCEPT !.left = u.tree])), found |-> t]
          ELSE [tree |-> Rebalanced([t EXCEPT ![side] = u.tree]), found |-> u.found]

RECURSIVE Nodes(_)
Nodes(t) == IF t = Nil THEN {} ELSE {t} \cup Nodes(t.left) \cup Nodes(t.right)

Asserted(t) == \E n \in Nodes(t) : ~n.ok

-----------------------------------------------------------------------------
\* Runs of pages

num_pages == Len(page_list)

\* page_list[i] of the code is page_list[i + 1] here
Page(pl, i) == pl[i + 1]

Addr(i) == base_addr + i * PageBytes

\* The tags of a run: its length on its first page, its start on its last
Tag(pl, pageno, npages, isUsed) ==
  [j \in DOMAIN pl |->
     IF j - 1 \in pageno..(pageno + npages - 1)
     THEN [used |-> isUsed,
           alloc_pages |-> IF j - 1 = pageno THEN npages ELSE 0,
           first_pageno |-> IF j - 1 = pageno + npages - 1 THEN pageno ELSE -1]
     ELSE pl[j]]

set_blocks_free(m, pageno, npages) ==
  IF npages = 0 \/ pageno + npages > Len(m.pl) THEN [m EXCEPT !.stuck = TRUE]
  ELSE [m EXCEPT !.pl = Tag(m.pl, pageno, npages, FALSE),
                 !.free = avltree_insert(m.free, MakeKey(npages, pageno), pageno)]

set_blocks_alloc(m, pageno, npages) ==
  IF pageno + npages > Len(m.pl) THEN [m EXCEPT !.stuck = TRUE]
  ELSE [m EXCEPT !.pl = Tag(m.pl, pageno, npages, TRUE),
                 !.alloc = avltree_insert(m.alloc, MakeKey(Addr(pageno), 0), pageno)]

Mem(f, a, pl) == [free |-> f, alloc |-> a, pl |-> pl, stuck |-> FALSE]

Store(m) ==
  /\ free_tree' = m.free /\ alloc_tree' = m.alloc /\ page_list' = m.pl
  /\ hung' = (m.stuck \/ Asserted(m.free) \/ Asserted(m.alloc))

-----------------------------------------------------------------------------
Init ==
  /\ free_tree = Nil /\ alloc_tree = Nil /\ page_list = <<>>
  /\ base_addr = 0 /\ alloc_page_count = 0 /\ free_page_count = 0
  /\ hung = FALSE /\ ret = <<"none", 0, 0>>

\* size & ~VMEM_PAGE_SIZE clears one bit of the size: of an odd number of
\* pages the last is given up, the bytes beyond the last page stay
PagesOf(size) == LET n == size \div PageBytes IN IF n % 2 = 1 THEN n - 1 ELSE n

vmem_init(addr, size) ==
  LET n == PagesOf(size)
      blank == [j \in 1..n |-> [used |-> FALSE, alloc_pages |-> 0, first_pageno |-> -1]]
  IN /\ ~hung /\ page_list = <<>>
     /\ base_addr' = ((addr + PageBytes - 1) \div PageBytes) * PageBytes
     /\ alloc_page_count' = 0 /\ free_page_count' = n
     /\ Store(set_blocks_free(Mem(Nil, Nil, blank), 0, n))
     /\ ret' = <<"init", n, 0>>

vmem_exit ==
  /\ ~hung /\ page_list # <<>>
  /\ free_tree' = Nil /\ alloc_tree' = Nil /\ page_list' = <<>>
  /\ ret' = <<"exit", 0, 0>>
  /\ UNCHANGED <<base_addr, alloc_page_count, free_page_count, hung>>

vmem_alloc(size) ==
  LET npages == (size + PageBytes - 1) \div PageBytes
      r == remove_approx_value(free_tree, MakeKey(npages, 0))
      at == r.found.page
      free_size == KeyToValue(r.found.key)
      taken == set_blocks_alloc(Mem(r.tree, alloc_tree, page_list), at, npages)
  IN /\ ~hung
     /\ IF size <= 0 \/ r.found = Nil
        THEN /\ ret' = <<"alloc", npages, -1>>
             /\ free_tree' = IF size <= 0 THEN free_tree ELSE r.tree
             /\ UNCHANGED <<alloc_tree, page_list, base_addr,
                            alloc_page_count, free_page_count, hung>>
        ELSE /\ Store(IF npages # free_size
                      THEN set_blocks_free(taken, at + npages, free_size - npages)
                      ELSE taken)
             /\ ret' = <<"alloc", npages, Addr(at)>>
             /\ alloc_page_count' = alloc_page_count + npages
             /\ free_page_count' = free_page_count - npages
             /\ UNCHANGED base_addr

\* The free run that ends just before page i, and the one that starts at it:
\* <<first page, length>>, or <<>>
PrevFree(i) ==
  IF i = 0 \/ Page(page_list, i - 1).used THEN <<>>
  ELSE LET p == Page(page_list, i - 1).first_pageno
       IN <<p, Page(page_list, p).alloc_pages>>

\* Faulty variant: a vmem_free that merges with the run before it only
NextFreeNever(i) == <<>>

NextFree(i) ==
  IF i = num_pages \/ Page(page_list, i).used THEN <<>>
  ELSE <<i, Page(page_list, i).alloc_pages>>

\* One merge: the neighbour leaves free_tree; ASSERT(0) if it is not there
Merge(m, nb) ==
  IF nb = <<>> THEN m
  ELSE LET r == avltree_remove(m.free, MakeKey(nb[2], nb[1]))
       IN IF r.found = Nil THEN [m EXCEPT !.stuck = TRUE]
          ELSE [m EXCEPT !.free = r.tree, !.len = @ + nb[2],
                         !.at = IF r.found.page < @ THEN r.found.page ELSE @]

vmem_free(ptr) ==
  LET r == avltree_remove(alloc_tree, MakeKey(ptr, 0))
      at == r.found.page
      len == Page(page_list, at).alloc_pages
      start == [free |-> free_tree, at |-> at, len |-> len, stuck |-> FALSE]
      m == Merge(Merge(start, PrevFree(at)), NextFree(at + len))
  IN /\ ~hung
     /\ IF r.found = Nil
        THEN /\ ret' = <<"free", ptr, -1>>
             /\ alloc_tree' = r.tree
             /\ UNCHANGED <<free_tree, page_list, base_addr,
                            alloc_page_count, free_page_count, hung>>
        ELSE IF m.stuck
        THEN /\ hung' = TRUE /\ alloc_tree' = r.tree
             /\ UNCHANGED <<free_tree, page_list, base_addr, alloc_page_count,
                            free_page_count, ret>>
        ELSE /\ Store(set_blocks_free(Mem(m.free, r.tree, page_list), m.at, m.len))
             /\ ret' = <<"free", ptr, 0>>
             /\ alloc_page_count' = alloc_page_count - len
             /\ free_page_count' = free_page_count + len
             /\ UNCHANGED base_addr

\* vmem_get_info reads and changes nothing
vmem_get_info == [total_pages |-> num_pages, alloc_pages |-> alloc_page_count,
                  free_pages |-> free_page_count, page_size |-> PageBytes]

\* The addresses a caller can hold or make up: the pages of the pool and what
\* MAKE_KEY does not tell from them
Ptrs == {Addr(i) + d : i \in 0..num_pages, d \in {-KeyHi, 0, KeyHi}} \cap Nat

Next ==
  \/ \E p \in Pools : vmem_init(p[1], p[2])
  \/ vmem_exit
  \/ \E size \in Sizes : vmem_alloc(size)
  \/ \E ptr \in Ptrs : vmem_free(ptr)

Spec == Init /\ [][Next]_vars

-----------------------------------------------------------------------------
FreeRuns == {[at |-> n.page, len |-> KeyToValue(n.key)] : n \in Nodes(free_tree)}
AllocRuns == {[at |-> n.page, len |-> Page(page_list, n.page).alloc_pages] :
                n \in Nodes(alloc_tree)}

RunPages(b) == b.at..(b.at + b.len - 1)

\* While a pool is open, the runs of the two trees tile its pages, every run
\* carries its tags on its first and last page and its used flag on all, no
\* two free runs touch, and vmem_get_info's counters agree with them: what
\* vmem_free relies on when it merges with its neighbours (mm.c 543-600).
Partition ==
  (page_list # <<>> /\ ~hung) =>
    LET all == FreeRuns \cup AllocRuns
        info == vmem_get_info
    IN /\ UNION {RunPages(b) : b \in all} = 0..(num_pages - 1)
       /\ \A b, c \in all : b # c => RunPages(b) \cap RunPages(c) = {}
       /\ FreeRuns \cap AllocRuns = {}
       /\ \A b \in all : /\ Page(page_list, b.at).alloc_pages = b.len
                         /\ Page(page_list, b.at + b.len - 1).first_pageno = b.at
                         /\ \A i \in RunPages(b) :
                              Page(page_list, i).used = (b \in AllocRuns)
       /\ \A b, c \in FreeRuns : b.at + b.len # c.at
       /\ info.alloc_pages = Cardinality(UNION {RunPages(b) : b \in AllocRuns})
       /\ info.alloc_pages + info.free_pages = info.total_pages

\* No two pages of the pool have one key: it is no larger than 4 GB.
KeysApart == num_pages * PageBytes <= KeyHi

\* A search tree with the heights right and no side more than one deeper
RECURSIVE Sound(_)
Sound(t) ==
  t = Nil \/ /\ Sound(t.left) /\ Sound(t.right)
             /\ t.height = MaxOf(t.left.height, t.right.height) + 1
             /\ get_balance_factor(t) \in -1..1
             /\ \A n \in Nodes(t.left) : n.key <= t.key
             /\ \A n \in Nodes(t.right) : n.key >= t.key

Unequal(t) == \A m, n \in Nodes(t) : m.page # n.page => m.key # n.key

\* Both trees stay search trees, with the heights right and no side more than
\* one deeper, so that do_balance never meets the balancing factor its ASSERT
\* rejects, and no ASSERT of mm.c ever hangs the caller.  No two free runs have
\* one key, and no two allocated runs unless the pool is larger than the 4 GB
\* that MAKE_KEY keeps of their addresses.
TreesSound ==
  /\ ~hung /\ Sound(free_tree) /\ Sound(alloc_tree)
  /\ Unequal(free_tree) /\ (KeysApart => Unequal(alloc_tree))

AllAddrs == {Addr(i) : i \in 0..(num_pages - 1)}

\* The pool as its callers see it
Pool == INSTANCE MemPool WITH
          pool <- AllAddrs,
          held <- {[at |-> Addr(b.at), len |-> b.len] : b \in AllocRuns},
          answer <- ret

PoolNext ==
  \/ \E p \in Pools : Pool!Open(PagesOf(p[2]),
                                 {((p[1] + PageBytes - 1) \div PageBytes + i) * PageBytes :
                                   i \in 0..(PagesOf(p[2]) - 1)})
  \/ Pool!Close
  \/ \E size \in Sizes : LET n == (size + PageBytes - 1) \div PageBytes
                         IN Pool!Grant(n, PageBytes) \/ Pool!Refuse(n, PageBytes)
  \/ \E ptr \in Ptrs : LET alike == {a \in AllAddrs : a % KeyHi = ptr % KeyHi}
                        IN Pool!GiveBack(ptr, alike) \/ Pool!NotHeld(ptr, alike)

\* mm.c implements the range allocator of module MemPool: vmem_alloc hands out
\* only pages nobody holds and returns -1 only when no run of free pages is
\* long enough, and vmem_free gives back one whole run, that starts at ptr or,
\* as MAKE_KEY does not tell them apart, a multiple of 4 GB from it.  In a pool
\* of up to 4 GB that is the run at ptr, for every ptr inside the pool.
PoolRefined == Pool!Init /\ [][PoolNext]_(Pool!vars)
=============================================================================
