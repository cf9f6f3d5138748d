-------------------------------- MODULE Heap --------------------------------
(***************************************************************************)
(* The kernel heap (kernel/mm/memory.c).  Blocks are carved from the top   *)
(* of the heap and never split or joined; free() puts a block at the front *)
(* of a list and malloc() takes the first one on it that is large enough.  *)
(* The heap grows a page at a time, at its end, while the physical memory  *)
(* manager has frames.                                                     *)
(*                                                                         *)
(* Addresses are offsets from the start of the heap, which is page-aligned.*)
(* A block is named by the address of its header.  Only the kernel calls   *)
(* malloc, from one task, so the two calls are atomic.  `held' is not a    *)
(* variable of the program: it records, for each block a caller has, the   *)
(* size that was asked for; `freed' the block freed since the last malloc. *)
(***************************************************************************)
EXTENDS Naturals, Sequences, FiniteSets

CONSTANTS
  Header,      \* sizeof(block_header_t)
  Align,       \* alignment of a header, 4
  Page,        \* PMM_FRAME_SIZE
  Frames,      \* frames the heap can still get
  Sizes,       \* sizes that are asked for
  MaxBlocks    \* bound: blocks carved in a run

ASSUME HeapAssumption ==
  /\ Header \in Nat \ {0} /\ Align \in Nat \ {0} /\ Page \in Nat \ {0}
  /\ Frames \in Nat /\ MaxBlocks \in Nat
  /\ Sizes \subseteq Nat \ {0}

VARIABLES
  heap_top,    \* the next address to carve a block from
  heap_end,    \* the end of the mapped heap
  frames,      \* frames left in the physical memory manager
  size,        \* the size in the header of each block carved so far
  free_list,   \* the blocks on the free list, from its head
  held,        \* the blocks callers have, with the size asked for
  freed        \* the block of a free() that no malloc() has followed yet

vars == << heap_top, heap_end, frames, size, free_list, held, freed >>

Blocks == DOMAIN size
OnList == { free_list[i] : i \in DOMAIN free_list }

\* heap_top rounded up to the alignment.
Aligned == IF heap_top % Align = 0 THEN heap_top
           ELSE (heap_top \div Align + 1) * Align

\* The mapped heap, grown by k pages, has room for a block of n bytes.
Room(n, k) == Aligned + Header + n <= heap_end + k * Page

\* The list without its i-th element.
Without(s, i) == [j \in 1 .. Len(s) - 1 |-> IF j < i THEN s[j] ELSE s[j + 1]]

\* f with its value at a set to v, whether or not a was in its domain.
With(f, a, v) == [x \in DOMAIN f \cup {a} |-> IF x = a THEN v ELSE f[x]]

\* The i-th block of the list is the first that holds n bytes.
FirstFit(n, i) ==
  /\ i \in DOMAIN free_list
  /\ size[free_list[i]] >= n
  /\ \A j \in 1 .. i - 1 : size[free_list[j]] < n
NoFit(n) == \A i \in DOMAIN free_list : size[free_list[i]] < n

\* Mutant: the block is not unlinked.
MallocReuse_StaysOn(n) ==
  \E i \in DOMAIN free_list :
    /\ FirstFit(n, i)
    /\ held' = With(held, free_list[i], n)
    /\ freed' = {}
    /\ UNCHANGED << heap_top, heap_end, frames, size, free_list >>

\* malloc: the first block that fits is unlinked and returned whole.
MallocReuse(n) ==
  \E i \in DOMAIN free_list :
    /\ FirstFit(n, i)
    /\ held' = With(held, free_list[i], n)
    /\ freed' = {}
    /\ free_list' = Without(free_list, i)
    /\ UNCHANGED << heap_top, heap_end, frames, size >>

\* A block of n bytes is carved at the top, and heap_top moved by `total'.
Carve(n, total) ==
  /\ Cardinality(Blocks) < MaxBlocks
  /\ NoFit(n)
  /\ \E k \in 0 .. frames :
       /\ Room(n, k)
       /\ \A j \in 0 .. k - 1 : ~Room(n, j)
       /\ heap_end' = heap_end + k * Page
       /\ frames' = frames - k
  /\ heap_top' = Aligned + total
  /\ size' = With(size, Aligned, n)
  /\ held' = With(held, Aligned, n)
  /\ freed' = {}
  /\ UNCHANGED free_list

\* Mutant: the header is not counted.
MallocCarve_NoHeader(n) == Carve(n, n)

\* malloc: no block fits; one is carved from the top, after as many pages are
\* mapped as it takes.
MallocCarve(n) == Carve(n, Header + n)

\* malloc: physical memory runs out.  The alignment and the pages stay.
MallocFail(n) ==
  /\ NoFit(n)
  /\ \A k \in 0 .. frames : ~Room(n, k)
  /\ heap_top' = Aligned
  /\ heap_end' = heap_end + frames * Page
  /\ frames' = 0
  /\ freed' = {}
  /\ UNCHANGED << size, free_list, held >>

\* Mutant: the rest of the list is not linked behind the block.
Free_Drop(b) ==
  /\ b \in DOMAIN held
  /\ free_list' = << b >>
  /\ held' = [c \in DOMAIN held \ {b} |-> held[c]]
  /\ freed' = {b}
  /\ UNCHANGED << heap_top, heap_end, frames, size >>

\* Mutant: the block goes to the tail of the list.
Free_Tail(b) ==
  /\ b \in DOMAIN held
  /\ free_list' = Append(free_list, b)
  /\ held' = [c \in DOMAIN held \ {b} |-> held[c]]
  /\ freed' = {b}
  /\ UNCHANGED << heap_top, heap_end, frames, size >>

\* free: the block goes to the front of the list.
Free(b) ==
  /\ b \in DOMAIN held
  /\ free_list' = << b >> \o free_list
  /\ held' = [c \in DOMAIN held \ {b} |-> held[c]]
  /\ freed' = {b}
  /\ UNCHANGED << heap_top, heap_end, frames, size >>

\* init_memory(): one page is mapped.
Init ==
  /\ heap_top = 0
  /\ heap_end = Page
  /\ frames = Frames
  /\ size = [a \in {} |-> 0]
  /\ free_list = << >>
  /\ held = [a \in {} |-> 0]
  /\ freed = {}

Next ==
  \/ \E n \in Sizes : MallocReuse(n) \/ MallocCarve(n) \/ MallocFail(n)
  \/ \E b \in DOMAIN held : Free(b)

Spec == Init /\ [][Next]_vars
-------------------------------------------------------------------------------
(* Properties *)

\* Every header is aligned: the sizes asked for may be odd, and the block after
\* an odd one is pushed up.
TypeOK ==
  /\ heap_top \in Nat /\ heap_end \in Nat /\ frames \in Nat
  /\ Blocks \subseteq { a \in Nat : a % Align = 0 }
  /\ size \in [Blocks -> Nat \ {0}]
  /\ free_list \in Seq(Blocks)
  /\ DOMAIN held \subseteq Blocks
  /\ held \in [DOMAIN held -> Nat \ {0}]

\* Two blocks never share a byte, header included, and every block lies below
\* heap_top: growing, reusing and freeing in any order keeps the blocks apart.
BlocksDisjoint ==
  /\ \A a, b \in Blocks : a < b => a + Header + size[a] <= b
  /\ \A a \in Blocks : a + Header + size[a] <= heap_top /\ a + Header + size[a] <= heap_end

\* A block a caller has is not on the free list and is as large as was asked,
\* and the list holds a block once: malloc never hands out one block twice.
HeldIsOffTheList ==
  /\ \A b \in DOMAIN held : b \notin OnList /\ held[b] <= size[b]
  /\ \A i, j \in DOMAIN free_list : free_list[i] = free_list[j] => i = j

\* No block is forgotten: what no caller has is on the list.
NoBlockIsLost == Blocks = OnList \cup DOMAIN held

\* What the memtest command prints, "C should have the same address as A": the
\* block freed last is the one given to the next request that fits in it,
\* whatever the heap has been through before.
LastFreedIsReused ==
  [][ \A b \in freed, c \in DOMAIN held' \ DOMAIN held :
        held'[c] <= size[b] => c = b ]_vars
=============================================================================
