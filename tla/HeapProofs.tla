------------------------------ MODULE HeapProofs ------------------------------
(***************************************************************************)
(* Proofs about the kernel heap, for every header size, alignment, page    *)
(* size, amount of memory and set of request sizes.                        *)
(***************************************************************************)
EXTENDS Heap, TLAPS

\* Leaves are for Zenon unless they name SMT, which those with arithmetic do.
USE ZenonT(40)

\* What is true after every call: the properties of Heap, and that the block
\* freed last stands at the head of the list until the next malloc.
IInv ==
  /\ TypeOK
  /\ BlocksDisjoint
  /\ HeldIsOffTheList
  /\ NoBlockIsLost
  /\ \A b \in freed : Len(free_list) > 0 /\ b = free_list[1]
-------------------------------------------------------------------------------
(* Arithmetic and lists *)

\* Division and remainder of C's unsigned integers.
LEMMA DivMod ==
  ASSUME NEW t \in Nat, NEW d \in Nat \ {0}
  PROVE  /\ t \div d \in Nat /\ t % d \in 0 .. d - 1
         /\ t = d * (t \div d) + (t % d)
  BY SMTT(30)

\* A multiple of the alignment is aligned.
LEMMA MultMod ==
  ASSUME NEW q \in Nat, NEW d \in Nat \ {0}
  PROVE  (q * d) % d = 0
  BY SMTT(30)

\* The address malloc carves a block at is aligned and not below heap_top.
LEMMA AlignedUp ==
  ASSUME heap_top \in Nat
  PROVE  Aligned \in Nat /\ Aligned >= heap_top /\ Aligned % Align = 0
  <1>1. Align \in Nat \ {0} BY HeapAssumption
  <1>2. CASE heap_top % Align = 0
    BY <1>2, SMTT(30) DEF Aligned
  <1>3. CASE heap_top % Align # 0
    <2>1. Aligned = (heap_top \div Align + 1) * Align BY <1>3 DEF Aligned
    <2>2. /\ heap_top \div Align \in Nat /\ heap_top % Align \in 0 .. Align - 1
          /\ heap_top = Align * (heap_top \div Align) + (heap_top % Align)
      BY <1>1, DivMod
    <2>3. (heap_top \div Align + 1) * Align = Align * (heap_top \div Align) + Align
      BY <1>1, <2>2, SMTT(30)
    <2>4. ((heap_top \div Align + 1) * Align) % Align = 0
      BY <1>1, <2>2, MultMod, SMTT(30)
    <2> QED BY <1>1, <2>1, <2>2, <2>3, <2>4, SMTT(30)
  <1> QED BY <1>2, <1>3

\* Unlinking an element of the free list leaves a list of the other ones.
LEMMA WithoutIsSeq ==
  ASSUME NEW S, NEW s \in Seq(S), NEW i \in DOMAIN s
  PROVE  /\ Without(s, i) \in Seq(S)
         /\ Len(Without(s, i)) = Len(s) - 1
         /\ DOMAIN Without(s, i) = 1 .. Len(s) - 1
         /\ \A j \in 1 .. Len(s) - 1 :
              Without(s, i)[j] = IF j < i THEN s[j] ELSE s[j + 1]
  <1>1. Len(s) \in Nat /\ DOMAIN s = 1 .. Len(s) /\ Len(s) - 1 \in Nat
    BY SMTT(30)
  <1>2. \A j \in 1 .. Len(s) - 1 : (IF j < i THEN s[j] ELSE s[j + 1]) \in S
    BY <1>1, SMTT(30)
  <1>3. Without(s, i) \in [1 .. Len(s) - 1 -> S]
    BY <1>2 DEF Without
  <1> QED BY <1>1, <1>3, SMTT(30) DEF Without

\* Putting a block in front of the free list.
LEMMA ConsIsSeq ==
  ASSUME NEW S, NEW s \in Seq(S), NEW b \in S
  PROVE  /\ << b >> \o s \in Seq(S)
         /\ Len(<< b >> \o s) = Len(s) + 1
         /\ (<< b >> \o s)[1] = b
         /\ \A j \in 1 .. Len(s) : (<< b >> \o s)[j + 1] = s[j]
  BY SMTT(30)
-------------------------------------------------------------------------------
(* Every call keeps the invariant *)

\* init_memory() leaves an empty heap of one page.
LEMMA InitIInv == Init => IInv
  BY HeapAssumption, SMTT(30) DEF Init, IInv, TypeOK, BlocksDisjoint, HeldIsOffTheList,
     NoBlockIsLost, Blocks, OnList

\* malloc() from the free list: the block moves from the list to its caller.
LEMMA ReuseKeepsIInv ==
  ASSUME IInv, NEW n \in Sizes, MallocReuse(n)
  PROVE  IInv'
  <1> USE DEF IInv
  <1>1. PICK i \in DOMAIN free_list :
          /\ FirstFit(n, i)
          /\ held' = With(held, free_list[i], n)
          /\ freed' = {}
          /\ free_list' = Without(free_list, i)
          /\ UNCHANGED << heap_top, heap_end, frames, size >>
    BY DEF MallocReuse
  <1> DEFINE b == free_list[i]
  <1>2. free_list \in Seq(Blocks) /\ Len(free_list) \in Nat
        /\ DOMAIN free_list = 1 .. Len(free_list) /\ b \in Blocks
    <2>1. free_list \in Seq(Blocks)
      BY DEF TypeOK
    <2> QED BY <2>1, SMTT(30)
  <1>3. /\ free_list' \in Seq(Blocks)
        /\ Len(free_list') = Len(free_list) - 1
        /\ DOMAIN free_list' = 1 .. Len(free_list) - 1
        /\ \A j \in 1 .. Len(free_list) - 1 :
             free_list'[j] = IF j < i THEN free_list[j] ELSE free_list[j + 1]
    BY <1>1, <1>2, WithoutIsSeq
  <1>4. n \in Nat \ {0} /\ n <= size[b]
    BY <1>1, <1>2, HeapAssumption DEF FirstFit, TypeOK
  <1>5. /\ DOMAIN held' = DOMAIN held \cup {b}
        /\ held'[b] = n
        /\ \A c \in DOMAIN held : c # b => held'[c] = held[c]
    BY <1>1 DEF With
  <1>6. Blocks' = Blocks BY <1>1 DEF Blocks
  <1>7. TypeOK'
    <2>1. held' \in [DOMAIN held' -> Nat \ {0}]
      BY <1>1, <1>4 DEF TypeOK, With
    <2> QED BY <1>1, <1>2, <1>3, <1>5, <1>6, <2>1 DEF TypeOK
  <1>8. OnList' = OnList \ {b}
    <2>1. \A j \in DOMAIN free_list' : free_list'[j] \in OnList \ {b}
      BY <1>2, <1>3, SMTT(30) DEF OnList, HeldIsOffTheList
    <2>2. \A j \in DOMAIN free_list : j # i =>
            \E k \in DOMAIN free_list' : free_list[j] = free_list'[k]
      <3> SUFFICES ASSUME NEW j \in DOMAIN free_list, j # i
                   PROVE  \E k \in DOMAIN free_list' : free_list[j] = free_list'[k]
        OBVIOUS
      <3>1. CASE j < i
        BY <1>2, <1>3, <3>1, SMTT(30)
      <3>2. CASE j > i
        <4>1. j - 1 \in DOMAIN free_list' /\ free_list'[j - 1] = free_list[j]
          BY <1>2, <1>3, <3>2, SMTT(30)
        <4> QED BY <4>1
      <3> QED BY <1>2, <3>1, <3>2, SMTT(30)
    <2> QED BY <2>1, <2>2, SMTT(30) DEF OnList
  <1>9. BlocksDisjoint' BY <1>1, <1>6 DEF BlocksDisjoint
  <1>10. HeldIsOffTheList'
    <2>1. \A c \in DOMAIN held' : c \notin OnList' /\ held'[c] <= size'[c]
      BY <1>1, <1>4, <1>5, <1>8 DEF HeldIsOffTheList
    <2>2. \A j, k \in DOMAIN free_list' : free_list'[j] = free_list'[k] => j = k
      <3> DEFINE At(j) == IF j < i THEN j ELSE j + 1
      <3>1. \A j \in DOMAIN free_list' :
              At(j) \in DOMAIN free_list /\ free_list'[j] = free_list[At(j)]
        BY <1>2, <1>3, SMTT(30)
      <3>2. \A j, k \in DOMAIN free_list' : At(j) = At(k) => j = k
        BY <1>2, <1>3, SMTT(30)
      <3> HIDE DEF At
      <3> QED BY <3>1, <3>2, SMTT(30) DEF HeldIsOffTheList
    <2> QED BY <2>1, <2>2 DEF HeldIsOffTheList
  <1>11. NoBlockIsLost'
    BY <1>2, <1>5, <1>6, <1>8 DEF NoBlockIsLost, OnList
  <1> QED BY <1>1, <1>7, <1>9, <1>10, <1>11

\* malloc() from the top of the heap: the new block lies above all the others.
LEMMA CarveKeepsIInv ==
  ASSUME IInv, NEW n \in Sizes, MallocCarve(n)
  PROVE  IInv'
  <1> USE DEF IInv
  <1> DEFINE a == Aligned
  <1>1. PICK k \in 0 .. frames :
          Room(n, k) /\ heap_end' = heap_end + k * Page /\ frames' = frames - k
    BY DEF MallocCarve, Carve
  <1>2. /\ heap_top' = a + (Header + n)
        /\ size' = With(size, a, n)
        /\ held' = With(held, a, n)
        /\ freed' = {}
        /\ free_list' = free_list
    BY DEF MallocCarve, Carve
  <1>3. /\ heap_top \in Nat /\ heap_end \in Nat /\ frames \in Nat
        /\ Header \in Nat \ {0} /\ n \in Nat \ {0} /\ Page \in Nat
    BY HeapAssumption DEF TypeOK
  <1>4. a \in Nat /\ a >= heap_top /\ a % Align = 0
    BY <1>3, AlignedUp
  <1>5. \A c \in Blocks : /\ c \in Nat /\ size[c] \in Nat \ {0}
                          /\ c + Header + size[c] <= heap_top
                          /\ c + Header + size[c] <= heap_end
    BY DEF TypeOK, BlocksDisjoint
  <1>6. a \notin Blocks
    BY <1>3, <1>4, <1>5, SMTT(30)
  <1> HIDE DEF a
  <1>7. /\ Blocks' = Blocks \cup {a}
        /\ size'[a] = n
        /\ \A c \in Blocks : size'[c] = size[c]
        /\ DOMAIN held' = DOMAIN held \cup {a}
        /\ held'[a] = n
        /\ \A c \in DOMAIN held : c # a => held'[c] = held[c]
    BY <1>2, <1>6 DEF With, Blocks
  <1>8. k * Page \in Nat
    BY <1>1, <1>3, SMTT(30)
  <1>9. heap_end' \in Nat /\ heap_end' >= heap_end /\ a + Header + n <= heap_end'
    BY <1>1, <1>3, <1>8, SMTT(30) DEF Room, a
  <1>10. TypeOK'
    <2>1. heap_top' \in Nat /\ frames' \in Nat
      BY <1>1, <1>2, <1>3, <1>4, SMTT(30)
    <2>2. Blocks' \subseteq { x \in Nat : x % Align = 0 }
      BY <1>4, <1>7 DEF TypeOK
    <2>3. size' \in [Blocks' -> Nat \ {0}]
      BY <1>2, <1>3, <1>5, <1>7 DEF With, Blocks
    <2>4. held' \in [DOMAIN held' -> Nat \ {0}]
      BY <1>2, <1>3 DEF With, TypeOK
    <2>5. free_list' \in Seq(Blocks')
      <3>1. free_list \in Seq(Blocks) BY DEF TypeOK
      <3> QED BY <1>2, <1>7, <3>1, SMTT(30)
    <2>6. DOMAIN held' \subseteq Blocks'
      BY <1>7 DEF TypeOK
    <2> QED BY <1>9, <2>1, <2>2, <2>3, <2>4, <2>5, <2>6 DEF TypeOK
  <1>11. BlocksDisjoint'
    <2>1. \A c \in Blocks : c + Header + size[c] <= a /\ c < a
      BY <1>3, <1>4, <1>5, SMTT(30)
    <2>2. \A c, d \in Blocks' : c < d => c + Header + size'[c] <= d
      <3> SUFFICES ASSUME NEW c \in Blocks', NEW d \in Blocks', c < d
                   PROVE  c + Header + size'[c] <= d
        OBVIOUS
      <3>1. CASE c = a
        BY <1>4, <1>5, <1>7, <2>1, <3>1, SMTT(30)
      <3>2. CASE c \in Blocks /\ d = a
        BY <1>7, <2>1, <3>2
      <3>3. CASE c \in Blocks /\ d \in Blocks
        BY <1>7, <3>3 DEF BlocksDisjoint
      <3> QED BY <1>7, <3>1, <3>2, <3>3
    <2>3. \A c \in Blocks' : /\ c + Header + size'[c] <= heap_top'
                             /\ c + Header + size'[c] <= heap_end'
      <3> SUFFICES ASSUME NEW c \in Blocks'
                   PROVE  /\ c + Header + size'[c] <= heap_top'
                          /\ c + Header + size'[c] <= heap_end'
        OBVIOUS
      <3>1. CASE c = a
        BY <1>2, <1>3, <1>4, <1>7, <1>9, <3>1, SMTT(30)
      <3>2. CASE c \in Blocks
        BY <1>2, <1>3, <1>4, <1>5, <1>7, <1>9, <3>2, SMTT(30)
      <3> QED BY <1>7, <3>1, <3>2
    <2> QED BY <2>2, <2>3 DEF BlocksDisjoint
  <1>12. OnList' = OnList /\ OnList \subseteq Blocks
    BY <1>2 DEF OnList, NoBlockIsLost
  <1>13. HeldIsOffTheList'
    <2>1. \A c \in DOMAIN held : c \in Blocks /\ c # a
      BY <1>6 DEF TypeOK
    <2>2. \A c \in DOMAIN held' : c \notin OnList' /\ held'[c] <= size'[c]
      BY <1>3, <1>6, <1>7, <1>12, <2>1, SMTT(30) DEF HeldIsOffTheList
    <2> QED BY <1>2, <2>2 DEF HeldIsOffTheList
  <1>14. NoBlockIsLost'
    BY <1>7, <1>12 DEF NoBlockIsLost
  <1> QED BY <1>2, <1>10, <1>11, <1>13, <1>14

\* malloc() without memory: only the top and the end of the heap move.
LEMMA FailKeepsIInv ==
  ASSUME IInv, NEW n \in Sizes, MallocFail(n)
  PROVE  IInv'
  <1> USE DEF IInv
  <1>1. /\ heap_top' = Aligned /\ heap_end' = heap_end + frames * Page /\ frames' = 0
        /\ size' = size /\ free_list' = free_list /\ held' = held /\ freed' = {}
    BY DEF MallocFail
  <1>2. heap_top \in Nat /\ heap_end \in Nat /\ frames * Page \in Nat
    BY HeapAssumption, SMTT(30) DEF TypeOK
  <1>3. Aligned \in Nat /\ Aligned >= heap_top
    BY <1>2, AlignedUp
  <1>4. Blocks' = Blocks /\ OnList' = OnList
    BY <1>1 DEF Blocks, OnList
  <1>5. TypeOK'
    BY <1>1, <1>2, <1>3, <1>4, SMTT(30) DEF TypeOK
  <1>6. BlocksDisjoint'
    <2>1. \A c \in Blocks : c + Header + size[c] \in Nat
      BY HeapAssumption, SMTT(30) DEF TypeOK
    <2>2. heap_top' \in Nat /\ heap_top' >= heap_top /\ heap_end' \in Nat
          /\ heap_end' >= heap_end
      BY <1>1, <1>2, <1>3, SMTT(30)
    <2> QED BY <1>1, <1>2, <1>4, <2>1, <2>2, SMTT(30) DEF BlocksDisjoint
  <1>7. HeldIsOffTheList' /\ NoBlockIsLost'
    BY <1>1, <1>4 DEF HeldIsOffTheList, NoBlockIsLost
  <1> QED BY <1>1, <1>5, <1>6, <1>7

\* free(): the block moves from its caller to the head of the list.
LEMMA FreeKeepsIInv ==
  ASSUME IInv, NEW b \in DOMAIN held, Free(b)
  PROVE  IInv'
  <1> USE DEF IInv
  <1>1. /\ free_list' = << b >> \o free_list
        /\ held' = [c \in DOMAIN held \ {b} |-> held[c]]
        /\ freed' = {b}
        /\ UNCHANGED << heap_top, heap_end, frames, size >>
    BY DEF Free
  <1>2. free_list \in Seq(Blocks) /\ b \in Blocks /\ Len(free_list) \in Nat
        /\ DOMAIN free_list = 1 .. Len(free_list)
    BY SMTT(30) DEF TypeOK
  <1>3. /\ free_list' \in Seq(Blocks)
        /\ Len(free_list') = Len(free_list) + 1
        /\ DOMAIN free_list' = 1 .. Len(free_list) + 1
        /\ free_list'[1] = b
        /\ \A j \in 1 .. Len(free_list) : free_list'[j + 1] = free_list[j]
    BY <1>1, <1>2, ConsIsSeq, SMTT(30)
  <1>4. Blocks' = Blocks BY <1>1 DEF Blocks
  <1>5. TypeOK'
    BY <1>1, <1>3, <1>4 DEF TypeOK
  <1>6. \A j \in DOMAIN free_list' : j = 1 \/ (j - 1 \in DOMAIN free_list
                                              /\ free_list'[j] = free_list[j - 1])
    <2> SUFFICES ASSUME NEW j \in DOMAIN free_list', j # 1
                 PROVE  j - 1 \in DOMAIN free_list /\ free_list'[j] = free_list[j - 1]
      OBVIOUS
    <2>1. j - 1 \in 1 .. Len(free_list) /\ (j - 1) + 1 = j
      BY <1>2, <1>3, SMTT(30)
    <2> QED BY <1>2, <1>3, <2>1
  <1>7. OnList' = OnList \cup {b}
    <2>1. OnList' \subseteq OnList \cup {b}
      BY <1>3, <1>6, SMTT(30) DEF OnList
    <2>2. b \in OnList'
      BY <1>2, <1>3, SMTT(30) DEF OnList
    <2>3. \A j \in DOMAIN free_list : j + 1 \in DOMAIN free_list'
                                      /\ free_list'[j + 1] = free_list[j]
      BY <1>2, <1>3, SMTT(30)
    <2>4. OnList \subseteq OnList'
      BY <2>3, SMTT(30) DEF OnList
    <2> QED BY <2>1, <2>2, <2>4
  <1>8. BlocksDisjoint' BY <1>1, <1>4 DEF BlocksDisjoint
  <1>9. HeldIsOffTheList'
    <2>1. \A c \in DOMAIN held' : c \notin OnList' /\ held'[c] <= size'[c]
      BY <1>1, <1>7 DEF HeldIsOffTheList
    <2>2. b \notin OnList BY DEF HeldIsOffTheList
    <2>3. \A j, k \in DOMAIN free_list' : free_list'[j] = free_list'[k] => j = k
      BY <1>2, <1>3, <1>6, <2>2, SMTT(30) DEF HeldIsOffTheList, OnList
    <2> QED BY <2>1, <2>3 DEF HeldIsOffTheList
  <1>10. NoBlockIsLost'
    BY <1>1, <1>4, <1>7 DEF NoBlockIsLost
  <1> QED BY <1>1, <1>2, <1>3, <1>5, <1>8, <1>9, <1>10, SMTT(30)

\* Every call to the heap keeps the invariant.
LEMMA NextIInv == IInv /\ [Next]_vars => IInv'
  <1> SUFFICES ASSUME IInv, [Next]_vars PROVE IInv'
    OBVIOUS
  <1>1. ASSUME NEW n \in Sizes, MallocReuse(n) PROVE IInv'
    BY <1>1, ReuseKeepsIInv
  <1>2. ASSUME NEW n \in Sizes, MallocCarve(n) PROVE IInv'
    BY <1>2, CarveKeepsIInv
  <1>3. ASSUME NEW n \in Sizes, MallocFail(n) PROVE IInv'
    BY <1>3, FailKeepsIInv
  <1>4. ASSUME NEW b \in DOMAIN held, Free(b) PROVE IInv'
    BY <1>4, FreeKeepsIInv
  <1>5. CASE UNCHANGED vars
    BY <1>5, SMTT(30) DEF vars, IInv, TypeOK, BlocksDisjoint, HeldIsOffTheList,
       NoBlockIsLost, Blocks, OnList
  <1> QED BY <1>1, <1>2, <1>3, <1>4, <1>5 DEF Next
-------------------------------------------------------------------------------
(* The theorems *)

\* The invariant holds after any sequence of calls.
THEOREM HeapInvariance == Spec => []IInv
  BY InitIInv, NextIInv, PTL DEF Spec

\* Headers are aligned and the list and the callers' blocks are blocks.
THEOREM HeapTypeCorrect == Spec => []TypeOK
  <1>1. IInv => TypeOK BY DEF IInv
  <1> QED BY <1>1, HeapInvariance, PTL

\* No two blocks malloc() ever carved share a byte, and all lie in mapped memory.
THEOREM BlocksNeverOverlap == Spec => []BlocksDisjoint
  <1>1. IInv => BlocksDisjoint BY DEF IInv
  <1> QED BY <1>1, HeapInvariance, PTL

\* malloc() never hands out a block that a caller still has, nor one too small.
THEOREM NeverHandedOutTwice == Spec => []HeldIsOffTheList
  <1>1. IInv => HeldIsOffTheList BY DEF IInv
  <1> QED BY <1>1, HeapInvariance, PTL

\* A block that is freed can be allocated again.
THEOREM FreedIsKept == Spec => []NoBlockIsLost
  <1>1. IInv => NoBlockIsLost BY DEF IInv
  <1> QED BY <1>1, HeapInvariance, PTL

\* The block freed last is reused by the next request it is large enough for: the
\* outcome that the memtest command announces.
THEOREM MemtestNoteHolds == Spec => LastFreedIsReused
  <1> DEFINE Reused == \A b \in freed, c \in DOMAIN held' \ DOMAIN held :
                         held'[c] <= size[b] => c = b
  <1>1. IInv /\ [Next]_vars => [Reused]_vars
    <2> SUFFICES ASSUME IInv, Next, NEW b \in freed,
                        NEW c \in DOMAIN held' \ DOMAIN held, held'[c] <= size[b]
                 PROVE  c = b
      BY DEF vars
    <2>1. Len(free_list) \in Nat /\ Len(free_list) > 0 /\ b = free_list[1]
          /\ DOMAIN free_list = 1 .. Len(free_list) /\ b \in Blocks
          /\ size[b] \in Nat
      BY SMTT(30) DEF IInv, TypeOK
    <2>2. ASSUME NEW n \in Sizes, MallocReuse(n) PROVE c = b
      <3>1. PICK i \in DOMAIN free_list :
              FirstFit(n, i) /\ held' = With(held, free_list[i], n)
        BY <2>2 DEF MallocReuse
      <3>2. c = free_list[i] /\ held'[c] = n
        BY <3>1 DEF With
      <3>3. n \in Nat /\ n <= size[b]
        BY <3>2, HeapAssumption
      <3>4. ~(1 \in 1 .. i - 1)
        BY <2>1, <3>1, <3>3, SMTT(30) DEF FirstFit
      <3>5. i = 1
        BY <2>1, <3>4, SMTT(30)
      <3> QED BY <2>1, <3>2, <3>5
    <2>3. ASSUME NEW n \in Sizes, MallocCarve(n) PROVE c = b
      <3>1. held' = With(held, Aligned, n) /\ NoFit(n)
        BY <2>3 DEF MallocCarve, Carve
      <3>2. held'[c] = n
        BY <3>1 DEF With
      <3>3. n \in Nat /\ n <= size[b]
        BY <3>2, HeapAssumption
      <3>4. size[b] < n
        BY <2>1, <3>1, SMTT(30) DEF NoFit
      <3> QED BY <2>1, <3>3, <3>4, SMTT(30)
    <2>4. ASSUME NEW n \in Sizes, MallocFail(n) PROVE c = b
      BY <2>4 DEF MallocFail
    <2>5. ASSUME NEW d \in DOMAIN held, Free(d) PROVE c = b
      BY <2>5 DEF Free
    <2> QED BY <2>2, <2>3, <2>4, <2>5 DEF Next
  <1>2. Spec => [][Next]_vars /\ []IInv
    BY HeapInvariance, PTL DEF Spec
  <1>3. Spec => [][Reused]_vars
    BY <1>1, <1>2, PTL
  <1> QED BY <1>3 DEF LastFreedIsReused
===============================================================================
