---------------------------- MODULE KeyboardProofs ----------------------------
(***************************************************************************)
(* Proofs about the keyboard buffer, for every size of the ring and every  *)
(* set of keys: the lock-free ring implements a bounded queue.             *)
(***************************************************************************)
EXTENDS Keyboard, TLAPS

\* Leaves are for Zenon unless they name SMT, which those with arithmetic do.
USE ZenonT(40)

K == KBD_BUFFER_SIZE
D(r, w) == IF w >= r THEN w - r ELSE w + K - r
Chars == Char \cup {NoChar}
Rings == [Index -> Chars]
Cell(r, i) == IF r + i - 1 < K THEN r + i - 1 ELSE r + i - 1 - K

\* The reader has found a character and nobody takes it away; what it has loaded is
\* still in its slot; a flush drops no more than the buffer holds.
IInv ==
  /\ TypeOK
  /\ ShiftNeverSticks
  /\ reader \in {"found", "loaded"} => read_idx # write_idx
  /\ reader = "loaded" => local = buffer[read_idx]
  /\ reader = "flushing" => D(target, write_idx) <= D(read_idx, write_idx)
-------------------------------------------------------------------------------
(* Arithmetic of the ring *)

\* The remainder of a sum of two indices.
LEMMA ModSmall ==
  ASSUME NEW n \in Nat \ {0}, NEW x \in 0 .. n - 1
  PROVE  x % n = x /\ (x + n) % n = x
BY SMTT(30)

\* The index after i.
LEMMA SuccIs ==
  ASSUME NEW i \in Index
  PROVE  /\ Succ(i) = IF i = K - 1 THEN 0 ELSE i + 1
         /\ Succ(i) \in Index
<1>1. K \in Nat /\ K >= 2 /\ Index = 0 .. K - 1
  BY SizeAssumption DEF K, Index
<1>2. CASE i = K - 1
  <2>1. (0 + K) % K = 0
    BY <1>1, ModSmall, SMTT(30)
  <2> QED BY <1>1, <1>2, <2>1, SMTT(30) DEF Succ, K
<1>3. CASE i # K - 1
  <2>1. (i + 1) % K = i + 1
    BY <1>1, <1>3, ModSmall, SMTT(30)
  <2> QED BY <1>1, <1>3, <2>1, SMTT(30) DEF Succ, K
<1> QED BY <1>2, <1>3

\* The number of characters between two indices.
LEMMA DistanceIs ==
  ASSUME NEW r \in Index, NEW w \in Index
  PROVE  Distance(r, w) = D(r, w) /\ D(r, w) \in 0 .. K - 1
<1>1. K \in Nat /\ K >= 2 /\ Index = 0 .. K - 1
  BY SizeAssumption DEF K, Index
<1>2. CASE w >= r
  <2>1. ((w - r) + K) % K = w - r /\ (w - r) + K = w + K - r
    BY <1>1, <1>2, ModSmall, SMTT(30)
  <2> QED BY <1>1, <1>2, <2>1, SMTT(30) DEF Distance, D, K
<1>3. CASE ~(w >= r)
  <2> DEFINE x == w + K - r
  <2>1. x \in 0 .. K - 1 /\ K \in Nat \ {0}
    BY <1>1, <1>3, SMTT(30)
  <2>2. x % K = x
    <3> HIDE DEF x
    <3> QED BY <2>1, ModSmall
  <2> QED BY <1>1, <1>3, <2>1, <2>2 DEF Distance, D, K
<1> QED BY <1>2, <1>3

\* The slot of the i-th character from r on.
LEMMA CellIs ==
  ASSUME NEW r \in Index, NEW i \in 1 .. K
  PROVE  (r + i - 1) % KBD_BUFFER_SIZE = Cell(r, i) /\ Cell(r, i) \in Index
<1>1. K \in Nat /\ K >= 2 /\ Index = 0 .. K - 1
  BY SizeAssumption DEF K, Index
<1>2. CASE r + i - 1 < K
  BY <1>1, <1>2, ModSmall, SMTT(30) DEF Cell, K
<1>3. CASE ~(r + i - 1 < K)
  <2>1. r + i - 1 - K \in 0 .. K - 1 /\ (r + i - 1 - K) + K = r + i - 1
    BY <1>1, <1>3, SMTT(30)
  <2>2. ((r + i - 1 - K) + K) % K = r + i - 1 - K
    BY <1>1, <2>1, ModSmall, SMTT(30)
  <2> QED BY <1>1, <1>3, <2>1, <2>2 DEF Cell, K
<1> QED BY <1>2, <1>3

\* Storing one more character: the distance grows by one, the new one is at its
\* end, and no earlier one is in its slot.
LEMMA GrowsByOne ==
  ASSUME NEW r \in Index, NEW w \in Index, D(r, w) < K - 1
  PROVE  /\ D(r, Succ(w)) = D(r, w) + 1
         /\ Cell(r, D(r, w) + 1) = w
         /\ \A i \in 1 .. D(r, w) : Cell(r, i) # w
<1>1. K \in Nat /\ K >= 2 /\ Index = 0 .. K - 1
  BY SizeAssumption DEF K, Index
<1>2. Succ(w) = IF w = K - 1 THEN 0 ELSE w + 1
  BY SuccIs
<1> QED
  BY <1>1, <1>2, SMTT(30) DEF D, Cell

\* Taking one: the distance shrinks by one and every slot moves down.
LEMMA ShrinksByOne ==
  ASSUME NEW r \in Index, NEW w \in Index, r # w
  PROVE  /\ D(r, w) > 0 /\ D(Succ(r), w) = D(r, w) - 1
         /\ Cell(r, 1) = r
         /\ \A i \in 1 .. D(r, w) - 1 : Cell(Succ(r), i) = Cell(r, i + 1)
<1>1. K \in Nat /\ K >= 2 /\ Index = 0 .. K - 1
  BY SizeAssumption DEF K, Index
<1>2. Succ(r) = IF r = K - 1 THEN 0 ELSE r + 1
  BY SuccIs
<1> QED
  BY <1>1, <1>2, SMTT(30) DEF D, Cell

\* A full ring is one whose write index stands just before the read index.
LEMMA FullIs ==
  ASSUME NEW r \in Index, NEW w \in Index, Succ(w) # r
  PROVE  D(r, w) < K - 1
<1>1. K \in Nat /\ K >= 2 /\ Index = 0 .. K - 1
  BY SizeAssumption DEF K, Index
<1>2. Succ(w) = IF w = K - 1 THEN 0 ELSE w + 1
  BY SuccIs
<1> QED
  BY <1>1, <1>2, SMTT(30) DEF D

\* The characters of ring b between two indices, slot by slot.
ContentsOf(b, r, w) == [i \in 1 .. D(r, w) |-> b[Cell(r, i)]]

\* They are a sequence as long as the distance.
LEMMA ContentsOfIs ==
  ASSUME NEW b \in Rings, NEW r \in Index, NEW w \in Index
  PROVE  /\ ContentsOf(b, r, w) \in Seq(Chars)
         /\ Len(ContentsOf(b, r, w)) = D(r, w)
         /\ D(r, w) \in Nat
         /\ \A i \in 1 .. D(r, w) : Cell(r, i) \in Index
<1>1. D(r, w) \in 0 .. K - 1 /\ K \in Nat
  BY DistanceIs, SizeAssumption DEF K
<1>2. \A i \in 1 .. D(r, w) : Cell(r, i) \in Index
  BY <1>1, CellIs, SMTT(30)
<1> DEFINE n == D(r, w)
           f == ContentsOf(b, r, w)
<1>3. f \in [1 .. n -> Chars]
  BY <1>2 DEF ContentsOf, Rings
<1>4. n \in Nat
  BY <1>1, SMTT(30)
<1>5. f \in Seq(Chars) /\ Len(f) = n
  <2> HIDE DEF n, f
  <2> QED BY <1>3, <1>4, SMTT(30)
<1> HIDE DEF n, f
<1> QED
  BY <1>2, <1>4, <1>5 DEF n, f

\* Storing a character appends it.
LEMMA StoreAppends ==
  ASSUME NEW b \in Rings, NEW r \in Index, NEW w \in Index, NEW c \in Chars,
         D(r, w) < K - 1
  PROVE  ContentsOf([b EXCEPT ![w] = c], r, Succ(w)) = Append(ContentsOf(b, r, w), c)
<1> DEFINE n == D(r, w)
           b2 == [b EXCEPT ![w] = c]
<1>1. /\ ContentsOf(b, r, w) \in Seq(Chars) /\ Len(ContentsOf(b, r, w)) = n
      /\ n \in Nat /\ \A i \in 1 .. n : Cell(r, i) \in Index
  BY ContentsOfIs
<1>2. /\ D(r, Succ(w)) = n + 1 /\ Cell(r, n + 1) = w /\ \A i \in 1 .. n : Cell(r, i) # w
  BY GrowsByOne
<1>3. ContentsOf(b2, r, Succ(w)) = [i \in 1 .. n + 1 |-> b2[Cell(r, i)]]
  BY <1>2 DEF ContentsOf
<1>4. b2[Cell(r, n + 1)] = c /\ \A i \in 1 .. n : b2[Cell(r, i)] = b[Cell(r, i)]
  BY <1>1, <1>2 DEF Rings
<1>5. /\ Append(ContentsOf(b, r, w), c) =
           [i \in 1 .. n + 1 |-> IF i = n + 1 THEN c ELSE ContentsOf(b, r, w)[i]]
      /\ \A i \in 1 .. n : ContentsOf(b, r, w)[i] = b[Cell(r, i)]
  BY <1>1, SMTT(30) DEF ContentsOf
<1> HIDE DEF n, b2
<1>6. \A i \in 1 .. n + 1 : b2[Cell(r, i)] = IF i = n + 1 THEN c ELSE ContentsOf(b, r, w)[i]
  BY <1>1, <1>4, <1>5, SMTT(30)
<1> QED
  BY <1>3, <1>5, <1>6 DEF b2

\* Advancing the read index takes the first character.
LEMMA AdvanceTakes ==
  ASSUME NEW b \in Rings, NEW r \in Index, NEW w \in Index, r # w
  PROVE  /\ ContentsOf(b, r, w) # <<>>
         /\ Head(ContentsOf(b, r, w)) = b[r]
         /\ ContentsOf(b, Succ(r), w) = Tail(ContentsOf(b, r, w))
<1> DEFINE n == D(r, w)
           q == ContentsOf(b, r, w)
<1>1. q \in Seq(Chars) /\ Len(q) = n /\ n \in Nat
  BY ContentsOfIs
<1>2. /\ n > 0 /\ D(Succ(r), w) = n - 1 /\ Cell(r, 1) = r
      /\ \A i \in 1 .. n - 1 : Cell(Succ(r), i) = Cell(r, i + 1)
  BY ShrinksByOne
<1>3. \A i \in 1 .. n : q[i] = b[Cell(r, i)]
  BY DEF ContentsOf
<1>4. ContentsOf(b, Succ(r), w) = [i \in 1 .. n - 1 |-> b[Cell(Succ(r), i)]]
  BY <1>2 DEF ContentsOf
<1> HIDE DEF n, q
<1>5. q # <<>> /\ Head(q) = q[1] /\ Tail(q) = [i \in 1 .. n - 1 |-> q[i + 1]]
  <2>1. Len(q) > 0
    BY <1>1, <1>2
  <2>2. Head(q) = q[1]
    BY <1>1, <2>1, SMTT(30)
  <2>3. q # <<>>
    BY <1>1, <2>1, SMTT(30)
  <2> DEFINE t == Tail(q)
  <2>4. /\ t \in Seq(Chars) /\ Len(t) = n - 1
        /\ \A i \in 1 .. n - 1 : t[i] = q[i + 1]
    BY <1>1, <2>1, SMTT(30)
  <2>5. n - 1 \in Nat
    BY <1>1, <1>2, SMTT(30)
  <2> HIDE DEF t
  <2>6. t \in [1 .. n - 1 -> Chars]
    BY <2>4, <2>5, SMTT(30)
  <2>7. t = [i \in 1 .. n - 1 |-> q[i + 1]]
    BY <2>4, <2>6
  <2> QED BY <2>2, <2>3, <2>7 DEF t
<1>6. \A i \in 1 .. n - 1 : b[Cell(Succ(r), i)] = q[i + 1]
  BY <1>1, <1>2, <1>3, SMTT(30)
<1> QED
  BY <1>1, <1>2, <1>3, <1>4, <1>5, <1>6, SMTT(30) DEF q

\* What the queue of BoundedFifo is, before and after a step.
LEMMA QueueIs ==
  ASSUME NEW r \in Index, NEW w \in Index
  PROVE  Contents(r, w) = ContentsOf(buffer, r, w)
<1>1. D(r, w) \in 0 .. K - 1 /\ Distance(r, w) = D(r, w) /\ K \in Nat
  BY DistanceIs, SizeAssumption DEF K
<1>2. \A i \in 1 .. D(r, w) : (r + i - 1) % KBD_BUFFER_SIZE = Cell(r, i)
  BY <1>1, CellIs, SMTT(30)
<1> QED
  BY <1>1, <1>2 DEF Contents, ContentsOf
-------------------------------------------------------------------------------
(* Every step keeps the invariant *)

\* keyboard_init() leaves an empty ring.
LEMMA InitIInv == Init => IInv
<1> SUFFICES ASSUME Init PROVE IInv
  OBVIOUS
<1>1. 0 \in Index
  BY SizeAssumption, SMTT(30) DEF Index
<1>2. TypeOK
  BY <1>1 DEF Init, TypeOK
<1> QED
  BY <1>2 DEF Init, IInv, ShiftNeverSticks

\* The interrupt handler: it stores a character only where no reader looks.
LEMMA InterruptKeepsIInv == ASSUME IInv, Interrupt PROVE IInv'
<1>0. /\ TypeOK /\ read_idx \in Index /\ write_idx \in Index /\ target \in Index
      /\ buffer \in [Index -> Char \cup {NoChar}] /\ K \in Nat
  BY SizeAssumption DEF IInv, TypeOK, K
<1>1. ASSUME NEW k \in Key, KeyPress(k) PROVE IInv'
  <2>1. UNCHANGED <<shift_pressed, held, read_idx, reader, local, target, result>>
    BY <1>1 DEF KeyPress, readerVars
  <2>2. CASE Succ(write_idx) = read_idx
    <3>1. UNCHANGED <<buffer, write_idx>>
      BY <1>1, <2>2 DEF KeyPress
    <3> QED
      BY <2>1, <3>1 DEF IInv, TypeOK, ShiftNeverSticks, D
  <2>3. CASE Succ(write_idx) # read_idx
    <3>1. /\ buffer' = [buffer EXCEPT ![write_idx] = <<k, shift_pressed>>]
          /\ write_idx' = Succ(write_idx)
      BY <1>1, <2>3 DEF KeyPress
    <3>2. <<k, shift_pressed>> \in Char
      BY DEF Char, IInv, TypeOK
    <3>3. Succ(write_idx) \in Index
      BY <1>0, SuccIs
    <3>4. TypeOK'
      BY <1>0, <2>1, <3>1, <3>2, <3>3 DEF TypeOK
    <3>5. reader' \in {"found", "loaded"} => read_idx' # write_idx'
      BY <2>1, <2>3, <3>1
    <3>6. reader' = "loaded" => local' = buffer'[read_idx']
      BY <1>0, <2>1, <3>1 DEF IInv
    <3>7. ASSUME reader = "flushing" PROVE D(target, write_idx)' <= D(read_idx, write_idx)'
      <4>1. D(read_idx, write_idx) < K - 1 /\ D(target, write_idx) <= D(read_idx, write_idx)
        BY <1>0, <2>3, <3>7, FullIs DEF IInv
      <4>2. D(read_idx, write_idx) \in Nat /\ D(target, write_idx) \in Nat
        BY <1>0, DistanceIs, SMTT(30)
      <4>3. D(read_idx, Succ(write_idx)) = D(read_idx, write_idx) + 1
        BY <1>0, <4>1, GrowsByOne
      <4>4. D(target, Succ(write_idx)) = D(target, write_idx) + 1
        <5>1. D(target, write_idx) < K - 1
          BY <1>0, <4>1, <4>2, SMTT(30)
        <5> QED BY <1>0, <5>1, GrowsByOne
      <4>5. D(target, Succ(write_idx)) <= D(read_idx, Succ(write_idx))
        BY <4>1, <4>2, <4>3, <4>4, SMTT(30)
      <4> QED
        BY <2>1, <3>1, <4>5 DEF D
    <3> QED
      BY <2>1, <3>4, <3>5, <3>6, <3>7 DEF IInv, ShiftNeverSticks
  <2> QED BY <2>2, <2>3
<1>2. ASSUME NEW s \in ShiftKey, ShiftPress(s) \/ ShiftRelease(s) PROVE IInv'
  BY <1>2 DEF ShiftPress, ShiftRelease, readerVars, IInv, TypeOK, ShiftNeverSticks, D
<1> QED
  BY <1>1, <1>2 DEF Interrupt

\* The reader: nobody else moves the read index.
LEMMA ReaderKeepsIInv == ASSUME IInv, Reader PROVE IInv'
<1>0. /\ TypeOK /\ read_idx \in Index /\ write_idx \in Index /\ target \in Index
      /\ buffer \in [Index -> Char \cup {NoChar}] /\ K \in Nat /\ 0 \in Index
  BY SizeAssumption, SMTT(30) DEF IInv, TypeOK, K, Index
<1>1. CASE FindChar
  BY <1>1 DEF FindChar, IInv, TypeOK, ShiftNeverSticks
<1>2. CASE LoadChar
  BY <1>0, <1>2 DEF LoadChar, IInv, TypeOK, ShiftNeverSticks
<1>3. CASE Advance
  <2>1. Succ(read_idx) \in Index
    BY <1>0, SuccIs
  <2>2. TypeOK'
    BY <1>3, <2>1 DEF Advance, IInv, TypeOK
  <2> QED
    BY <1>3, <2>2 DEF Advance, IInv, ShiftNeverSticks
<1>4. CASE FlushLoad
  <2>1. TypeOK'
    BY <1>4 DEF FlushLoad, IInv, TypeOK
  <2>2. D(write_idx, write_idx) <= D(read_idx, write_idx)
    <3>1. D(write_idx, write_idx) = 0
      BY <1>0, SMTT(30) DEF D, Index, K
    <3> QED BY <1>0, <3>1, DistanceIs, SMTT(30)
  <2> QED
    BY <1>4, <2>1, <2>2 DEF FlushLoad, IInv, ShiftNeverSticks, D
<1>5. CASE FlushStore
  <2>1. TypeOK'
    BY <1>0, <1>5 DEF FlushStore, IInv, TypeOK
  <2> QED
    BY <1>5, <2>1 DEF FlushStore, IInv, ShiftNeverSticks
<1> QED
  BY <1>1, <1>2, <1>3, <1>4, <1>5 DEF Reader

\* The invariant holds throughout.
LEMMA Invariance == Spec => []IInv
<1>1. IInv /\ [Next]_vars => IInv'
  <2> SUFFICES ASSUME IInv, [Next]_vars PROVE IInv'
    OBVIOUS
  <2>1. CASE UNCHANGED vars
    BY <2>1 DEF vars, IInv, TypeOK, ShiftNeverSticks, D
  <2> QED
    BY <2>1, InterruptKeepsIInv, ReaderKeepsIInv DEF Next
<1> QED
  BY <1>1, InitIInv, PTL DEF Spec

\* Handler and reader never move an index off the ring, for every size of it.
THEOREM KeyboardTypes == Spec => []TypeOK
<1>1. IInv => TypeOK
  BY DEF IInv
<1> QED
  BY <1>1, Invariance, PTL

\* The shift flag is down whenever no shift key is, in whatever order the keys are
\* pressed and released.
THEOREM ShiftReleased == Spec => []ShiftNeverSticks
<1>1. IInv => ShiftNeverSticks
  BY DEF IInv
<1> QED
  BY <1>1, Invariance, PTL
-------------------------------------------------------------------------------
(* The ring implements the queue *)

\* Every step of the handler and of the reader is a step of the queue or none.
LEMMA StepRefines ==
  ASSUME IInv, IInv', [Next]_vars
  PROVE  [Fifo!Next]_(Fifo!fifoVars)
<1> DEFINE q == Contents(First, write_idx)
<1>0. /\ read_idx \in Index /\ write_idx \in Index /\ target \in Index
      /\ buffer \in Rings /\ K \in Nat /\ First \in Index
      /\ read_idx' \in Index /\ write_idx' \in Index /\ target' \in Index
      /\ First' \in Index
  BY SizeAssumption DEF IInv, TypeOK, K, First, Rings, Chars
<1>1. q = ContentsOf(buffer, First, write_idx)
  BY <1>0, QueueIs
<1>2. q' = ContentsOf(buffer', First', write_idx')
  <2>1. /\ D(First', write_idx') \in 0 .. K - 1
        /\ Distance(First', write_idx') = D(First', write_idx')
    BY <1>0, DistanceIs
  <2>2. \A i \in 1 .. D(First', write_idx') :
           (First' + i - 1) % KBD_BUFFER_SIZE = Cell(First', i)
    BY <1>0, <2>1, CellIs, SMTT(30)
  <2>3. q' = [i \in 1 .. Distance(First', write_idx') |->
                buffer'[(First' + i - 1) % KBD_BUFFER_SIZE]]
    BY DEF Contents, Distance
  <2> QED
    BY <2>1, <2>2, <2>3 DEF ContentsOf
<1> HIDE DEF q
<1>3. ASSUME buffer' = buffer, First' = First, write_idx' = write_idx, result' = result
      PROVE  UNCHANGED Fifo!fifoVars
  BY <1>1, <1>2, <1>3 DEF Fifo!fifoVars, q
<1>4. ASSUME NEW k \in Key, KeyPress(k) PROVE [Fifo!Next]_(Fifo!fifoVars)
  <2>1. UNCHANGED <<read_idx, reader, target, result>> /\ First' = First
    BY <1>4 DEF KeyPress, readerVars, First
  <2>2. CASE Succ(write_idx) = read_idx
    BY <1>3, <1>4, <2>1, <2>2 DEF KeyPress
  <2>3. CASE Succ(write_idx) # read_idx
    <3> DEFINE c == <<k, shift_pressed>>
    <3>1. /\ buffer' = [buffer EXCEPT ![write_idx] = c]
          /\ write_idx' = Succ(write_idx)
      BY <1>4, <2>3 DEF KeyPress
    <3>2. c \in Char /\ c \in Chars
      BY DEF Char, IInv, TypeOK, Chars
    <3>3. D(First, write_idx) < K - 1
      <4>1. D(read_idx, write_idx) < K - 1
        BY <1>0, <2>3, FullIs
      <4>2. D(read_idx, write_idx) \in Nat /\ D(target, write_idx) \in Nat
        BY <1>0, DistanceIs, SMTT(30)
      <4> QED
        BY <1>0, <4>1, <4>2, SMTT(30) DEF First, IInv
    <3>4. q' = Append(q, c) /\ Len(q) < KBD_BUFFER_SIZE - 1
      <4>1. Len(q) = D(First, write_idx)
        BY <1>0, <1>1, ContentsOfIs
      <4>2. q' = Append(q, c)
        <5> HIDE DEF c
        <5>1. ContentsOf([buffer EXCEPT ![write_idx] = c], First, Succ(write_idx))
                = Append(ContentsOf(buffer, First, write_idx), c)
          BY <1>0, <3>2, <3>3, StoreAppends
        <5> QED BY <1>1, <1>2, <2>1, <3>1, <5>1
      <4> QED BY <3>3, <4>1, <4>2 DEF K
    <3>5. Fifo!Put(c)
      BY <2>1, <3>4 DEF Fifo!Put, q
    <3> QED
      BY <3>2, <3>5 DEF Fifo!Next
  <2> QED BY <2>2, <2>3
<1>5. ASSUME NEW s \in ShiftKey, ShiftPress(s) \/ ShiftRelease(s)
      PROVE  UNCHANGED Fifo!fifoVars
  BY <1>3, <1>5 DEF ShiftPress, ShiftRelease, readerVars, First
<1>6. CASE FindChar \/ LoadChar \/ FlushStore \/ UNCHANGED vars
  BY <1>3, <1>6 DEF FindChar, LoadChar, FlushStore, vars, First
<1>7. CASE Advance
  <2>1. /\ read_idx # write_idx /\ local = buffer[read_idx] /\ First = read_idx
        /\ First' = Succ(read_idx) /\ result' = local
        /\ buffer' = buffer /\ write_idx' = write_idx
    BY <1>7 DEF Advance, IInv, First
  <2>2. q # <<>> /\ Head(q) = buffer[read_idx] /\ q' = Tail(q)
    BY <1>0, <1>1, <1>2, <2>1, AdvanceTakes, SMTT(30)
  <2>3. Fifo!Take
    BY <2>1, <2>2 DEF Fifo!Take, q
  <2> QED
    BY <2>3 DEF Fifo!Next
<1>8. CASE FlushLoad
  <2>1. First' = write_idx /\ write_idx' = write_idx /\ result' = result
    BY <1>8 DEF FlushLoad, First
  <2>2. D(write_idx, write_idx) = 0
    BY <1>0, SMTT(30) DEF D, Index, K
  <2>3. q' = <<>>
    BY <1>2, <2>1, <2>2, SMTT(30) DEF ContentsOf
  <2>4. Fifo!Clear
    BY <2>1, <2>3 DEF Fifo!Clear, q
  <2> QED
    BY <2>4 DEF Fifo!Next
<1> QED
  BY <1>4, <1>5, <1>6, <1>7, <1>8 DEF Next, Interrupt, Reader

\* The ring that the handler and the reader share without a lock is a bounded
\* queue, for every size of at least two slots.
THEOREM RingIsFifo == Spec => ImplementsFifo
<1>1. Init => Fifo!Init
  <2> SUFFICES ASSUME Init PROVE Fifo!Init
    OBVIOUS
  <2>1. 0 \in Index /\ First = 0 /\ write_idx = 0 /\ result = NoChar
    BY SizeAssumption, SMTT(30) DEF Init, First, Index
  <2>2. Contents(First, write_idx) = ContentsOf(buffer, 0, 0)
    BY <2>1, QueueIs
  <2>3. D(0, 0) = 0
    BY SMTT(30) DEF D
  <2> QED
    BY <2>1, <2>2, <2>3, SMTT(30) DEF Fifo!Init, ContentsOf
<1>2. IInv /\ IInv' /\ [Next]_vars => [Fifo!Next]_(Fifo!fifoVars)
  BY StepRefines
<1> QED
  BY <1>1, <1>2, Invariance, PTL DEF Spec, ImplementsFifo, Fifo!Spec
===============================================================================
