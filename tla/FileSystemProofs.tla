--------------------------- MODULE FileSystemProofs ---------------------------
(***************************************************************************)
(* `ls` and `cat` are right for any number and size of clusters, any       *)
(* length of names, any size of the directory and of the files; and not    *)
(* only on the volumes of FileSystem's Init, but for any table, any        *)
(* directory and any typed name together.                                  *)
(***************************************************************************)
EXTENDS FileSystem, WellFoundedInduction, TLAPS

\* Leaves are for Zenon unless they name SMT, which those with arithmetic do.
USE ZenonT(40)
-------------------------------------------------------------------------------
(* Numbers *)

\* A non-empty set of naturals has a least element.
LEMMA LeastExists ==
  ASSUME NEW S \in SUBSET Nat, S # {}
  PROVE  \E x \in S : \A y \in S : x <= y
<1> DEFINE Less == {ss \in Nat \X Nat : ss[1] < ss[2]}
<1>1. IsWellFoundedOn(Less, Nat)
  BY NatLessThanWellFounded DEF OpToRel
<1>2. ASSUME NEW x \in Nat, NEW y \in Nat PROVE <<y, x>> \in Less <=> y < x
  BY SMTT(30)
<1> HIDE DEF Less
<1>3. PICK x \in S : \A y \in S : ~(<<y, x>> \in Less)
  BY <1>1, WFMin
<1>4. \A y \in S : ~(y < x)
  BY <1>2, <1>3
<1> QED
  BY <1>4, SMTT(30)

\* Values of 12 bits, as the table's entries are, and bytes.
Twelve == 0 .. 4095
Byte == 0 .. 255

\* The same without intervals.
LEMMA TwelveBits == ASSUME NEW x \in Twelve PROVE x \in Nat /\ x < 4096
BY SMTT(30) DEF Twelve

\* And back.
LEMMA IsTwelve == ASSUME NEW x \in Nat, x < 4096 PROVE x \in Twelve
BY SMTT(30) DEF Twelve

\* They are naturals.
LEMMA TwelveIsNat == ASSUME NEW x \in Twelve PROVE x \in Nat
BY TwelveBits, SMTT(30)

\* The same for bytes.
LEMMA ByteBits == ASSUME NEW x \in Byte PROVE x \in Nat /\ x < 256
BY SMTT(30) DEF Byte

\* And back.
LEMMA IsByte == ASSUME NEW x \in Nat, x < 256 PROVE x \in Byte
BY SMTT(30) DEF Byte

\* What the constants are.
LEMMA FatNumbers ==
  /\ Clusters \in Nat \ {0} /\ ClusterBytes \in Nat \ {0}
  /\ FatBytes \in Nat /\ MaxSize \in Nat
BY FatAssumption, SMTT(30)

\* The numbers of clusters are below the end marks.
LEMMA FatBelow == Clusters + 1 < 4088
BY FatAssumption, SMTT(30)

\* What is returned for a cluster that the table does not reach to.
EndMark == 4095

\* The bytes of the table, from the entries in them, and two bytes read as a word.
First(lo) == lo % 256
Shared(lo, hi) == lo \div 256 + 16 * (hi % 16)
Third(hi) == hi \div 16
Low(a, b) == (256 * a + b) % 4096
High(a, b) == (256 * a + b) \div 16

\* Two entries can be read back from their three bytes.
LEMMA HalvesJoin ==
  ASSUME NEW lo \in Twelve, NEW hi \in Twelve
  PROVE  /\ First(lo) \in Byte /\ Shared(lo, hi) \in Byte /\ Third(hi) \in Byte
         /\ Low(Shared(lo, hi), First(lo)) = lo /\ High(Third(hi), Shared(lo, hi)) = hi
<1> DEFINE q == lo \div 256
           r == lo % 256
           h == hi \div 16
           t == hi % 16
<1>0. lo \in Nat /\ lo < 4096 /\ hi \in Nat /\ hi < 4096
  BY TwelveBits, SMTT(30)
<1>1. q \in Nat /\ q < 16 /\ r \in Nat /\ r < 256 /\ lo = 256 * q + r
  BY <1>0, SMTT(30)
<1>2. h \in Nat /\ h < 256 /\ t \in Nat /\ t < 16 /\ hi = 16 * h + t
  BY <1>0, SMTT(30)
<1>3. /\ First(lo) = r /\ Third(hi) = h /\ Shared(lo, hi) = q + 16 * t
  BY DEF First, Third, Shared
<1> HIDE DEF q, r, h, t
<1>4. q + 16 * t \in Byte /\ r \in Byte /\ h \in Byte
  BY <1>1, <1>2, IsByte, SMTT(30)
<1>5. Low(q + 16 * t, r) = lo
  <2>1. 256 * (q + 16 * t) + r = 4096 * t + lo
    BY <1>1, <1>2, SMTT(30)
  <2>2. (4096 * t + lo) % 4096 = lo
    BY <1>0, <1>2, SMTT(30)
  <2> QED
    BY <2>1, <2>2, SMTT(30) DEF Low
<1>6. High(h, q + 16 * t) = hi
  <2>1. (256 * h + (q + 16 * t)) \div 16 = 16 * h + t
    BY <1>1, <1>2, SMTT(30)
  <2> QED
    BY <1>2, <2>1, SMTT(30) DEF High
<1> QED
  BY <1>3, <1>4, <1>5, <1>6

\* Two bytes hold an entry of 12 bits, in either half.
LEMMA TwoBytes ==
  ASSUME NEW a \in Byte, NEW b \in Byte
  PROVE  Low(a, b) \in Twelve /\ High(a, b) \in Twelve
<1> DEFINE w == 256 * a + b
           u == w % 4096
           v == w \div 16
<1>0. a \in Nat /\ a < 256 /\ b \in Nat /\ b < 256
  BY ByteBits, SMTT(30)
<1>1. w \in Nat /\ w < 16 * 4096
  BY <1>0, SMTT(30)
<1>2. Low(a, b) = u /\ High(a, b) = v
  BY SMTT(30) DEF Low, High
<1> HIDE DEF w
<1>3. u \in Nat /\ u < 4096
  BY <1>1, SMTT(30)
<1>4. v \in Nat /\ v < 4096
  BY <1>1, SMTT(30)
<1> HIDE DEF u, v
<1> QED
  BY <1>2, <1>3, <1>4, IsTwelve, SMTT(30)

\* Where the entry of a cluster starts.
LEMMA Offsets ==
  ASSUME NEW c \in Nat
  PROVE  /\ (c * 3) \div 2 \in Nat
         /\ c % 2 = 0 \/ c % 2 = 1
         /\ \A k \in Nat : c = 2 * k =>
              /\ c % 2 = 0 /\ (c * 3) \div 2 = 3 * k
              /\ (3 * k) % 3 = 0 /\ (3 * k) \div 3 = k
              /\ (3 * k + 1) % 3 = 1 /\ (3 * k + 1) \div 3 = k
         /\ \A k \in Nat : c = 2 * k + 1 =>
              /\ c % 2 = 1 /\ (c * 3) \div 2 = 3 * k + 1
              /\ (3 * k + 1) % 3 = 1 /\ (3 * k + 1) \div 3 = k
              /\ (3 * k + 2) % 3 = 2 /\ (3 * k + 2) \div 3 = k
BY SMTT(30)

\* Every number is even or odd.
LEMMA Halves ==
  ASSUME NEW c \in Nat
  PROVE  \E k \in Nat : c = 2 * k \/ c = 2 * k + 1
<1>1. c \div 2 \in Nat /\ (c = 2 * (c \div 2) \/ c = 2 * (c \div 2) + 1)
  BY SMTT(30)
<1> QED
  BY <1>1

\* The j-th byte of the k-th cluster.
LEMMA ByteOfCluster ==
  ASSUME NEW S \in Nat \ {0}, NEW k \in Nat, NEW j \in 1 .. S
  PROVE  (k * S + j - 1) \div S = k /\ (k * S + j - 1) % S = j - 1
BY SMTT(30)
-------------------------------------------------------------------------------
(* The file allocation table *)

\* The table has 12-bit entries.
TableOK == table \in [DataClusters -> Twelve]

\* The table reaches to the entry of the last cluster.
TableIsWhole == ((Clusters + 1) * 3) \div 2 + 1 < FatBytes

\* The two entries that share three bytes, 0 where the volume has no such cluster.
LoOf(k) == IF 2 * k \in Numbers THEN Entry(2 * k) ELSE 0
HiOf(k) == IF 2 * k + 1 \in Numbers THEN Entry(2 * k + 1) ELSE 0

\* An entry has 12 bits, the two before the first cluster's included.
LEMMA EntryIsTwelve ==
  ASSUME TableOK, NEW n \in Numbers
  PROVE  Entry(n) \in Twelve /\ (n \in DataClusters => Entry(n) = table[n])
<1>1. n = 0 \/ n = 1 \/ n \in DataClusters
  BY FatNumbers, SMTT(30) DEF Numbers, DataClusters
<1>2. n \in DataClusters => Entry(n) = table[n]
  BY SMTT(30) DEF Entry, DataClusters
<1>3. n = 0 => Entry(n) \in Twelve
  BY IsTwelve, SMTT(30) DEF Entry
<1>4. n = 1 => Entry(n) \in Twelve
  BY IsTwelve, SMTT(30) DEF Entry
<1>5. n \in DataClusters => table[n] \in Twelve
  BY DEF TableOK
<1> QED
  BY <1>1, <1>2, <1>3, <1>4, <1>5

\* The two entries have 12 bits.
LEMMA PairIsTwelve ==
  ASSUME TableOK, NEW k \in Nat
  PROVE  LoOf(k) \in Twelve /\ HiOf(k) \in Twelve
<1>1. 0 \in Twelve
  BY IsTwelve, SMTT(30)
<1> QED
  BY <1>1, EntryIsTwelve DEF LoOf, HiOf

\* The bytes of fat_buffer.
LEMMA TableBytes ==
  ASSUME TableOK, NEW k \in Nat, NEW i \in Nat, i \div 3 = k
  PROVE  /\ i % 3 = 0 => fat_buffer(i) = First(LoOf(k))
         /\ i % 3 = 1 => fat_buffer(i) = Shared(LoOf(k), HiOf(k))
         /\ i % 3 = 2 => fat_buffer(i) = Third(HiOf(k))
<1> DEFINE m == i % 3
           lo == LoOf(k)
           hi == HiOf(k)
<1>1. fat_buffer(i) = CASE m = 0 -> First(lo) [] m = 1 -> Shared(lo, hi) [] m = 2 -> Third(hi)
  BY SMTT(30) DEF fat_buffer, LoOf, HiOf, First, Shared, Third
<1> HIDE DEF m, lo, hi
<1>2. /\ m = 0 => fat_buffer(i) = First(lo)
      /\ m = 1 => fat_buffer(i) = Shared(lo, hi)
      /\ m = 2 => fat_buffer(i) = Third(hi)
  BY <1>1, SMTT(30)
<1> QED
  BY <1>2 DEF m, lo, hi

\* They are bytes.
LEMMA TableBytesAreBytes ==
  ASSUME TableOK, NEW i \in Nat
  PROVE  fat_buffer(i) \in Byte
<1>1. PICK k \in Nat : i \div 3 = k
  BY SMTT(30)
<1>2. i % 3 = 0 \/ i % 3 = 1 \/ i % 3 = 2
  BY SMTT(30)
<1>3. LoOf(k) \in Twelve /\ HiOf(k) \in Twelve
  BY PairIsTwelve
<1> QED
  BY <1>1, <1>2, <1>3, TableBytes, HalvesJoin

\* What fs_get_fat_entry() returns, in these terms.
LEMMA Lookup ==
  ASSUME NEW c \in Nat
  PROVE  LET o == (c * 3) \div 2
             a == fat_buffer(o + 1)
             b == fat_buffer(o)
         IN  /\ o + 1 >= FatBytes => fs_get_fat_entry(c) = EndMark
             /\ ~(o + 1 >= FatBytes) /\ c % 2 = 0 => fs_get_fat_entry(c) = Low(a, b)
             /\ ~(o + 1 >= FatBytes) /\ c % 2 # 0 => fs_get_fat_entry(c) = High(a, b)
<1> DEFINE o == (c * 3) \div 2
           a == fat_buffer(o + 1)
           b == fat_buffer(o)
           p == c % 2
<1>1. fs_get_fat_entry(c) = IF o + 1 >= FatBytes THEN EndMark
                            ELSE IF p = 0 THEN Low(a, b) ELSE High(a, b)
  BY SMTT(30) DEF fs_get_fat_entry, Unpack, Low, High, EndMark
<1> HIDE DEF o, a, b, p
<1>2. /\ o + 1 >= FatBytes => fs_get_fat_entry(c) = EndMark
      /\ ~(o + 1 >= FatBytes) /\ p = 0 => fs_get_fat_entry(c) = Low(a, b)
      /\ ~(o + 1 >= FatBytes) /\ p # 0 => fs_get_fat_entry(c) = High(a, b)
  BY <1>1, SMTT(30)
<1> QED
  BY <1>2, SMTT(30) DEF o, a, b, p

\* On any table, what fs_get_fat_entry() returns has 12 bits.
LEMMA LookupIsTwelve ==
  ASSUME TableOK, NEW c \in Nat
  PROVE  fs_get_fat_entry(c) \in Twelve
<1> DEFINE o == (c * 3) \div 2
           a == fat_buffer(o + 1)
           b == fat_buffer(o)
           p == c % 2
           late == o + 1 >= FatBytes
<1>1. o \in Nat /\ o + 1 \in Nat /\ late \in BOOLEAN
  BY FatNumbers, SMTT(30)
<1>2. a \in Byte /\ b \in Byte
  BY <1>1, TableBytesAreBytes
<1>3. EndMark \in Twelve
  BY IsTwelve, SMTT(30) DEF EndMark
<1>4. /\ late => fs_get_fat_entry(c) = EndMark
      /\ ~late /\ p = 0 => fs_get_fat_entry(c) = Low(a, b)
      /\ ~late /\ p # 0 => fs_get_fat_entry(c) = High(a, b)
  BY Lookup
<1> HIDE DEF o, a, b, p, late
<1> QED
  BY <1>2, <1>3, <1>4, TwoBytes

\* In a table that reaches far enough, fs_get_fat_entry() returns the entry that was
\* written for the cluster, although two entries share a byte.
LEMMA LookupIsRight ==
  ASSUME TableOK, TableIsWhole, NEW c \in DataClusters
  PROVE  fs_get_fat_entry(c) = table[c]
<1>1. c \in Nat /\ c \in Numbers
  BY FatNumbers, SMTT(30) DEF DataClusters, Numbers
<1>2. PICK k \in Nat : c = 2 * k \/ c = 2 * k + 1
  BY <1>1, Halves
<1>3. ~((c * 3) \div 2 + 1 >= FatBytes)
  BY <1>1, FatNumbers, SMTT(30) DEF DataClusters, TableIsWhole
<1>4. LoOf(k) \in Twelve /\ HiOf(k) \in Twelve
  BY PairIsTwelve
<1>5. Entry(c) = table[c]
  BY <1>1, EntryIsTwelve
<1>6. CASE c = 2 * k
  <2>1. /\ c % 2 = 0 /\ (c * 3) \div 2 = 3 * k /\ 3 * k \in Nat /\ 3 * k + 1 \in Nat
        /\ (3 * k) % 3 = 0 /\ (3 * k) \div 3 = k /\ (3 * k + 1) % 3 = 1 /\ (3 * k + 1) \div 3 = k
    BY <1>1, <1>6, Offsets, SMTT(30)
  <2>2. fat_buffer(3 * k) = First(LoOf(k)) /\ fat_buffer(3 * k + 1) = Shared(LoOf(k), HiOf(k))
    BY <2>1, TableBytes
  <2>3. fs_get_fat_entry(c) = Low(fat_buffer(3 * k + 1), fat_buffer(3 * k))
    BY <1>1, <1>3, <2>1, Lookup
  <2>4. LoOf(k) = Entry(c)
    BY <1>1, <1>6 DEF LoOf
  <2> QED
    BY <1>4, <1>5, <2>2, <2>3, <2>4, HalvesJoin
<1>7. CASE c = 2 * k + 1
  <2>1. /\ c % 2 # 0 /\ (c * 3) \div 2 = 3 * k + 1 /\ 3 * k + 1 \in Nat /\ 3 * k + 2 \in Nat
        /\ (3 * k + 1) + 1 = 3 * k + 2
        /\ (3 * k + 1) % 3 = 1 /\ (3 * k + 1) \div 3 = k
        /\ (3 * k + 2) % 3 = 2 /\ (3 * k + 2) \div 3 = k
    BY <1>1, <1>7, Offsets, SMTT(30)
  <2>2. /\ fat_buffer(3 * k + 1) = Shared(LoOf(k), HiOf(k))
        /\ fat_buffer(3 * k + 2) = Third(HiOf(k))
    BY <2>1, TableBytes
  <2>3. fs_get_fat_entry(c) = High(fat_buffer(3 * k + 2), fat_buffer(3 * k + 1))
    BY <1>1, <1>3, <2>1, Lookup
  <2>4. HiOf(k) = Entry(c)
    BY <1>1, <1>7 DEF HiOf
  <2> QED
    BY <1>4, <1>5, <2>2, <2>3, <2>4, HalvesJoin
<1> QED
  BY <1>2, <1>6, <1>7
-------------------------------------------------------------------------------
(* Names *)

\* The part of a name before the dot is found, when there is one such part.
LEMMA BaseLenIs ==
  ASSUME NEW s \in Seq(Typed), NEW n \in 1 .. NameLen, n <= Len(s),
         \A k \in 1 .. n : s[k] # ".", n < Len(s) => s[n + 1] = "."
  PROVE  BaseLen(s) = n
<1> DEFINE P(m) == /\ m <= Len(s)
                   /\ \A k \in 1 .. m : s[k] # "."
                   /\ m = Len(s) \/ m = NameLen \/ s[m + 1] = "."
<1>1. Len(s) \in Nat /\ n \in 0 .. NameLen /\ (n < Len(s) \/ n = Len(s)) /\ NameLen \in Nat
  BY NameAssumption, SMTT(30)
<1>2. P(n)
  BY <1>1
<1>3. ASSUME NEW m \in 0 .. NameLen, P(m) PROVE m = n
  <2>1. ~(m < n)
    <3>1. SUFFICES ASSUME m < n PROVE FALSE
      OBVIOUS
    <3>2. m # Len(s) /\ m # NameLen /\ m + 1 \in 1 .. n
      BY <1>1, <3>1, SMTT(30)
    <3> QED
      BY <1>3, <3>2
  <2>2. ~(n < m)
    <3>1. SUFFICES ASSUME n < m PROVE FALSE
      OBVIOUS
    <3>2. n < Len(s) /\ n + 1 \in 1 .. m
      BY <1>1, <1>3, <3>1, SMTT(30)
    <3> QED
      BY <1>3, <3>2
  <2> QED
    BY <1>1, <2>1, <2>2, SMTT(30)
<1>4. BaseLen(s) = CHOOSE m \in 0 .. NameLen : P(m)
  BY DEF BaseLen
<1> QED
  BY <1>1, <1>2, <1>3, <1>4

\* A typed 8.3 name is used up by the conversion, and converts to the entry's name.
LEMMA NamesMatch ==
  ASSUME NEW s \in Seq(Typed), NEW name, Names(s, name)
  PROVE  Consumed(s) /\ name = fat_name(s)
<1>1. PICK n \in 1 .. NameLen :
        /\ n <= Len(s) /\ Len(SubSeq(s, n + 2, Len(s))) <= ExtLen
        /\ \A k \in DOMAIN SubSeq(s, 1, n) : SubSeq(s, 1, n)[k] # "."
        /\ n < Len(s) => s[n + 1] = "."
        /\ name = << Pad(SubSeq(s, 1, n), NameLen), Pad(SubSeq(s, n + 2, Len(s)), ExtLen) >>
  BY DEF Names
<1>2. Len(s) \in Nat /\ n \in Nat /\ ExtLen \in Nat \ {0} /\ NameLen \in Nat
  BY NameAssumption, SMTT(30)
<1>3. DOMAIN SubSeq(s, 1, n) = 1 .. n /\ \A k \in 1 .. n : SubSeq(s, 1, n)[k] = s[k]
  BY <1>1, <1>2, SMTT(30)
<1>4. BaseLen(s) = n
  BY <1>1, <1>3, BaseLenIs
<1>5. Span(s, 1, n) = SubSeq(s, 1, n)
  <2>1. (IF Len(s) < 1 + n - 1 THEN Len(s) ELSE 1 + n - 1) = n
    BY <1>1, <1>2, SMTT(30)
  <2> QED
    BY <2>1 DEF Span
<1>6. CASE n < Len(s)
  <2>1. ExtFrom(s) = n + 2
    <3>1. n + 1 <= Len(s) /\ s[n + 1] = "." /\ (n + 1) + 1 = n + 2
      BY <1>1, <1>2, <1>6, SMTT(30)
    <3> QED
      BY <1>4, <3>1 DEF ExtFrom
  <2>2. Len(SubSeq(s, n + 2, Len(s))) = Len(s) - n - 1
    BY <1>2, <1>6, SMTT(30)
  <2>3. n + 2 + ExtLen > Len(s)
    BY <1>1, <1>2, <2>2, SMTT(30)
  <2>4. (IF Len(s) < n + 2 + ExtLen - 1 THEN Len(s) ELSE n + 2 + ExtLen - 1) = Len(s)
    BY <1>2, <2>3, SMTT(30)
  <2>5. Span(s, n + 2, ExtLen) = SubSeq(s, n + 2, Len(s))
    BY <2>4 DEF Span
  <2> QED
    BY <1>1, <1>4, <1>5, <2>1, <2>3, <2>5 DEF Consumed, fat_name
<1>7. CASE ~(n < Len(s))
  <2>1. n = Len(s) /\ ~(n + 1 <= Len(s))
    BY <1>1, <1>2, <1>7, SMTT(30)
  <2>2. ExtFrom(s) = n + 1
    BY <1>4, <2>1 DEF ExtFrom
  <2>3. n + 1 + ExtLen > Len(s)
    BY <1>2, <2>1, SMTT(30)
  <2>4. (IF Len(s) < n + 1 + ExtLen - 1 THEN Len(s) ELSE n + 1 + ExtLen - 1) = Len(s)
    BY <1>2, <2>1, SMTT(30)
  <2>5. Span(s, n + 1, ExtLen) = SubSeq(s, n + 1, Len(s))
    BY <2>4 DEF Span
  <2>6. SubSeq(s, n + 1, Len(s)) = << >> /\ SubSeq(s, n + 2, Len(s)) = << >>
    BY <1>2, <2>1, SMTT(30)
  <2> QED
    BY <1>1, <1>4, <1>5, <2>2, <2>3, <2>5, <2>6 DEF Consumed, fat_name
<1> QED
  BY <1>6, <1>7
-------------------------------------------------------------------------------
(* Chains *)

\* The step of the recursion that defines Chain, and a chain as far as its m-th cluster.
After(c) == IF c \in DataClusters THEN table[c] ELSE EndMark
UpTo(f, m) ==
  f = [n \in 0 .. m |-> IF n = 0 THEN entry.first_cluster_low ELSE After(f[n - 1])]

\* There is a chain of every length.
LEMMA ChainsExist ==
  ASSUME NEW m \in Nat
  PROVE  \E f : UpTo(f, m)
<1> DEFINE None == {x \in Nat : ~ \E f : UpTo(f, x)}
<1>1. SUFFICES ASSUME None # {} PROVE FALSE
  OBVIOUS
<1>2. PICK x \in None : \A y \in None : x <= y
  BY <1>1, LeastExists
<1>3. x \in Nat
  OBVIOUS
<1>4. CASE x = 0
  <2> DEFINE f == [n \in 0 .. 0 |-> entry.first_cluster_low]
  <2>1. \A n \in 0 .. 0 : n = 0
    BY SMTT(30)
  <2>2. f = [n \in 0 .. 0 |-> IF n = 0 THEN entry.first_cluster_low ELSE After(f[n - 1])]
    BY <2>1
  <2>3. UpTo(f, 0)
    BY <2>2 DEF UpTo
  <2> QED
    BY <1>4, <2>3
<1>5. CASE x # 0
  <2>1. PICK w \in Nat : x = w + 1
    BY <1>3, <1>5, SMTT(30)
  <2>2. w \notin None
    BY <1>2, <2>1, SMTT(30)
  <2>3. PICK f : UpTo(f, w)
    BY <2>2
  <2> DEFINE g == [n \in 0 .. x |-> IF n = x THEN After(f[w]) ELSE f[n]]
  <2>4. \A n \in 0 .. x : n = x \/ n \in 0 .. w
    BY <2>1, SMTT(30)
  <2>5. /\ x # 0 /\ x - 1 = w /\ w \in 0 .. x /\ w # x
        /\ \A n \in 0 .. w : n # x /\ n \in 0 .. x
        /\ \A n \in 0 .. w : n # 0 => n - 1 \in 0 .. w
    BY <2>1, SMTT(30)
  <2>6. \A n \in 0 .. w : g[n] = f[n]
    BY <2>5
  <2>7. g[x] = After(g[x - 1])
    <3>1. x \in 0 .. x
      BY <1>3, SMTT(30)
    <3>2. w \in 0 .. w
      BY SMTT(30)
    <3> QED BY <2>5, <2>6, <3>1, <3>2
  <2>8. \A n \in 0 .. w : f[n] = IF n = 0 THEN entry.first_cluster_low ELSE After(f[n - 1])
    BY <2>3 DEF UpTo
  <2>9. \A n \in 0 .. w : g[n] = IF n = 0 THEN entry.first_cluster_low ELSE After(g[n - 1])
    BY <2>5, <2>6, <2>8
  <2>10. \A n \in 0 .. x : g[n] = IF n = 0 THEN entry.first_cluster_low ELSE After(g[n - 1])
    BY <2>4, <2>5, <2>7, <2>9
  <2>11. g = [n \in 0 .. x |-> g[n]]
    OBVIOUS
  <2> HIDE DEF g
  <2>12. UpTo(g, x)
    BY <2>10, <2>11 DEF UpTo
  <2> QED
    BY <2>12
<1> QED
  BY <1>4, <1>5

\* What Chain is: the first cluster, and after each cluster the one its entry names.
LEMMA ChainIs ==
  /\ Chain[0] = entry.first_cluster_low
  /\ \A n \in 1 .. Clusters :
       Chain[n] = IF Chain[n - 1] \in DataClusters THEN table[Chain[n - 1]] ELSE EndMark
<1>1. Clusters \in Nat
  BY FatNumbers, SMTT(30)
<1>2. PICK f : UpTo(f, Clusters)
  BY <1>1, ChainsExist
<1>3. Chain = CHOOSE C : UpTo(C, Clusters)
  BY DEF Chain, UpTo, After, EndMark
<1>4. UpTo(Chain, Clusters)
  BY <1>2, <1>3
<1>5. \A n \in 0 .. Clusters :
        Chain[n] = IF n = 0 THEN entry.first_cluster_low ELSE After(Chain[n - 1])
  BY <1>4 DEF UpTo
<1>6. 0 \in 0 .. Clusters /\ \A n \in 1 .. Clusters : n \in 0 .. Clusters /\ n # 0
  BY <1>1, SMTT(30)
<1> QED
  BY <1>5, <1>6 DEF After
-------------------------------------------------------------------------------
(* The inductive invariant *)

EntryType == [file_size : Nat, first_cluster_low : DataClusters]
Kind(j) == root_directory[j].kind

\* The files before the end mark, those that were listed, and whether an entry has the
\* converted name.
Visible == {j \in 1 .. MaxEntries : Kind(j) = "file" /\ \A i \in 1 .. j - 1 : Kind(i) # "end"}
Elements(s) == {s[k] : k \in DOMAIN s}
WasListed == Elements(listed)
Wanted(j) == Kind(j) = "file" /\ root_directory[j].name = fat_name(filename)

\* What is on the disk and what was typed, which no command changes.
VolumeOK ==
  /\ TableOK
  /\ data \in [1 .. MaxEntries -> EntryType]
  /\ filename \in Seq(Typed)
  /\ DOMAIN root_directory = 1 .. MaxEntries /\ Len(root_directory) = MaxEntries
  /\ \A j \in 1 .. MaxEntries : Kind(j) \in Kinds

\* The variables stay in range.
StateOK ==
  /\ entry \in EntryType
  /\ current_cluster \in Twelve
  /\ file_buffer \in Seq(Twelve \X Nat) /\ Len(file_buffer) <= entry.file_size
  /\ pc \in {"start", "loop", "done", "null"}
  /\ offset \in 1 .. MaxEntries + 1
  /\ phase \in {"convert", "search", "done"}
  /\ found \in 0 .. MaxEntries
  /\ listed \in Seq(1 .. MaxEntries)
  /\ command \in {"ls", "find", "read", "prompt"}

\* The order of the commands: a file is read after it was found, and from its entry.
OrderOK ==
  /\ command = "ls" => phase = "convert"
  /\ phase # "done" => found = 0
  /\ phase = "convert" /\ command = "find" => offset = 1
  /\ command \in {"ls", "find"} => pc = "start"
  /\ pc = "start" => file_buffer = << >>
  /\ command = "read" \/ pc # "start" => phase = "done" /\ found # 0 /\ entry = data[found]

\* `ls` has printed the files it has passed, and in the end all before the end mark.
ListInv ==
  /\ command = "ls" => /\ \A j \in 1 .. offset - 1 : Kind(j) # "end"
                       /\ WasListed = {j \in 1 .. offset - 1 : Kind(j) = "file"}
  /\ command # "ls" => WasListed = Visible

\* The search has passed no end mark and no entry with the name.
FindInv ==
  /\ phase = "search" => \A j \in 1 .. offset - 1 : Kind(j) # "end" /\ ~Wanted(j)
  /\ phase = "done" /\ found # 0 => found \in Visible /\ Wanted(found)
  /\ phase = "done" /\ found = 0 => \A j \in Visible : ~Names(filename, root_directory[j].name)

\* k clusters were copied, and the loop is at the next one of the chain.
Copied(k) ==
  /\ current_cluster = Chain[k]
  /\ \A m \in 0 .. k - 1 : Chain[m] \in DataClusters
  /\ Len(file_buffer) = IF k * ClusterBytes < entry.file_size THEN k * ClusterBytes
                        ELSE entry.file_size
  /\ \A i \in 1 .. Len(file_buffer) : file_buffer[i] = FileBytes[i]

ReadInv ==
  /\ pc = "loop" /\ Sound => \E k \in 0 .. Clusters : Copied(k)
  /\ pc = "done" /\ Sound => file_buffer = FileBytes
  /\ pc = "done" /\ Sound /\ command = "prompt" => shown = FileBytes

FSInv == VolumeOK /\ StateOK /\ OrderOK /\ ListInv /\ FindInv

volume == << table, data, filename, root_directory >>

\* The marks that end a chain.
IsEnd(c) == c >= 4088
Below(c) == c < 4088

\* The steps of the loop, in these terms.
LEMMA TurnIs ==
  CopyThenFollow(current_cluster) <=>
    /\ pc = "loop"
    /\ Below(current_cluster)
    /\ file_buffer' = file_buffer \o SubSeq(Sector(current_cluster), 1,
                                            ToCopy(entry.file_size - Len(file_buffer)))
    /\ current_cluster' = fs_get_fat_entry(current_cluster)
    /\ UNCHANGED << table, entry, pc >>
BY SMTT(30) DEF CopyThenFollow, Below

\* The step that ends it.
LEMMA LastIs ==
  ReadDone <=>
    /\ pc = "loop"
    /\ IsEnd(current_cluster)
    /\ pc' = "done"
    /\ UNCHANGED << table, entry, current_cluster, file_buffer >>
BY SMTT(30) DEF ReadDone, IsEnd

\* Nothing is ever written to the disk.
LEMMA VolumeIsFixed ==
  ASSUME [Next]_vars
  PROVE  UNCHANGED volume
<1>1. CASE LsPrint \/ LsSkip \/ LsDone
  BY <1>1 DEF LsPrint, LsSkip, LsDone, LsNext, readVars, volume
<1>2. CASE Find
  BY <1>2 DEF Find, FindStep, Reject, Convert, StopAtEnd, Match, Skip, Exhausted, Return,
              readVars, volume
<1>3. CASE NotFound \/ Open \/ CatPrint \/ NoBuffer
  BY <1>3 DEF NotFound, Open, CatPrint, NoBuffer, readVars, findVars, volume
<1>4. CASE Read
  <2>1. ReadCluster \/ ReadDone => UNCHANGED table
    BY TurnIs, LastIs DEF ReadCluster
  <2>2. ReadEmpty \/ ReadNoMemory \/ ReadStart => UNCHANGED table
    BY DEF ReadEmpty, ReadNoMemory, ReadStart
  <2> QED
    BY <1>4, <2>1, <2>2 DEF Read, ReadStep, findVars, volume
<1>5. CASE UNCHANGED vars
  BY <1>5 DEF vars, readVars, findVars, volume
<1> QED
  BY <1>1, <1>2, <1>3, <1>4, <1>5 DEF Next

\* So what was read from it stays right.
LEMMA VolumeStays ==
  ASSUME VolumeOK, UNCHANGED volume
  PROVE  /\ VolumeOK' /\ Visible' = Visible
         /\ \A j : Kind(j)' = Kind(j) /\ (Wanted(j)' <=> Wanted(j))
<1>1. table' = table /\ data' = data /\ filename' = filename /\ root_directory' = root_directory
  BY DEF volume
<1>2. \A j : Kind(j)' = Kind(j)
  BY <1>1 DEF Kind
<1>3. \A j : Wanted(j)' <=> Wanted(j)
  BY <1>1, <1>2 DEF Wanted
<1>4. Visible' = Visible
  <2>1. ASSUME NEW j PROVE j \in Visible' <=> j \in Visible
    BY <1>2 DEF Visible
  <2> QED
    BY <2>1
<1> QED
  BY <1>1, <1>2, <1>3, <1>4 DEF VolumeOK, TableOK

\* A function on the numbers up to n is a sequence of length n.
LEMMA FunctionIsSeq ==
  ASSUME NEW S, NEW n \in Nat, NEW f \in [1 .. n -> S]
  PROVE  f \in Seq(S) /\ Len(f) = n /\ DOMAIN f = 1 .. n
BY SMTT(30)

\* A volume as init_fs() loads it.
LEMMA VolumeStarts ==
  ASSUME Init
  PROVE  VolumeOK
<1>1. MaxEntries \in Nat /\ MaxTyped \in Nat /\ Clusters \in Nat \ {0}
  BY FatNumbers, NameAssumption, SMTT(30)
<1>2. CASE AnyTable
  <2>1. EntryValues \subseteq Twelve
    BY FatAssumption, SMTT(30) DEF Twelve
  <2>2. TableOK
    BY <1>2, <2>1 DEF AnyTable, TableOK
  <2>3. data \in [1 .. MaxEntries -> EntryType]
    <3>1. PICK e \in [file_size : Sizes, first_cluster_low : DataClusters] :
            data = [i \in 1 .. MaxEntries |-> e]
      BY <1>2 DEF AnyTable
    <3>2. Sizes \subseteq Nat
      BY FatNumbers, SMTT(30) DEF Sizes
    <3>3. e \in EntryType
      BY <3>2 DEF EntryType
    <3> QED
      BY <3>1, <3>3
  <2>4. filename \in Seq(Typed)
    <3>1. << "a" >> \in Seq({"a", "A", "."})
      BY SMTT(30)
    <3> QED
      BY <1>2, <3>1 DEF AnyTable, PlainName, Typed
  <2>5. root_directory = [i \in 1 .. MaxEntries |-> PlainEntry] /\ PlainEntry.kind = "file"
    BY <1>2 DEF AnyTable, PlainEntry
  <2>6. root_directory \in [1 .. MaxEntries -> {PlainEntry}]
    BY <2>5
  <2>7. DOMAIN root_directory = 1 .. MaxEntries /\ Len(root_directory) = MaxEntries
    BY <1>1, <2>6, FunctionIsSeq
  <2>8. \A j \in 1 .. MaxEntries : Kind(j) \in Kinds
    BY <2>5 DEF Kind, Kinds
  <2> QED
    BY <2>2, <2>3, <2>4, <2>7, <2>8 DEF VolumeOK
<1>3. CASE AnyDirectory
  <2>1. TableOK
    <3>1. ASSUME NEW c \in DataClusters
          PROVE  (IF c < Clusters + 1 THEN c + 1 ELSE EndMark) \in Twelve
      BY FatNumbers, FatBelow, IsTwelve, SMTT(30) DEF DataClusters, EndMark
    <3> DEFINE v(c) == IF c < Clusters + 1 THEN c + 1 ELSE EndMark
    <3>2. table = [c \in DataClusters |-> v(c)]
      <4>1. table = PlainTable
        BY <1>3 DEF AnyDirectory
      <4>2. PlainTable = [c \in DataClusters |-> v(c)]
        BY SMTT(30) DEF PlainTable, EndMark
      <4> QED
        BY <4>1, <4>2
    <3>3. \A c \in DataClusters : v(c) \in Twelve
      BY <3>1
    <3> HIDE DEF v
    <3> QED
      BY <3>2, <3>3 DEF TableOK
  <2>2. data \in [1 .. MaxEntries -> EntryType]
    <3>1. ASSUME NEW i \in 1 .. MaxEntries
          PROVE  i \in Nat /\ (IF i < Clusters THEN i + 1 ELSE 2) \in DataClusters
      BY <1>1, SMTT(30) DEF DataClusters
    <3>2. ASSUME NEW i \in 1 .. MaxEntries
          PROVE  [file_size |-> i, first_cluster_low |-> IF i < Clusters THEN i + 1 ELSE 2]
                   \in EntryType
      BY <3>1 DEF EntryType
    <3> QED
      BY <1>3, <3>2 DEF AnyDirectory
  <2>3. filename \in Seq(Typed)
    <3>1. PICK n \in 1 .. MaxTyped : filename \in [1 .. n -> Typed]
      BY <1>3 DEF AnyDirectory
    <3>2. n \in Nat
      BY <1>1, SMTT(30)
    <3> QED
      BY <3>1, <3>2, FunctionIsSeq
  <2>4. root_directory \in [1 .. MaxEntries -> DirEntries]
    BY <1>3 DEF AnyDirectory
  <2>5. DOMAIN root_directory = 1 .. MaxEntries /\ Len(root_directory) = MaxEntries
    BY <1>1, <2>4, FunctionIsSeq
  <2>6. \A j \in 1 .. MaxEntries : Kind(j) \in Kinds
    BY <2>4 DEF Kind, DirEntries
  <2> QED
    BY <2>1, <2>2, <2>3, <2>5, <2>6 DEF VolumeOK
<1> QED
  BY <1>2, <1>3 DEF Init

\* The first state satisfies the invariant.
LEMMA FSStarts ==
  ASSUME Init
  PROVE  FSInv /\ ReadInv
<1>1. VolumeOK
  BY VolumeStarts
<1>2. MaxEntries \in Nat /\ Clusters \in Nat \ {0} /\ 0 \in Twelve
  BY FatNumbers, NameAssumption, IsTwelve, SMTT(30)
<1>3. StateOK
  <2>1. entry \in EntryType /\ Len(file_buffer) <= entry.file_size
    <3>1. 2 \in DataClusters /\ 0 \in Nat
      BY <1>2, SMTT(30) DEF DataClusters
    <3>2. entry = [file_size |-> 0, first_cluster_low |-> 2] /\ file_buffer = << >>
      BY DEF Init
    <3>3. Len(<< >>) <= 0
      BY SMTT(30)
    <3> QED
      BY <3>1, <3>2, <3>3 DEF EntryType
  <2>2. file_buffer \in Seq(Twelve \X Nat)
    <3>1. << >> \in Seq(Twelve \X Nat)
      BY SMTT(30)
    <3> QED
      BY <3>1 DEF Init
  <2>3. listed \in Seq(1 .. MaxEntries)
    <3>1. [i \in 1 .. MaxEntries |-> i] \in [1 .. MaxEntries -> 1 .. MaxEntries]
      OBVIOUS
    <3>2. << >> \in Seq(1 .. MaxEntries)
      BY SMTT(30)
    <3>3. listed = [i \in 1 .. MaxEntries |-> i] \/ listed = << >>
      BY DEF Init, AnyTable, AnyDirectory
    <3>4. [i \in 1 .. MaxEntries |-> i] \in Seq(1 .. MaxEntries)
      BY <1>2, <3>1, FunctionIsSeq
    <3> QED
      BY <3>2, <3>3, <3>4
  <2>4. offset \in 1 .. MaxEntries + 1 /\ found \in 0 .. MaxEntries
    <3>1. 1 \in 1 .. MaxEntries + 1 /\ 0 \in 0 .. MaxEntries
      BY <1>2, SMTT(30)
    <3> QED
      BY <3>1 DEF Init
  <2> QED
    BY <1>2, <2>1, <2>2, <2>3, <2>4 DEF Init, AnyTable, AnyDirectory, StateOK
<1>4. OrderOK
  BY DEF Init, AnyTable, AnyDirectory, OrderOK
<1>5. ListInv
  <2>1. CASE AnyTable
    <3>1. \A j \in 1 .. MaxEntries : Kind(j) = "file"
      BY <2>1 DEF AnyTable, PlainEntry, Kind
    <3>2. \A j \in 1 .. MaxEntries : \A i \in 1 .. j - 1 : i \in 1 .. MaxEntries
      BY <1>2, SMTT(30)
    <3>3. Visible = 1 .. MaxEntries
      BY <3>1, <3>2 DEF Visible
    <3>4. WasListed = 1 .. MaxEntries
      BY <2>1 DEF AnyTable, WasListed, Elements
    <3> QED
      BY <2>1, <3>3, <3>4 DEF AnyTable, ListInv
  <2>2. CASE AnyDirectory
    <3>1. \A j \in 1 .. offset - 1 : FALSE
      <4>1. \A j \in 1 .. 1 - 1 : FALSE
        BY SMTT(30)
      <4> QED
        BY <4>1 DEF Init
    <3>2. WasListed = {}
      <4>1. DOMAIN << >> = {}
        BY SMTT(30)
      <4> QED
        BY <2>2, <4>1 DEF AnyDirectory, WasListed, Elements
    <3> QED
      BY <2>2, <3>1, <3>2 DEF AnyDirectory, ListInv
  <2> QED
    BY <2>1, <2>2 DEF Init
<1>6. FindInv
  BY DEF Init, FindInv
<1>7. ReadInv
  BY DEF Init, ReadInv
<1> QED
  BY <1>1, <1>3, <1>4, <1>5, <1>6, <1>7 DEF FSInv

\* The numbers among the variables.
LEMMA FSRanges ==
  ASSUME FSInv
  PROVE  /\ MaxEntries \in Nat /\ Len(root_directory) = MaxEntries
         /\ offset \in Nat \ {0} /\ offset <= MaxEntries + 1
         /\ found \in Nat /\ found <= MaxEntries
<1>1. /\ offset \in 1 .. MaxEntries + 1 /\ found \in 0 .. MaxEntries
      /\ Len(root_directory) = MaxEntries
  BY DEF FSInv, StateOK, VolumeOK
<1> QED
  BY <1>1, NameAssumption, SMTT(30)
-------------------------------------------------------------------------------
(* ls *)

\* Appending to the listing adds one entry to what was listed.
LEMMA OneMoreListed ==
  ASSUME NEW S, NEW s \in Seq(S), NEW e \in S
  PROVE  /\ Append(s, e) \in Seq(S)
         /\ \A x : x \in Elements(Append(s, e)) <=> x \in Elements(s) \/ x = e
<1>1. Append(s, e) \in Seq(S) /\ Len(s) \in Nat
  BY SMTT(30)
<1>2. DOMAIN s = 1 .. Len(s) /\ DOMAIN Append(s, e) = 1 .. Len(s) + 1
  BY SMTT(30)
<1>3. /\ \A k \in 1 .. Len(s) : Append(s, e)[k] = s[k]
      /\ Append(s, e)[Len(s) + 1] = e
  BY SMTT(30)
<1>4. /\ Len(s) + 1 \in 1 .. Len(s) + 1
      /\ \A k \in 1 .. Len(s) + 1 : k \in 1 .. Len(s) \/ k = Len(s) + 1
      /\ \A k \in 1 .. Len(s) : k \in 1 .. Len(s) + 1
  BY <1>1, SMTT(30)
<1> QED
  BY <1>1, <1>2, <1>3, <1>4 DEF Elements

\* The entries before the next one.
LEMMA Before ==
  ASSUME NEW n \in Nat \ {0}
  PROVE  /\ n \in 1 .. (n + 1) - 1
         /\ \A j : j \in 1 .. (n + 1) - 1 <=> j \in 1 .. n - 1 \/ j = n
BY SMTT(30)

\* One entry of the listing.
LEMMA LsStepKeeps ==
  ASSUME FSInv, LsPrint \/ LsSkip
  PROVE  FSInv'
<1>1. /\ command = "ls" /\ command' = "ls" /\ offset <= Len(root_directory)
      /\ offset' = offset + 1
      /\ UNCHANGED << readVars, filename, root_directory, phase, found, data, shown, command >>
  BY DEF LsPrint, LsSkip, LsAt, LsNext
<1>2. UNCHANGED volume
  BY <1>1 DEF readVars, volume
<1>3. VolumeOK' /\ \A j : Kind(j)' = Kind(j)
  BY <1>2, VolumeStays DEF FSInv
<1>4. /\ offset \in Nat \ {0} /\ offset \in 1 .. MaxEntries /\ offset + 1 \in 1 .. MaxEntries + 1
  <2>1. offset <= Len(root_directory)
    BY <1>1
  <2> QED
    BY <2>1, FSRanges, SMTT(30)
<1>5. Kind(offset) # "end"
  BY DEF LsPrint, LsSkip, LsAt, Kind
<1>6. /\ listed' \in Seq(1 .. MaxEntries)
      /\ Kind(offset) = "file" =>
           \A x : x \in WasListed' <=> x \in WasListed \/ x = offset
      /\ Kind(offset) # "file" => WasListed' = WasListed
  <2>1. listed \in Seq(1 .. MaxEntries)
    BY DEF FSInv, StateOK
  <2>2. CASE LsPrint
    <3>1. listed' = Append(listed, offset) /\ Kind(offset) = "file"
      BY <2>2 DEF LsPrint, LsAt, Kind
    <3>2. /\ Append(listed, offset) \in Seq(1 .. MaxEntries)
          /\ \A x : x \in Elements(Append(listed, offset)) <=> x \in Elements(listed) \/ x = offset
      <4> DEFINE S == 1 .. MaxEntries
      <4>1. listed \in Seq(S) /\ offset \in S
        BY <1>4, <2>1
      <4>2. SUFFICES /\ Append(listed, offset) \in Seq(S)
                     /\ \A x : x \in Elements(Append(listed, offset))
                                <=> x \in Elements(listed) \/ x = offset
        OBVIOUS
      <4> HIDE DEF S
      <4> QED
        BY <4>1, OneMoreListed
    <3>3. WasListed = Elements(listed) /\ WasListed' = Elements(listed')
      BY DEF WasListed
    <3> QED
      BY <3>1, <3>2, <3>3
  <2>3. CASE LsSkip
    <3>1. listed' = listed /\ Kind(offset) # "file"
      BY <2>3 DEF LsSkip, LsAt, Kind
    <3> QED
      BY <2>1, <3>1 DEF WasListed
  <2> QED
    BY <2>2, <2>3
<1>7. PICK o : o = offset
  OBVIOUS
<1>8. ListInv'
  <2>1. /\ \A j \in 1 .. o - 1 : Kind(j) # "end"
        /\ WasListed = {j \in 1 .. o - 1 : Kind(j) = "file"}
    BY <1>1, <1>7 DEF FSInv, ListInv
  <2>2. \A j : j \in 1 .. (o + 1) - 1 <=> j \in 1 .. o - 1 \/ j = o
    BY <1>4, <1>7, Before
  <2>3. \A j \in 1 .. (o + 1) - 1 : Kind(j)' # "end"
    BY <1>3, <1>5, <1>7, <2>1, <2>2
  <2>4. ASSUME NEW j PROVE j \in WasListed' <=> j \in 1 .. (o + 1) - 1 /\ Kind(j)' = "file"
    BY <1>3, <1>6, <1>7, <2>1, <2>2
  <2>5. WasListed' = {j \in 1 .. (o + 1) - 1 : Kind(j)' = "file"}
    BY <2>4
  <2> QED
    BY <1>1, <1>7, <2>3, <2>5 DEF ListInv
<1>9. StateOK'
  BY <1>1, <1>4, <1>6 DEF FSInv, StateOK, readVars
<1>10. OrderOK'
  BY <1>1 DEF FSInv, OrderOK, readVars
<1>11. FindInv'
  BY <1>1 DEF FSInv, FindInv, OrderOK
<1> QED
  BY <1>3, <1>8, <1>9, <1>10, <1>11 DEF FSInv

\* The end of the listing: what it passed is all there is before the end mark.
LEMMA LsDoneKeeps ==
  ASSUME FSInv, LsDone
  PROVE  FSInv'
<1>1. /\ command = "ls" /\ command' = "find" /\ offset' = 1
      /\ UNCHANGED << readVars, filename, root_directory, phase, found, data, listed, shown >>
  BY DEF LsDone
<1>2. UNCHANGED volume
  BY <1>1 DEF readVars, volume
<1>3. VolumeOK' /\ Visible' = Visible
  BY <1>2, VolumeStays DEF FSInv
<1>4. MaxEntries \in Nat /\ offset \in Nat \ {0} /\ Len(root_directory) = MaxEntries
  BY FSRanges
<1>5. offset <= MaxEntries => Kind(offset) = "end"
  <2>1. ASSUME offset <= MaxEntries PROVE offset \in 1 .. MaxEntries
    BY <1>4, <2>1, SMTT(30)
  <2>2. ASSUME offset <= MaxEntries PROVE root_directory[offset].kind \in Kinds
    BY <2>1, <2>2 DEF FSInv, VolumeOK, Kind
  <2> QED
    BY <1>1, <1>4, <2>2 DEF LsDone, LsAt, Kind
<1>6. /\ \A j \in 1 .. offset - 1 : Kind(j) # "end"
      /\ WasListed = {j \in 1 .. offset - 1 : Kind(j) = "file"}
  BY <1>1 DEF FSInv, ListInv
<1>7. ASSUME NEW j PROVE j \in Visible <=> j \in 1 .. offset - 1 /\ Kind(j) = "file"
  <2>1. ASSUME j \in 1 .. offset - 1
        PROVE  j \in 1 .. MaxEntries /\ \A i \in 1 .. j - 1 : i \in 1 .. offset - 1
    BY <2>1, FSRanges, SMTT(30)
  <2>2. ASSUME j \in 1 .. MaxEntries, ~(j \in 1 .. offset - 1)
        PROVE  offset <= MaxEntries /\ (j = offset \/ offset \in 1 .. j - 1)
    BY <1>4, <2>2, SMTT(30)
  <2> QED
    BY <1>5, <1>6, <2>1, <2>2 DEF Visible
<1>8. WasListed' = Visible
  <2>1. WasListed' = WasListed
    BY <1>1 DEF WasListed
  <2> QED
    BY <1>6, <1>7, <2>1
<1>9. StateOK'
  <2>1. 1 \in 1 .. MaxEntries + 1
    BY <1>4, SMTT(30)
  <2> QED
    BY <1>1, <2>1 DEF FSInv, StateOK, readVars
<1>10. OrderOK'
  BY <1>1 DEF FSInv, OrderOK, readVars
<1>11. FindInv'
  BY <1>1 DEF FSInv, FindInv, OrderOK
<1>12. ListInv'
  BY <1>1, <1>3, <1>8 DEF ListInv
<1> QED
  BY <1>3, <1>9, <1>10, <1>11, <1>12 DEF FSInv
-------------------------------------------------------------------------------
(* cat: finding the file *)

\* A step of fs_find_file() keeps what does not depend on the search.
LEMMA FindFrame ==
  ASSUME FSInv, command = "find", phase # "done", UNCHANGED volume, FindInv',
         UNCHANGED << readVars, listed, command >>, offset' \in 1 .. MaxEntries + 1,
         phase' \in {"search", "done"}, found' \in 0 .. MaxEntries, phase' # "done" => found' = 0
  PROVE  FSInv'
<1>1. VolumeOK' /\ Visible' = Visible
  BY VolumeStays DEF FSInv
<1>2. StateOK'
  BY DEF FSInv, StateOK, readVars
<1>3. OrderOK'
  BY DEF FSInv, OrderOK, readVars
<1>4. WasListed' = WasListed
  BY DEF WasListed
<1>5. ListInv'
  BY <1>1, <1>4 DEF FSInv, ListInv
<1> QED
  BY <1>1, <1>2, <1>3, <1>5 DEF FSInv

\* No file with the name is visible, because all that is visible was passed.
LEMMA NothingWanted ==
  ASSUME VolumeOK, \A j \in Visible : ~Wanted(j)
  PROVE  \A j \in Visible : ~Names(filename, root_directory[j].name)
<1>1. filename \in Seq(Typed)
  BY DEF VolumeOK
<1>2. ASSUME NEW j \in Visible, Names(filename, root_directory[j].name) PROVE FALSE
  <2>1. root_directory[j].name = fat_name(filename)
    BY <1>1, <1>2, NamesMatch
  <2>2. Kind(j) = "file"
    BY DEF Visible
  <2> QED
    BY <2>1, <2>2 DEF Wanted
<1> QED
  BY <1>2

\* fs_find_file() finds the first visible entry with the name.
LEMMA FindKeeps ==
  ASSUME FSInv, Find
  PROVE  FSInv'
<1>1. command = "find" /\ FindStep /\ UNCHANGED << readVars, data, listed, shown, command >>
  BY DEF Find
<1>2. UNCHANGED << filename, root_directory >>
  BY <1>1 DEF FindStep, Reject, Convert, StopAtEnd, Match, Skip, Exhausted, Return
<1>3. UNCHANGED volume
  BY <1>1, <1>2 DEF readVars, volume
<1>4. /\ Visible' = Visible /\ \A j : Kind(j)' = Kind(j) /\ (Wanted(j)' <=> Wanted(j))
      /\ VolumeOK /\ StateOK /\ OrderOK
  BY <1>3, VolumeStays DEF FSInv
<1>5. /\ offset \in 1 .. MaxEntries + 1 /\ 0 \in 0 .. MaxEntries /\ MaxEntries \in Nat
      /\ offset \in Nat \ {0} /\ Len(root_directory) = MaxEntries
  BY FSRanges, SMTT(30)
<1>6. CASE Reject
  <2>1. phase = "convert" /\ ~Consumed(filename) /\ phase' = "done" /\ found' = 0 /\ offset' = offset
    BY <1>6 DEF Reject, Return
  <2>2. \A j \in Visible : ~Names(filename, root_directory[j].name)
    BY <1>4, <2>1, NamesMatch DEF VolumeOK
  <2>3. FindInv'
    BY <1>2, <1>4, <2>1, <2>2 DEF FindInv
  <2> QED
    BY <1>1, <1>3, <1>5, <2>1, <2>3, FindFrame
<1>7. CASE Convert
  <2>1. phase = "convert" /\ phase' = "search" /\ UNCHANGED << offset, found >>
    BY <1>7 DEF Convert
  <2>2. found = 0 /\ offset = 1
    BY <1>1, <1>4, <2>1 DEF OrderOK
  <2>3. \A j \in 1 .. 1 - 1 : FALSE
    BY SMTT(30)
  <2>4. FindInv'
    BY <2>1, <2>2, <2>3 DEF FindInv
  <2> QED
    BY <1>1, <1>3, <1>5, <2>1, <2>2, <2>4, FindFrame
<1>8. CASE StopAtEnd \/ Exhausted
  <2>1. /\ phase = "search" /\ phase' = "done" /\ found' = 0 /\ offset' = offset
        /\ offset <= MaxEntries => Kind(offset) = "end"
    <3>1. offset > Len(root_directory) => ~(offset <= MaxEntries)
      BY <1>5, SMTT(30)
    <3> QED
      BY <1>8, <3>1 DEF StopAtEnd, Exhausted, At, Return, Kind
  <2>2. \A j \in 1 .. offset - 1 : ~Wanted(j)
    BY <2>1 DEF FSInv, FindInv
  <2>3. ASSUME NEW j \in Visible PROVE j \in 1 .. offset - 1
    <3>1. j \in 1 .. MaxEntries /\ Kind(j) = "file" /\ \A i \in 1 .. j - 1 : Kind(i) # "end"
      BY DEF Visible
    <3>2. ASSUME ~(j \in 1 .. offset - 1)
          PROVE  offset <= MaxEntries /\ (j = offset \/ offset \in 1 .. j - 1)
      BY <1>5, <3>1, <3>2, SMTT(30)
    <3> QED
      BY <2>1, <3>1, <3>2
  <2>4. \A j \in Visible : ~Names(filename, root_directory[j].name)
    BY <1>4, <2>2, <2>3, NothingWanted
  <2>5. FindInv'
    BY <1>2, <1>4, <2>1, <2>4 DEF FindInv
  <2> QED
    BY <1>1, <1>3, <1>5, <2>1, <2>5, FindFrame
<1>9. CASE Match
  <2>1. /\ phase = "search" /\ phase' = "done" /\ found' = offset /\ offset' = offset
        /\ offset <= MaxEntries /\ Wanted(offset)
    BY <1>5, <1>9 DEF Match, At, Same, Return, Wanted, Kind
  <2>2. offset \in 1 .. MaxEntries /\ offset \in 0 .. MaxEntries /\ offset # 0
    BY <1>5, <2>1, SMTT(30)
  <2>3. offset \in Visible
    BY <2>1, <2>2 DEF FSInv, FindInv, Visible, Wanted
  <2>4. PICK o : o = offset
    OBVIOUS
  <2>5. Wanted(o)' /\ o \in Visible'
    BY <1>4, <2>1, <2>3, <2>4
  <2>6. FindInv'
    BY <2>1, <2>2, <2>4, <2>5 DEF FindInv
  <2> QED
    BY <1>1, <1>3, <1>5, <2>1, <2>2, <2>6, FindFrame
<1>10. CASE Skip
  <2>1. /\ phase = "search" /\ phase' = "search" /\ found' = found /\ offset' = offset + 1
        /\ offset <= MaxEntries /\ ~Wanted(offset) /\ Kind(offset) # "end"
    BY <1>5, <1>10 DEF Skip, At, Same, Wanted, Kind
  <2>2. offset + 1 \in 1 .. MaxEntries + 1
    BY <1>5, <2>1, SMTT(30)
  <2>3. found = 0
    BY <1>4, <2>1 DEF OrderOK
  <2>4. PICK o : o = offset
    OBVIOUS
  <2>5. \A j \in 1 .. o - 1 : Kind(j) # "end" /\ ~Wanted(j)
    BY <2>1, <2>4 DEF FSInv, FindInv
  <2>6. \A j : j \in 1 .. (o + 1) - 1 <=> j \in 1 .. o - 1 \/ j = o
    BY <1>5, <2>4, Before
  <2>7. \A j \in 1 .. (o + 1) - 1 : Kind(j)' # "end" /\ ~Wanted(j)'
    BY <1>4, <2>1, <2>4, <2>5, <2>6
  <2>8. FindInv'
    BY <2>1, <2>4, <2>7 DEF FindInv
  <2> QED
    BY <1>1, <1>3, <1>5, <2>1, <2>2, <2>3, <2>8, FindFrame
<1> QED
  BY <1>1, <1>6, <1>7, <1>8, <1>9, <1>10 DEF FindStep
-------------------------------------------------------------------------------
(* cat: reading the file *)

\* What the beginning of a sequence is.
LEMMA Beginning ==
  ASSUME NEW S, NEW s \in Seq(S), NEW n \in 0 .. Len(s)
  PROVE  /\ SubSeq(s, 1, n) \in Seq(S) /\ Len(SubSeq(s, 1, n)) = n
         /\ \A i \in 1 .. n : SubSeq(s, 1, n)[i] = s[i]
BY SMTT(30)

\* One turn of the loop appends the beginning of the cluster, as much of it as fits.
LEMMA CopyIs ==
  ASSUME FSInv, CopyThenFollow(current_cluster),
         NEW n, n = ToCopy(entry.file_size - Len(file_buffer))
  PROVE  /\ n \in 0 .. ClusterBytes /\ n <= entry.file_size - Len(file_buffer)
         /\ file_buffer' \in Seq(Twelve \X Nat) /\ Len(file_buffer') = Len(file_buffer) + n
         /\ \A i \in 1 .. Len(file_buffer) : file_buffer'[i] = file_buffer[i]
         /\ \A i \in 1 .. n : file_buffer'[Len(file_buffer) + i] = << current_cluster, i >>
<1>1. /\ file_buffer \in Seq(Twelve \X Nat) /\ Len(file_buffer) \in Nat
      /\ Len(file_buffer) <= entry.file_size /\ entry.file_size \in Nat
      /\ current_cluster \in Twelve
  <2>1. entry \in EntryType /\ file_buffer \in Seq(Twelve \X Nat)
    BY DEF FSInv, StateOK
  <2>2. entry.file_size \in Nat
    BY <2>1 DEF EntryType
  <2>3. Len(file_buffer) \in Nat
    BY <2>1, SMTT(30)
  <2> QED
    BY <2>1, <2>2, <2>3 DEF FSInv, StateOK
<1>2. ClusterBytes \in Nat \ {0}
  BY FatNumbers, SMTT(30)
<1>3. n \in 0 .. ClusterBytes /\ n <= entry.file_size - Len(file_buffer)
  BY <1>1, <1>2, SMTT(30) DEF ToCopy
<1>4. Sector(current_cluster) \in [1 .. ClusterBytes -> Twelve \X Nat]
  <2>1. \A k \in 1 .. ClusterBytes : k \in Nat
    BY <1>2, SMTT(30)
  <2> QED
    BY <1>1, <2>1 DEF Sector
<1>5. Sector(current_cluster) \in Seq(Twelve \X Nat) /\ Len(Sector(current_cluster)) = ClusterBytes
  BY <1>2, <1>4, FunctionIsSeq
<1> DEFINE part == SubSeq(Sector(current_cluster), 1, n)
<1>6. /\ part \in Seq(Twelve \X Nat) /\ Len(part) = n
      /\ \A i \in 1 .. n : part[i] = Sector(current_cluster)[i]
  BY <1>3, <1>5, Beginning
<1>7. ASSUME NEW i \in 1 .. n PROVE Sector(current_cluster)[i] = << current_cluster, i >>
  <2>1. i \in 1 .. ClusterBytes
    BY <1>2, <1>3, SMTT(30)
  <2> QED
    BY <2>1 DEF Sector
<1>8. file_buffer' = file_buffer \o part
  BY TurnIs
<1> HIDE DEF part
<1>9. /\ file_buffer' \in Seq(Twelve \X Nat) /\ Len(file_buffer') = Len(file_buffer) + Len(part)
      /\ \A i \in 1 .. Len(file_buffer) : file_buffer'[i] = file_buffer[i]
      /\ \A i \in 1 .. Len(part) : file_buffer'[Len(file_buffer) + i] = part[i]
  <2> DEFINE S == Twelve \X Nat
  <2>1. file_buffer \in Seq(S) /\ part \in Seq(S)
    BY <1>1, <1>6
  <2> HIDE DEF S
  <2>2. /\ file_buffer' \in Seq(S) /\ Len(file_buffer') = Len(file_buffer) + Len(part)
        /\ \A i \in 1 .. Len(file_buffer) : file_buffer'[i] = file_buffer[i]
        /\ \A i \in 1 .. Len(part) : file_buffer'[Len(file_buffer) + i] = part[i]
    BY <1>8, <2>1, SMTT(30)
  <2> QED
    BY <2>2 DEF S
<1> QED
  BY <1>3, <1>6, <1>7, <1>9

\* A step of fs_read_file() keeps what does not depend on the reading.
LEMMA ReadFrame ==
  ASSUME FSInv, command = "read", UNCHANGED << table, entry, findVars, data, listed, command >>,
         current_cluster' \in Twelve, file_buffer' \in Seq(Twelve \X Nat),
         Len(file_buffer') <= entry.file_size, pc' \in {"start", "loop", "done", "null"},
         pc' = "start" => file_buffer' = << >>
  PROVE  FSInv'
<1>1. UNCHANGED volume
  BY DEF volume, findVars
<1>2. VolumeOK' /\ Visible' = Visible /\ \A j : Kind(j)' = Kind(j) /\ (Wanted(j)' <=> Wanted(j))
  BY <1>1, VolumeStays DEF FSInv
<1>3. UNCHANGED << offset, phase, found, filename, root_directory >>
  BY DEF findVars
<1>4. StateOK'
  BY <1>3 DEF FSInv, StateOK
<1>5. OrderOK'
  BY <1>3 DEF FSInv, OrderOK
<1>6. WasListed' = WasListed
  BY DEF WasListed
<1>7. ListInv'
  BY <1>2, <1>6 DEF FSInv, ListInv
<1>8. FindInv'
  BY <1>2, <1>3 DEF FSInv, FindInv
<1> QED
  BY <1>2, <1>4, <1>5, <1>7, <1>8 DEF FSInv

\* fs_read_file() never copies more than the buffer holds, on any table.
LEMMA ReadKeeps ==
  ASSUME FSInv, Read
  PROVE  FSInv'
<1>1. command = "read" /\ ReadStep /\ UNCHANGED << findVars, data, listed, shown, command >>
  BY DEF Read
<1>2. /\ current_cluster \in Twelve /\ file_buffer \in Seq(Twelve \X Nat) /\ entry \in EntryType
      /\ Len(file_buffer) <= entry.file_size /\ TableOK
  BY DEF FSInv, StateOK, VolumeOK
<1>3. CASE ReadEmpty \/ ReadNoMemory
  <2>1. pc' \in {"done", "null"} /\ UNCHANGED << table, entry, current_cluster, file_buffer >>
    BY <1>3 DEF ReadEmpty, ReadNoMemory
  <2> QED
    BY <1>1, <1>2, <2>1, ReadFrame
<1>4. CASE ReadDone
  <2>1. pc' = "done" /\ UNCHANGED << table, entry, current_cluster, file_buffer >>
    BY <1>4, LastIs
  <2> QED
    BY <1>1, <1>2, <2>1, ReadFrame
<1>5. CASE ReadStart
  <2>1. pc' = "loop" /\ current_cluster' = entry.first_cluster_low
        /\ UNCHANGED << table, entry, file_buffer >>
    BY <1>5 DEF ReadStart
  <2>2. DataClusters \subseteq Twelve
    BY FatNumbers, FatBelow, IsTwelve, SMTT(30) DEF DataClusters
  <2>3. current_cluster' \in Twelve
    BY <1>2, <2>1, <2>2 DEF EntryType
  <2> QED
    BY <1>1, <1>2, <2>1, <2>3, ReadFrame
<1>6. CASE ReadCluster
  <2>1. CopyThenFollow(current_cluster)
    BY <1>6 DEF ReadCluster
  <2>2. /\ pc = "loop" /\ current_cluster' = fs_get_fat_entry(current_cluster)
        /\ UNCHANGED << table, entry, pc >>
    BY <2>1, TurnIs
  <2>3. current_cluster \in Nat
    BY <1>2, TwelveIsNat
  <2>4. current_cluster' \in Twelve
    BY <1>2, <2>2, <2>3, LookupIsTwelve
  <2>5. PICK n : n = ToCopy(entry.file_size - Len(file_buffer))
    OBVIOUS
  <2>6. /\ n \in 0 .. ClusterBytes /\ n <= entry.file_size - Len(file_buffer)
        /\ file_buffer' \in Seq(Twelve \X Nat) /\ Len(file_buffer') = Len(file_buffer) + n
    BY <2>1, <2>5, CopyIs
  <2>7. Len(file_buffer') <= entry.file_size
    <3>1. Len(file_buffer) \in Nat /\ entry.file_size \in Nat /\ ClusterBytes \in Nat
      <4>1. entry.file_size \in Nat
        BY <1>2 DEF EntryType
      <4> QED
        BY <1>2, <4>1, FatNumbers, SMTT(30)
    <3> QED
      BY <2>6, <3>1, SMTT(30)
  <2> QED
    BY <1>1, <2>2, <2>4, <2>6, <2>7, ReadFrame
<1> QED
  BY <1>1, <1>3, <1>4, <1>5, <1>6 DEF ReadStep

\* The other steps of `cat` touch only what is shown and the entry.
LEMMA CatKeeps ==
  ASSUME FSInv, NotFound \/ Open \/ CatPrint \/ NoBuffer \/ UNCHANGED vars
  PROVE  FSInv'
<1>1. UNCHANGED << volume, findVars, listed, current_cluster, file_buffer, pc >>
  BY DEF NotFound, Open, CatPrint, NoBuffer, vars, readVars, findVars, volume
<1>2. VolumeOK' /\ Visible' = Visible /\ \A j : Kind(j)' = Kind(j) /\ (Wanted(j)' <=> Wanted(j))
  BY <1>1, VolumeStays DEF FSInv
<1>3. UNCHANGED << offset, phase, found, filename, root_directory >>
  BY <1>1 DEF findVars
<1>4. WasListed' = WasListed
  BY <1>1 DEF WasListed
<1>5. ListInv'
  <2>1. (command' = command /\ offset' = offset) \/ (command # "ls" /\ command' # "ls")
    BY <1>3 DEF NotFound, Open, CatPrint, NoBuffer, vars
  <2> QED
    BY <1>2, <1>4, <2>1 DEF FSInv, ListInv
<1>6. FindInv'
  BY <1>2, <1>3 DEF FSInv, FindInv
<1>7. CASE Open
  <2>1. command = "find" /\ command' = "read" /\ phase = "done" /\ found # 0 /\ entry' = data[found]
    BY <1>7 DEF Open
  <2>2. pc = "start" /\ file_buffer = << >>
    BY <2>1 DEF FSInv, OrderOK
  <2>3. entry' \in EntryType
    <3>1. found \in 1 .. MaxEntries
      <4>1. found # 0
        BY <2>1
      <4> QED
        BY <4>1, FSRanges, SMTT(30)
    <3> QED
      BY <2>1, <3>1 DEF FSInv, VolumeOK
  <2>4. Len(file_buffer') <= (entry.file_size)'
    <3>1. (entry.file_size)' \in Nat
      BY <2>3 DEF EntryType
    <3>2. \A z \in Nat : Len(<< >>) <= z
      BY SMTT(30)
    <3> QED
      BY <1>1, <2>2, <3>1, <3>2
  <2>5. StateOK'
    BY <1>1, <1>3, <2>1, <2>3, <2>4 DEF FSInv, StateOK
  <2>6. OrderOK'
    BY <1>1, <1>3, <2>1, <2>2 DEF OrderOK, volume
  <2> QED
    BY <1>2, <1>5, <1>6, <2>5, <2>6 DEF FSInv
<1>8. CASE NotFound \/ CatPrint \/ NoBuffer \/ UNCHANGED vars
  <2>1. /\ UNCHANGED << entry, data >>
        /\ UNCHANGED command \/ command' = "prompt"
    BY <1>8 DEF NotFound, CatPrint, NoBuffer, vars, readVars
  <2>2. StateOK'
    BY <1>1, <1>3, <2>1 DEF FSInv, StateOK
  <2>3. OrderOK'
    BY <1>1, <1>3, <2>1 DEF FSInv, OrderOK
  <2> QED
    BY <1>2, <1>5, <1>6, <2>2, <2>3 DEF FSInv
<1> QED
  BY <1>7, <1>8

\* Every step keeps the first part of the invariant.
LEMMA FSKeeps ==
  ASSUME FSInv, [Next]_vars
  PROVE  FSInv'
BY LsStepKeeps, LsDoneKeeps, FindKeeps, ReadKeeps, CatKeeps DEF Next
-------------------------------------------------------------------------------
(* cat: the bytes that are shown *)

\* The chain as a function of the table and the entry.
ChainFrom(t, e) ==
  CHOOSE f : f = [n \in 0 .. Clusters |->
                    IF n = 0 THEN e.first_cluster_low
                    ELSE IF f[n - 1] \in DataClusters THEN t[f[n - 1]] ELSE EndMark]

\* While the entry and the table stay, so does the file.
LEMMA FileStays ==
  ASSUME UNCHANGED << table, entry >>
  PROVE  Chain' = Chain /\ (Sound' <=> Sound) /\ FileBytes' = FileBytes
<1>1. Chain = ChainFrom(table, entry) /\ Chain' = ChainFrom(table', entry')
  <2>1. Chain = ChainFrom(table, entry)
    BY DEF Chain, ChainFrom, EndMark
  <2>2. Chain' = ChainFrom(table', entry')
    BY DEF Chain, ChainFrom, EndMark
  <2> QED
    BY <2>1, <2>2
<1>2. Chain' = Chain
  BY <1>1
<1>3. Needed' = Needed
  BY DEF Needed
<1>4. Ends' <=> Ends
  <2>1. Ends <=> \E n \in 0 .. Clusters : /\ IsEnd(Chain[n])
                                          /\ \A m \in 0 .. n - 1 : Chain[m] \in DataClusters
    BY SMTT(30) DEF Ends, IsEnd
  <2>2. Ends' <=> \E n \in 0 .. Clusters : /\ IsEnd(Chain'[n])
                                           /\ \A m \in 0 .. n - 1 : Chain'[m] \in DataClusters
    BY SMTT(30) DEF Ends, IsEnd
  <2> QED
    BY <1>2, <2>1, <2>2
<1>5. Sound' <=> Sound
  BY <1>2, <1>3, <1>4 DEF Sound
<1>6. FileBytes' = FileBytes
  BY <1>2 DEF FileBytes
<1> QED
  BY <1>2, <1>5, <1>6

\* Rounding up.
LEMMA RoundsUp ==
  ASSUME NEW S \in Nat \ {0}, NEW a \in Nat
  PROVE  /\ (a + S - 1) \div S \in Nat
         /\ \A k \in Nat : (a + S - 1) \div S <= k => a <= k * S
<1> DEFINE q == (a + S - 1) \div S
<1>1. q \in Nat /\ a <= q * S
  BY SMTT(30)
<1> HIDE DEF q
<1>2. \A k \in Nat : q <= k => q * S <= k * S
  BY <1>1, SMTT(30)
<1>3. \A k \in Nat : q <= k => a <= k * S
  BY <1>1, <1>2, SMTT(30)
<1> QED
  BY <1>1, <1>3 DEF q

\* As many clusters as the size asks for hold the file.
LEMMA SizeIsNeeded ==
  ASSUME entry \in EntryType
  PROVE  /\ Needed \in Nat /\ entry.file_size \in Nat
         /\ \A k \in Nat : Needed <= k => entry.file_size <= k * ClusterBytes
<1>1. entry.file_size \in Nat
  BY DEF EntryType
<1>2. ClusterBytes \in Nat \ {0}
  BY FatNumbers, SMTT(30)
<1> QED
  BY <1>1, <1>2, RoundsUp DEF Needed

\* In a chain that ends, after k data clusters there is another one, or the end mark; and
\* then all clusters that the size asks for have been passed.
LEMMA WhereItEnds ==
  ASSUME Sound, entry \in EntryType, NEW k \in 0 .. Clusters,
         \A m \in 0 .. k - 1 : Chain[m] \in DataClusters
  PROVE  /\ ~IsEnd(Chain[k]) => Chain[k] \in DataClusters /\ k + 1 \in 1 .. Clusters
         /\ IsEnd(Chain[k]) => Needed <= k
<1>1. PICK n \in 0 .. Clusters : IsEnd(Chain[n]) /\ \A m \in 0 .. n - 1 : Chain[m] \in DataClusters
  <2>1. Ends <=> \E n \in 0 .. Clusters : /\ IsEnd(Chain[n])
                                          /\ \A m \in 0 .. n - 1 : Chain[m] \in DataClusters
    BY SMTT(30) DEF Ends, IsEnd
  <2> QED
    BY <2>1 DEF Sound
<1>2. \A c \in DataClusters : ~IsEnd(c)
  BY FatNumbers, FatBelow, SMTT(30) DEF DataClusters, IsEnd
<1>3. n \in Int /\ k \in Int /\ Clusters \in Nat /\ k \in Nat
  BY FatNumbers, SMTT(30)
<1>4. ~(n < k)
  <2>1. n < k => n \in 0 .. k - 1
    BY <1>3, SMTT(30)
  <2> QED
    BY <1>1, <1>2, <2>1
<1>5. ASSUME ~IsEnd(Chain[k]) PROVE Chain[k] \in DataClusters /\ k + 1 \in 1 .. Clusters
  <2>1. k # n
    BY <1>1, <1>5
  <2>2. k \in 0 .. n - 1 /\ k + 1 \in 1 .. Clusters
    BY <1>3, <1>4, <2>1, SMTT(30)
  <2> QED
    BY <1>1, <2>2
<1>6. ASSUME IsEnd(Chain[k]) PROVE Needed <= k
  <2>1. ~(k \in 0 .. Needed - 1)
    BY <1>2, <1>6 DEF Sound
  <2>2. Needed \in Nat
    BY SizeIsNeeded
  <2> QED
    BY <1>3, <2>1, <2>2, SMTT(30)
<1> QED
  BY <1>5, <1>6

\* A sequence is a function on the numbers up to its length.
LEMMA SeqIsFunction ==
  ASSUME NEW S, NEW s \in Seq(S)
  PROVE  Len(s) \in Nat /\ DOMAIN s = 1 .. Len(s) /\ s = [i \in 1 .. Len(s) |-> s[i]]
BY SMTT(30)

\* The buffer is the file once it has its length and its bytes.
LEMMA BufferIsTheFile ==
  ASSUME StateOK, Len(file_buffer) = entry.file_size,
         \A i \in 1 .. Len(file_buffer) : file_buffer[i] = FileBytes[i]
  PROVE  file_buffer = FileBytes
<1>1. file_buffer = [i \in 1 .. entry.file_size |-> file_buffer[i]]
  BY SeqIsFunction DEF StateOK
<1>2. FileBytes = [i \in 1 .. entry.file_size |-> FileBytes[i]]
  BY DEF FileBytes
<1> HIDE DEF FileBytes
<1> QED
  BY <1>1, <1>2

\* One turn of the loop copies the next cluster of the chain.
LEMMA CopiesTheNext ==
  ASSUME FSInv, TableIsWhole, Sound, ReadCluster, NEW k \in 0 .. Clusters, Copied(k)
  PROVE  k + 1 \in 0 .. Clusters /\ Copied(k + 1)'
<1>1. /\ CopyThenFollow(current_cluster)
      /\ TableOK /\ entry \in EntryType /\ file_buffer \in Seq(Twelve \X Nat)
  BY DEF ReadCluster, FSInv, VolumeOK, StateOK
<1>2. /\ ~IsEnd(current_cluster) /\ current_cluster' = fs_get_fat_entry(current_cluster)
      /\ UNCHANGED << table, entry >>
  <2>1. current_cluster \in Nat
    <3>1. current_cluster \in Twelve
      BY DEF FSInv, StateOK
    <3> QED
      BY <3>1, TwelveIsNat
  <2> QED
    <3>1. Below(current_cluster) => ~IsEnd(current_cluster)
      BY <2>1, SMTT(30) DEF Below, IsEnd
    <3> QED
      BY <1>1, <3>1, TurnIs
<1>3. Chain' = Chain /\ FileBytes' = FileBytes
  BY <1>2, FileStays
<1>4. Chain[k] = current_cluster /\ \A m \in 0 .. k - 1 : Chain[m] \in DataClusters
  BY DEF Copied
<1>5. Chain[k] \in DataClusters /\ k + 1 \in 1 .. Clusters
  BY <1>1, <1>2, <1>4, WhereItEnds
<1>6. k \in Nat /\ k + 1 \in 0 .. Clusters /\ (k + 1) - 1 = k
  BY <1>5, FatNumbers, SMTT(30)
<1>7. current_cluster' = Chain[k + 1]
  <2>1. fs_get_fat_entry(Chain[k]) = table[Chain[k]]
    BY <1>1, <1>5, LookupIsRight
  <2>2. PICK x : x = k + 1
    OBVIOUS
  <2>3. x \in 1 .. Clusters /\ x - 1 = k
    BY <1>5, <1>6, <2>2
  <2>4. Chain[x] = table[Chain[k]]
    BY <1>5, <2>3, ChainIs
  <2> QED
    BY <1>2, <1>4, <2>1, <2>2, <2>4
<1>8. ASSUME NEW m \in 0 .. (k + 1) - 1 PROVE Chain[m] \in DataClusters
  <2>1. m = k \/ m \in 0 .. k - 1
    BY <1>6, SMTT(30)
  <2> QED
    BY <1>4, <1>5, <2>1
<1> DEFINE p == k * ClusterBytes
           size == entry.file_size
           L == Len(file_buffer)
           n == ToCopy(size - L)
<1>9. /\ ClusterBytes \in Nat \ {0} /\ size \in Nat /\ p \in Nat
      /\ (k + 1) * ClusterBytes = p + ClusterBytes
  <2>1. size \in Nat
    BY <1>1 DEF EntryType
  <2>2. ClusterBytes \in Nat \ {0}
    BY FatNumbers, SMTT(30)
  <2> QED
    BY <1>6, <2>1, <2>2, SMTT(30)
<1>10. L = IF p < size THEN p ELSE size
  BY DEF Copied
<1>11. n = IF size - L > ClusterBytes THEN ClusterBytes ELSE size - L
  BY DEF ToCopy
<1>12. /\ Len(file_buffer') = L + n
       /\ \A i \in 1 .. L : file_buffer'[i] = file_buffer[i]
       /\ \A j \in 1 .. n : file_buffer'[L + j] = << current_cluster, j >>
  BY <1>1, CopyIs
<1>13. \A i \in 1 .. L : file_buffer[i] = FileBytes[i]
  BY DEF Copied
<1>14. ASSUME NEW i \in 1 .. size
       PROVE  FileBytes[i] = << Chain[(i - 1) \div ClusterBytes], ((i - 1) % ClusterBytes) + 1 >>
  BY DEF FileBytes
<1> HIDE DEF p, size, L, n
<1>15. /\ L \in Nat /\ n \in Nat /\ n <= ClusterBytes
       /\ L + n = IF p + ClusterBytes < size THEN p + ClusterBytes ELSE size
       /\ n > 0 => L = p
  BY <1>9, <1>10, <1>11, SMTT(30)
<1>16. ASSUME NEW j \in 1 .. n PROVE FileBytes[L + j] = << current_cluster, j >>
  <2>1. /\ j \in 1 .. ClusterBytes /\ L + j \in 1 .. size /\ L = p
        /\ (L + j) - 1 = p + j - 1 /\ (j - 1) + 1 = j
    BY <1>9, <1>15, SMTT(30)
  <2>2. (p + j - 1) \div ClusterBytes = k /\ (p + j - 1) % ClusterBytes = j - 1
    BY <1>6, <1>9, <2>1, ByteOfCluster DEF p
  <2>3. FileBytes[L + j] = << Chain[(p + j - 1) \div ClusterBytes],
                             ((p + j - 1) % ClusterBytes) + 1 >>
    BY <1>14, <2>1
  <2> QED
    BY <1>4, <2>1, <2>2, <2>3
<1>17. ASSUME NEW i \in 1 .. L + n PROVE file_buffer'[i] = FileBytes[i]
  <2>1. i \in 1 .. L \/ \E j \in 1 .. n : i = L + j
    <3>1. i \in 1 .. L \/ (i - L \in 1 .. n /\ i = L + (i - L))
      BY <1>15, SMTT(30)
    <3> QED
      BY <3>1
  <2> QED
    BY <1>12, <1>13, <1>16, <2>1
<1>18. Len(file_buffer') = IF (k + 1) * ClusterBytes < size THEN (k + 1) * ClusterBytes ELSE size
  BY <1>9, <1>12, <1>15
<1>19. size = entry.file_size
  BY DEF size
<1> QED
  BY <1>2, <1>3, <1>6, <1>7, <1>8, <1>12, <1>17, <1>18, <1>19 DEF Copied

\* Every step keeps the second part of the invariant.
LEMMA ReadInvKeeps ==
  ASSUME FSInv, TableIsWhole, ReadInv, [Next]_vars
  PROVE  ReadInv'
<1>1. CASE pc' \in {"start", "null"}
  BY <1>1 DEF ReadInv
<1>2. CASE UNCHANGED vars
  <2>1. UNCHANGED << table, entry, current_cluster, file_buffer, pc, shown, command >>
    BY <1>2 DEF vars, readVars
  <2>2. Chain' = Chain /\ (Sound' <=> Sound) /\ FileBytes' = FileBytes
    BY <2>1, FileStays
  <2>3. ASSUME NEW k PROVE Copied(k)' <=> Copied(k)
    BY <2>1, <2>2 DEF Copied
  <2> QED
    BY <2>1, <2>2, <2>3 DEF ReadInv
<1>3. CASE LsPrint \/ LsSkip \/ LsDone \/ Find \/ NotFound \/ Open
  <2>1. command \in {"ls", "find"} /\ pc' = pc
    BY <1>3 DEF LsPrint, LsSkip, LsDone, LsAt, LsNext, Find, NotFound, Open, readVars
  <2> QED
    BY <1>1, <2>1 DEF FSInv, OrderOK
<1>4. CASE NoBuffer
  BY <1>1, <1>4 DEF NoBuffer, readVars
<1>5. CASE CatPrint
  <2>1. /\ pc = "done" /\ UNCHANGED << table, entry, file_buffer, pc >>
        /\ shown' = [i \in 1 .. entry.file_size |->
                       IF i <= Len(file_buffer) THEN file_buffer[i] ELSE Stale]
    BY <1>5 DEF CatPrint, readVars
  <2>2. (Sound' <=> Sound) /\ FileBytes' = FileBytes
    BY <2>1, FileStays
  <2>3. ASSUME Sound PROVE shown' = FileBytes
    <3>1. file_buffer = FileBytes
      BY <2>1, <2>3 DEF ReadInv
    <3>2. Len(file_buffer) = entry.file_size
      <4>1. /\ entry.file_size \in Nat /\ Len(file_buffer) \in Nat
            /\ DOMAIN file_buffer = 1 .. Len(file_buffer)
        <5>1. entry \in EntryType /\ file_buffer \in Seq(Twelve \X Nat)
          BY DEF FSInv, StateOK
        <5> QED
          BY <5>1, SizeIsNeeded, SeqIsFunction
      <4>2. DOMAIN file_buffer = 1 .. entry.file_size
        BY <3>1 DEF FileBytes
      <4> QED
        BY <4>1, <4>2, SMTT(30)
    <3>3. \A i \in 1 .. Len(file_buffer) : i <= Len(file_buffer)
      BY SMTT(30)
    <3>4. FileBytes = [i \in 1 .. entry.file_size |-> FileBytes[i]]
      BY DEF FileBytes
    <3> QED
      BY <2>1, <3>1, <3>2, <3>3, <3>4
  <2>4. ASSUME Sound PROVE file_buffer' = FileBytes
    BY <2>1, <2>4 DEF ReadInv
  <2> QED
    BY <2>1, <2>2, <2>3, <2>4 DEF ReadInv
<1>6. CASE Read
  <2>1. command = "read" /\ command' = "read" /\ ReadStep
    BY <1>6 DEF Read
  <2>2. StateOK /\ entry \in EntryType
    BY DEF FSInv, StateOK
  <2>3. CASE ReadNoMemory
    BY <1>1, <2>3 DEF ReadNoMemory
  <2>4. CASE ReadEmpty
    <3>1. /\ pc = "start" /\ pc' = "done" /\ entry.file_size = 0
          /\ UNCHANGED << table, entry, file_buffer >>
      BY <2>4 DEF ReadEmpty
    <3>2. file_buffer = << >>
      BY <3>1 DEF FSInv, OrderOK
    <3>3. Len(file_buffer) = 0 /\ \A i \in 1 .. Len(file_buffer) : FALSE
      BY <3>2, SMTT(30)
    <3>4. file_buffer = FileBytes
      BY <2>2, <3>1, <3>3, BufferIsTheFile
    <3>5. FileBytes' = FileBytes
      BY <3>1, FileStays
    <3> QED
      BY <2>1, <3>1, <3>4, <3>5 DEF ReadInv
  <2>5. CASE ReadStart
    <3>1. /\ pc = "start" /\ pc' = "loop" /\ entry.file_size > 0
          /\ current_cluster' = entry.first_cluster_low /\ UNCHANGED << table, entry, file_buffer >>
      BY <2>5 DEF ReadStart
    <3>2. Chain' = Chain
      BY <3>1, FileStays
    <3>3. file_buffer' = << >>
      BY <3>1 DEF FSInv, OrderOK
    <3>4. /\ Len(<< >>) = 0 /\ 0 * ClusterBytes = 0 /\ 0 < entry.file_size
          /\ (\A i \in 1 .. 0 : FALSE) /\ (\A m \in 0 .. 0 - 1 : FALSE) /\ 0 \in 0 .. Clusters
      <4>1. entry.file_size \in Nat
        BY <2>2, SizeIsNeeded
      <4> QED
        BY <3>1, <4>1, FatNumbers, SMTT(30)
    <3>5. current_cluster' = Chain[0]
      BY <3>1, ChainIs
    <3>6. Len(file_buffer') = 0
      BY <3>3, <3>4
    <3>7. Copied(0)'
      BY <3>1, <3>2, <3>4, <3>5, <3>6 DEF Copied
    <3> QED
      BY <3>1, <3>4, <3>7 DEF ReadInv
  <2>6. CASE ReadCluster
    <3>1. pc = "loop" /\ pc' = "loop" /\ UNCHANGED << table, entry >>
      BY <2>6, TurnIs DEF ReadCluster
    <3>2. Sound' <=> Sound
      BY <3>1, FileStays
    <3>3. ASSUME Sound PROVE \E k \in 0 .. Clusters : Copied(k)'
      <4>1. PICK k \in 0 .. Clusters : Copied(k)
        BY <3>1, <3>3 DEF ReadInv
      <4> QED
        BY <2>6, <3>3, <4>1, CopiesTheNext
    <3> QED
      BY <3>1, <3>2, <3>3 DEF ReadInv
  <2>7. CASE ReadDone
    <3>1. /\ pc = "loop" /\ pc' = "done" /\ IsEnd(current_cluster)
          /\ UNCHANGED << table, entry, file_buffer >>
      BY <2>7, LastIs
    <3>2. (Sound' <=> Sound) /\ FileBytes' = FileBytes
      BY <3>1, FileStays
    <3>3. ASSUME Sound PROVE file_buffer = FileBytes
      <4>1. PICK k \in 0 .. Clusters : Copied(k)
        BY <3>1, <3>3 DEF ReadInv
      <4>2. Needed <= k
        BY <2>2, <3>1, <3>3, <4>1, WhereItEnds DEF Copied
      <4>3. k \in Nat /\ entry.file_size \in Nat /\ entry.file_size <= k * ClusterBytes
        <5>1. k \in Nat
          BY FatNumbers, SMTT(30)
        <5> QED
          BY <2>2, <4>2, <5>1, SizeIsNeeded
      <4>4. ~(k * ClusterBytes < entry.file_size)
        <5>1. \A a, b \in Nat : a * b \in Nat /\ (a <= b => ~(b < a))
          BY SMTT(30)
        <5>2. ClusterBytes \in Nat
          BY FatNumbers, SMTT(30)
        <5> QED
          BY <4>3, <5>1, <5>2
      <4>5. Len(file_buffer) = entry.file_size
        BY <4>1, <4>4 DEF Copied
      <4> QED
        BY <2>2, <4>1, <4>5, BufferIsTheFile DEF Copied
    <3> QED
      BY <2>1, <3>1, <3>2, <3>3 DEF ReadInv
  <2> QED
    BY <2>1, <2>3, <2>4, <2>5, <2>6, <2>7 DEF ReadStep
<1> QED
  BY <1>2, <1>3, <1>4, <1>5, <1>6 DEF Next
-------------------------------------------------------------------------------
(* What follows from the invariant *)

\* The buffer is large enough.
LEMMA TypeFollows ==
  ASSUME FSInv
  PROVE  TypeOK
<1>1. /\ current_cluster \in Twelve /\ Len(file_buffer) <= entry.file_size
      /\ pc \in {"start", "loop", "done", "null"}
  BY DEF FSInv, StateOK
<1>2. TypeOK <=> /\ current_cluster \in Twelve /\ Len(file_buffer) <= entry.file_size
                 /\ pc \in {"start", "loop", "done", "null"}
  BY SMTT(30) DEF TypeOK, Twelve
<1> QED
  BY <1>1, <1>2

\* What is found has the name, if something has.
LEMMA FoundFollows ==
  ASSUME FSInv
  PROVE  FindsTheFile
<1>1. VolumeOK /\ FindInv
  BY DEF FSInv
<1>2. ASSUME NEW i \in Files PROVE i \in Visible /\ Names(filename, root_directory[i].name)
  BY <1>1 DEF Files, Visible, VolumeOK, Kind
<1>3. ASSUME NEW i \in Visible, Names(filename, root_directory[i].name) PROVE i \in Files
  BY <1>1, <1>3 DEF Files, Visible, VolumeOK, Kind
<1>4. ASSUME phase = "done", NEW i \in Files PROVE found \in Files
  <2>1. found # 0
    BY <1>1, <1>2, <1>4 DEF FindInv
  <2>2. found \in Visible /\ root_directory[found].name = fat_name(filename)
    BY <1>1, <1>4, <2>1 DEF FindInv, Wanted
  <2>3. root_directory[i].name = fat_name(filename)
    BY <1>1, <1>2, NamesMatch DEF VolumeOK
  <2>4. Names(filename, root_directory[found].name)
    BY <1>2, <2>2, <2>3
  <2> QED
    BY <1>3, <2>2, <2>4
<1> QED
  BY <1>4 DEF FindsTheFile

\* What is found was listed, and what was listed is found.
LEMMA ListedFollows ==
  ASSUME FSInv
  PROVE  ListedIsFound
<1>1. FindInv /\ ListInv /\ OrderOK
  BY DEF FSInv
<1>2. ASSUME phase = "done" PROVE WasListed = Visible
  BY <1>1, <1>2 DEF ListInv, OrderOK
<1>3. WasListed = {listed[k] : k \in DOMAIN listed}
  BY DEF WasListed, Elements
<1>4. ASSUME phase = "done", found # 0 PROVE found \in WasListed
  BY <1>1, <1>2, <1>4 DEF FindInv
<1>5. ASSUME phase = "done", NEW i \in WasListed, Names(filename, root_directory[i].name)
      PROVE  found # 0
  BY <1>1, <1>2, <1>5 DEF FindInv
<1> QED
  BY <1>3, <1>4, <1>5 DEF ListedIsFound

\* What is shown is the file that was asked for.
LEMMA ShownFollows ==
  ASSUME FSInv, ReadInv
  PROVE  CatShowsTheFile
<1>1. ASSUME command = "prompt", pc = "done", Files # {}, Sound
      PROVE  (\E i \in Files : entry = data[i]) /\ shown = FileBytes
  <2>1. phase = "done" /\ entry = data[found]
    BY <1>1 DEF FSInv, OrderOK
  <2>2. found \in Files
    BY <1>1, <2>1, FoundFollows DEF FindsTheFile
  <2> QED
    BY <1>1, <2>1, <2>2 DEF ReadInv
<1> QED
  BY <1>1 DEF CatShowsTheFile
-------------------------------------------------------------------------------
(* Theorems *)

\* Every state satisfies the first part of the invariant.
LEMMA FSInvariance == Spec => []FSInv
<1>1. Init => FSInv
  BY FSStarts
<1>2. FSInv /\ [Next]_vars => FSInv'
  BY FSKeeps
<1> QED
  BY <1>1, <1>2, PTL DEF Spec

\* On any table, damaged or not, the cluster numbers that fs_read_file() follows are 12
\* bits wide, and it never copies more than the file_size for which the buffer was
\* allocated.
THEOREM CopyStaysInTheBuffer == Spec => []TypeOK
<1>1. FSInv => TypeOK
  BY TypeFollows
<1> QED
  BY <1>1, FSInvariance, PTL

\* fs_find_file() finds a file by its 8.3 name in either case, whatever deleted entries,
\* long-name parts and labels stand before it.
THEOREM FileIsFound == Spec => []FindsTheFile
<1>1. FSInv => FindsTheFile
  BY FoundFollows
<1> QED
  BY <1>1, FSInvariance, PTL

\* `ls` and `cat` agree: what `ls` lists, `cat` finds by its 8.3 name, and it finds
\* nothing that was not listed.
THEOREM ListedFilesAreFound == Spec => []ListedIsFound
<1>1. FSInv => ListedIsFound
  BY ListedFollows
<1> QED
  BY <1>1, FSInvariance, PTL

\* `cat` of the 8.3 name of a file prints that file, all of it and in order, when its chain
\* is sound and the table reaches to the last cluster: however the entries share bytes,
\* wherever the clusters lie and whatever the size.
THEOREM CatIsRight == TableIsWhole /\ Spec => []CatShowsTheFile
<1>1. FSInv /\ ReadInv => CatShowsTheFile
  BY ShownFollows
<1>2. Init => ReadInv
  BY FSStarts
<1>3. TableIsWhole /\ FSInv /\ ReadInv /\ [Next]_vars => ReadInv'
  BY ReadInvKeeps
<1>4. TableIsWhole => TableIsWhole'
  BY DEF TableIsWhole
<1> QED
  BY <1>1, <1>2, <1>3, <1>4, FSInvariance, PTL DEF Spec

\* The volumes of Init are those that TLC can enumerate: any table or any directory.  This
\* is any table and any directory, with any sizes and first clusters, and any name typed.
AnyVolume ==
  /\ table \in [DataClusters -> Twelve]
  /\ data \in [1 .. MaxEntries -> EntryType]
  /\ filename \in Seq(Typed)
  /\ root_directory \in [1 .. MaxEntries -> DirEntries]
  /\ entry = [file_size |-> 0, first_cluster_low |-> 2]
  /\ current_cluster = 0 /\ file_buffer = << >> /\ pc = "start"
  /\ offset = 1 /\ phase = "convert" /\ found = 0
  /\ listed = << >> /\ shown = << >> /\ command = "ls"

\* They satisfy the invariant too.
LEMMA AnyVolumeStarts ==
  ASSUME AnyVolume
  PROVE  FSInv /\ ReadInv
<1>1. MaxEntries \in Nat /\ Clusters \in Nat \ {0} /\ 0 \in Twelve
  BY FatNumbers, NameAssumption, IsTwelve, SMTT(30)
<1>2. VolumeOK
  <2>1. root_directory \in [1 .. MaxEntries -> DirEntries]
    BY DEF AnyVolume
  <2>2. DOMAIN root_directory = 1 .. MaxEntries /\ Len(root_directory) = MaxEntries
    BY <1>1, <2>1, FunctionIsSeq
  <2>3. \A j \in 1 .. MaxEntries : Kind(j) \in Kinds
    BY <2>1 DEF Kind, DirEntries
  <2> QED
    BY <2>2, <2>3 DEF AnyVolume, VolumeOK, TableOK
<1>3. StateOK
  <2>1. /\ 2 \in DataClusters /\ 0 \in Nat /\ Len(<< >>) <= 0
        /\ << >> \in Seq(Twelve \X Nat) /\ << >> \in Seq(1 .. MaxEntries)
        /\ 1 \in 1 .. MaxEntries + 1 /\ 0 \in 0 .. MaxEntries
    BY <1>1, SMTT(30) DEF DataClusters
  <2>2. entry = [file_size |-> 0, first_cluster_low |-> 2] /\ file_buffer = << >>
    BY DEF AnyVolume
  <2>3. entry \in EntryType /\ Len(file_buffer) <= entry.file_size
    BY <2>1, <2>2 DEF EntryType
  <2> QED
    BY <1>1, <2>1, <2>3 DEF AnyVolume, StateOK
<1>4. OrderOK /\ FindInv /\ ReadInv
  BY DEF AnyVolume, OrderOK, FindInv, ReadInv
<1>5. ListInv
  <2>1. DOMAIN << >> = {} /\ \A j \in 1 .. 1 - 1 : FALSE
    BY SMTT(30)
  <2>2. WasListed = {}
    BY <2>1 DEF AnyVolume, WasListed, Elements
  <2> QED
    BY <2>1, <2>2 DEF AnyVolume, ListInv
<1> QED
  BY <1>2, <1>3, <1>4, <1>5 DEF FSInv

\* `ls` and `cat` are right on any volume and for any name: the buffer is never overrun,
\* what is listed is found, and what is shown is the file.
THEOREM RightOnAnyVolume ==
  TableIsWhole /\ AnyVolume /\ [][Next]_vars =>
    [](TypeOK /\ FindsTheFile /\ ListedIsFound /\ CatShowsTheFile)
<1>1. AnyVolume => FSInv /\ ReadInv
  BY AnyVolumeStarts
<1>2. FSInv /\ [Next]_vars => FSInv'
  BY FSKeeps
<1>3. TableIsWhole /\ FSInv /\ ReadInv /\ [Next]_vars => ReadInv'
  BY ReadInvKeeps
<1>4. TableIsWhole => TableIsWhole'
  BY DEF TableIsWhole
<1>5. FSInv /\ ReadInv => TypeOK /\ FindsTheFile /\ ListedIsFound /\ CatShowsTheFile
  BY TypeFollows, FoundFollows, ListedFollows, ShownFollows
<1> QED
  BY <1>1, <1>2, <1>3, <1>4, <1>5, PTL
===============================================================================
