----------------------------- MODULE MemoryProofs -----------------------------
(***************************************************************************)
(* Proofs about physical frames, for any amount of memory, any number of   *)
(* slots and any sizes of heap, images and stacks: no frame has two owners *)
(* or is free while it is owned, none is forgotten, and a program that     *)
(* runs has all its pages.                                                 *)
(***************************************************************************)
EXTENDS Memory, WellFoundedInduction, TLAPS

\* Leaves are for Zenon unless they name SMT, which those with arithmetic do.
USE ZenonT(40)

\* pmm_alloc_frame() takes the first free frame: a non-empty set of naturals has a
\* least element.
LEMMA LeastExists ==
  ASSUME NEW S \in SUBSET Nat, S # {}
  PROVE  \E x \in S : \A y \in S : x <= y
<1> DEFINE Less == {ss \in Nat \X Nat : ss[1] < ss[2]}
<1>1. IsWellFoundedOn(Less, Nat)
  BY NatLessThanWellFounded DEF OpToRel
<1>2. ASSUME NEW x \in Nat, NEW y \in Nat PROVE <<y, x>> \in Less <=> y < x
  BY SMT
<1> HIDE DEF Less
<1>3. PICK x \in S : \A y \in S : ~(<<y, x>> \in Less)
  BY <1>1, WFMin
<1>4. \A y \in S : ~(y < x)
  BY <1>2, <1>3
<1> QED
  BY <1>4, SMT

\* The places that refer to a frame, by kind, without those that are NULL.
BootRefs == {<<0, "boot", f, f>> : f \in BootFrames \cup FsFrames}
HeapRefs(h) == {<<0, "heap", i, h[i]>> : i \in 1 .. Len(h)}
TempRefs(t) == {r \in {<<0, "temp", 0, t>>} : r[4] # NULL}
UserRefs(o, s) == {r \in SpaceRefs(o, s) : r[4] # NULL}
ProcRefs(p, x) == UserRefs(p, x.space)
                  \cup {r \in {<<p, "kstk", 0, x.kstk>>} : r[4] # NULL}
Others(h, t, x) ==
  BootRefs \cup HeapRefs(h) \cup TempRefs(t) \cup (UNION {ProcRefs(p, x[p]) : p \in Slots})
AllRefs(h, t, s, x) == Others(h, t, x) \cup UserRefs(1, s)

\* The books are right: R is what refers to frames, U the bitmap and L what was
\* dropped.  Frame 0 stands outside of them, because `kill` may free it and
\* pmm_alloc_frame() may hand it out as NULL.
Books(R, U, L) ==
  /\ U \subseteq Frame
  /\ 1 .. Reserved - 1 \subseteq U
  /\ \A r \in R : r[4] \in U /\ r[4] >= Reserved
  /\ \A r1, r2 \in R : r1[4] = r2[4] => r1 = r2
  /\ \A f \in L : f \in U /\ f >= Reserved /\ \A r \in R : r[4] # f
  /\ \A f \in U : f >= Reserved => f \in L \/ \E r \in R : r[4] = f

\* The pages of a part beyond the n-th are not mapped.
EmptyBeyond(s, part, n) == \A i \in n + 1 .. MaxPages : s.map[<<part, i>>] = NULL

\* A part that has pages has their table.
HasTable(s, part) ==
  \A i \in 1 .. MaxPages : s.map[<<part, i>>] # NULL => s.map[<<part, 0>>] # NULL

\* A part that has its first n pages and no other.
Complete(s, part, n) ==
  /\ \A i \in 1 .. n : s.map[<<part, i>>] # NULL
  /\ EmptyBeyond(s, part, n) /\ HasTable(s, part)

Parts == {"img", "stk"}

\* s2 is s with page i of a part and its table mapped, or s itself.
OnlyPage(s, s2, part, i) ==
  /\ \A w \in Places : w # <<part, i>> /\ w # <<part, 0>> => s2.map[w] = s.map[w]
  /\ s2 = s \/ (s2.map[<<part, 0>>] # NULL /\ s2.map[<<part, i>>] # NULL)

\* Seen from the pages: the other pages and the other part are as they were.
OthersKept(s, s2, part, i) ==
  /\ \A j \in 1 .. MaxPages : j # i => s2.map[<<part, j>>] = s.map[<<part, j>>]
  /\ \A q \in Parts, j \in 0 .. MaxPages : q # part => s2.map[<<q, j>>] = s.map[<<q, j>>]

\* How far exec_program() has come with the address space it builds.
Building ==
  /\ pc \in {"shell", "wait"} => space = NoSpace
  /\ pc = "load" =>
       /\ done < size
       /\ EmptyBeyond(space, "img", done) /\ HasTable(space, "img")
       /\ \A i \in 0 .. MaxPages : space.map[<<"stk", i>>] = NULL
  /\ pc \in {"stack", "slot"} /\ fate = "ok" => Complete(space, "img", size)
  /\ pc = "stack" =>
       /\ done < StackPages
       /\ EmptyBeyond(space, "stk", done) /\ HasTable(space, "stk")
       /\ space.map[<<"stk", 1>>] # NULL =>
            \A i \in 1 .. done : space.map[<<"stk", i>>] # NULL
  /\ pc = "slot" /\ fate = "ok" => Complete(space, "stk", StackPages)

\* A free slot refers to nothing, and a program that runs has all its pages.
SlotsOK ==
  \A p \in Slots :
    /\ proc[p].st = "UNUSED" => proc[p] = NoProc
    /\ proc[p].st = "RUNNING" =>
         /\ \E n \in 0 .. MaxPages : Complete(proc[p].space, "img", n)
         /\ Complete(proc[p].space, "stk", StackPages)

\* The inductive invariant.
IInv ==
  /\ TypeOK
  /\ Books(AllRefs(heap, temp, space, proc), used, lost)
  /\ Building /\ SlotsOK
-------------------------------------------------------------------------------
(* The allocator *)

\* pmm_alloc_frame() returns NULL or a free frame, which is not a reserved one,
\* and marks it.
LEMMA AllocFacts ==
  ASSUME NEW u \in SUBSET Frame, 1 .. Reserved - 1 \subseteq u
  PROVE  /\ Alloc(u) \in Frame /\ Mark(u) \in SUBSET Frame
         /\ 1 .. Reserved - 1 \subseteq Mark(u)
         /\ Alloc(u) # NULL => Alloc(u) \notin u /\ Alloc(u) >= Reserved
  <1>1. 0 \in Frame BY FrameAssumption, SMTT(30) DEF Frame
  <1>2. CASE Frame \subseteq u
    BY <1>1, <1>2 DEF Alloc, Mark, NULL
  <1>3. CASE ~(Frame \subseteq u)
    <2> DEFINE S == Frame \ u
    <2>1. S \in SUBSET Nat /\ S # {} BY <1>3, FrameAssumption, SMTT(30) DEF Frame
    <2> HIDE DEF S
    <2>2. \E f \in S : \A g \in S : f <= g BY <2>1, LeastExists
    <2>3. Alloc(u) = CHOOSE f \in S : \A g \in S : f <= g BY <1>3 DEF Alloc, S
    <2>4. Alloc(u) \in S BY <2>2, <2>3
    <2>5. Alloc(u) \in Frame /\ Alloc(u) \notin u BY <2>4 DEF S
    <2>6. Alloc(u) # NULL => Alloc(u) >= Reserved
      BY <2>5, FrameAssumption, SMTT(30) DEF Frame, NULL
    <2> QED BY <2>5, <2>6 DEF Mark
  <1> QED BY <1>2, <1>3
-------------------------------------------------------------------------------
(* The books *)

\* A free frame gets its first reference.
LEMMA AddOne ==
  ASSUME NEW R, NEW U, NEW L, Books(R, U, L), NEW r, NEW f \in Frame,
         r[4] = f, f \notin U, f >= Reserved
  PROVE  Books(R \cup {r}, U \cup {f}, L)
  BY SMTT(30) DEF Books

\* Frame 0 is marked, as the NULL that pmm_alloc_frame() returns.
LEMMA AddNone ==
  ASSUME NEW R, NEW U, NEW L, Books(R, U, L)
  PROVE  Books(R, U \cup {0}, L)
  BY FrameAssumption, SMTT(30) DEF Books, Frame

\* A free frame is taken and dropped.
LEMMA Lose ==
  ASSUME NEW R, NEW U, NEW L, Books(R, U, L), NEW f \in Frame, f \notin U, f >= Reserved
  PROVE  Books(R, U \cup {f}, L \cup {f})
  BY SMTT(30) DEF Books

\* References are dropped and exactly their frames are freed, with or without
\* frame 0.
LEMMA Drop ==
  ASSUME NEW R, NEW U, NEW L, Books(R, U, L), NEW R2, NEW F,
         R2 \subseteq R,
         \A r \in R : r \in R2 <=> r[4] \notin F,
         \A f \in F : f = 0 \/ \E r \in R : r[4] = f
  PROVE  Books(R2, U \ F, L)
  <1>1. \A f \in F : f = 0 \/ f >= Reserved BY SMTT(30) DEF Books
  <1>2. \A f \in L : f \notin F BY FrameAssumption, SMTT(30) DEF Books
  <1>3. 1 .. Reserved - 1 \subseteq U \ F BY <1>1, FrameAssumption, SMTT(30) DEF Books
  <1> QED BY <1>2, <1>3 DEF Books

\* Frames pass from one reference to another, one to one.
LEMMA Rename ==
  ASSUME NEW R, NEW U, NEW L, Books(R, U, L), NEW R2,
         \A r \in R2 : \E q \in R : q[4] = r[4],
         \A q \in R : \E r \in R2 : q[4] = r[4],
         \A r1, r2 \in R2 : r1[4] = r2[4] => r1 = r2
  PROVE  Books(R2, U, L)
  BY SMTT(30) DEF Books
-------------------------------------------------------------------------------
(* References *)

\* The references of an address space: its directory and its places.
LEMMA InUserRefs ==
  ASSUME NEW o, NEW s, NEW r
  PROVE  r \in UserRefs(o, s) <=>
           /\ r[4] # NULL
           /\ \/ r = <<o, "dir", 0, s.dir>>
              \/ \E v \in Places : r = <<o, v[1], v[2], s.map[v]>>
  BY DEF UserRefs, SpaceRefs

\* They carry the owner, and their frames are those paging_free_directory() frees.
LEMMA UserFacts ==
  ASSUME NEW o, NEW s
  PROVE  /\ \A r \in UserRefs(o, s) : r[1] = o /\ r[4] \in FramesOf(s)
         /\ \A f \in FramesOf(s) : \E r \in UserRefs(o, s) : r[4] = f
  <1>1. \A r \in UserRefs(o, s) : r[1] = o /\ r[4] \in FramesOf(s)
    BY SMTT(30) DEF UserRefs, SpaceRefs, FramesOf
  <1>2. ASSUME NEW f \in FramesOf(s)
        PROVE  \E r \in UserRefs(o, s) : r[4] = f
    <2>1. CASE f = s.dir
      <3>1. <<o, "dir", 0, s.dir>> \in UserRefs(o, s)
        BY <2>1, <1>2 DEF UserRefs, SpaceRefs, FramesOf
      <3> QED BY <3>1, <2>1
    <2>2. CASE f # s.dir
      <3>1. PICK v \in Places : f = s.map[v] BY <2>2, <1>2 DEF FramesOf
      <3>2. <<o, v[1], v[2], s.map[v]>> \in UserRefs(o, s)
        BY <3>1, <1>2 DEF UserRefs, SpaceRefs, FramesOf
      <3> QED BY <3>1, <3>2
    <2> QED BY <2>1, <2>2
  <1> QED BY <1>1, <1>2

\* No address space, no reference.
LEMMA NoUserRefs ==
  ASSUME NEW o
  PROVE  UserRefs(o, NoSpace) = {}
  BY SMTT(30) DEF UserRefs, SpaceRefs, NoSpace

\* An empty place gets a frame.
LEMMA PutPage ==
  ASSUME NEW o, NEW s \in Spaces, NEW v \in Places, NEW f \in Frame,
         s.map[v] = NULL, f # NULL
  PROVE  /\ [s EXCEPT !.map[v] = f] \in Spaces
         /\ UserRefs(o, [s EXCEPT !.map[v] = f])
              = UserRefs(o, s) \cup {<<o, v[1], v[2], f>>}
  <1> DEFINE s2 == [s EXCEPT !.map[v] = f]
  <1>1. s.dir \in Frame /\ s.map \in [Places -> Frame] BY DEF Spaces
  <1>2. s2.dir = s.dir /\ s2.map = [s.map EXCEPT ![v] = f] BY DEF Spaces
  <1>3. s2 \in Spaces BY <1>1, <1>2 DEF Spaces
  <1>4. s2.map[v] = f /\ \A w \in Places : w # v => s2.map[w] = s.map[w]
    BY <1>1, <1>2
  <1> HIDE DEF s2
  <1>5. ASSUME NEW r \in UserRefs(o, s2)
        PROVE  r \in UserRefs(o, s) \cup {<<o, v[1], v[2], f>>}
    <2>1. r[4] # NULL BY InUserRefs
    <2>2. CASE r = <<o, "dir", 0, s2.dir>>
      BY <2>1, <2>2, <1>2, InUserRefs
    <2>3. CASE \E w \in Places : r = <<o, w[1], w[2], s2.map[w]>>
      <3>1. PICK w \in Places : r = <<o, w[1], w[2], s2.map[w]>> BY <2>3
      <3>2. CASE w = v BY <3>1, <3>2, <1>4
      <3>3. CASE w # v BY <2>1, <3>1, <3>3, <1>4, InUserRefs
      <3> QED BY <3>2, <3>3
    <2> QED BY <2>2, <2>3, InUserRefs, SMTT(30)
  <1>6. ASSUME NEW r \in UserRefs(o, s) PROVE r \in UserRefs(o, s2)
    <2>1. r[4] # NULL BY InUserRefs
    <2>2. CASE r = <<o, "dir", 0, s.dir>>
      BY <2>1, <2>2, <1>2, InUserRefs
    <2>3. CASE \E w \in Places : r = <<o, w[1], w[2], s.map[w]>>
      <3>1. PICK w \in Places : r = <<o, w[1], w[2], s.map[w]>> BY <2>3
      <3>2. w # v BY <2>1, <3>1
      <3> QED BY <2>1, <3>1, <3>2, <1>4, InUserRefs
    <2> QED BY <2>2, <2>3, InUserRefs, SMTT(30)
  <1>7. <<o, v[1], v[2], f>> \in UserRefs(o, s2)
    <2>1. <<o, v[1], v[2], f>>[4] = f OBVIOUS
    <2> QED BY <2>1, <1>4, InUserRefs
  <1>8. UserRefs(o, s2) = UserRefs(o, s) \cup {<<o, v[1], v[2], f>>}
    BY <1>5, <1>6, <1>7
  <1> QED BY <1>3, <1>8 DEF s2

\* The other references do not carry owner 1, and those of slot p carry p.
LEMMA OwnerTags ==
  /\ \A r \in BootRefs : r[1] = 0
  /\ \A h : \A r \in HeapRefs(h) : r[1] = 0
  /\ \A t : \A r \in TempRefs(t) : r[1] = 0
  /\ \A p, x : \A r \in ProcRefs(p, x) : r[1] = p
  <1>1. \A p, x : \A r \in ProcRefs(p, x) : r[1] = p
    BY UserFacts, SMTT(30) DEF ProcRefs
  <1> QED BY <1>1, SMTT(30) DEF BootRefs, HeapRefs, TempRefs

\* References of the invariant and of the properties are the same.
LEMMA RefsAreAllRefs ==
  ASSUME TypeOK
  PROVE  Refs = AllRefs(heap, temp, space, proc)
  <1>1. \A r \in BootRefs : r[4] # NULL
    BY FrameAssumption, SMTT(30) DEF BootRefs, BootFrames, FsFrames, NULL
  <1>2. \A r \in HeapRefs(heap) : r[4] # NULL
    BY SMTT(30) DEF HeapRefs, TypeOK
  <1> DEFINE Ps == UNION {ProcRefs(p, proc[p]) : p \in Slots}
  <1>3. ASSUME NEW r PROVE r \in Ps <=> r \in ProgramRefs /\ r[4] # NULL
    <2>1. ASSUME NEW p \in Slots
          PROVE  r \in ProcRefs(p, proc[p]) <=>
                   /\ r \in SpaceRefs(p, proc[p].space) \/ r = <<p, "kstk", 0, proc[p].kstk>>
                   /\ r[4] # NULL
      BY DEF ProcRefs, UserRefs
    <2>2. r \in Ps <=> \E p \in Slots : r \in ProcRefs(p, proc[p])
      OBVIOUS
    <2>3. r \in ProgramRefs <=>
            \E p \in Slots : \/ r \in SpaceRefs(p, proc[p].space)
                             \/ r = <<p, "kstk", 0, proc[p].kstk>>
      BY DEF ProgramRefs
    <2> HIDE DEF Ps
    <2> QED BY <2>1, <2>2, <2>3
  <1>4. KernelRefs = BootRefs \cup HeapRefs(heap) \cup {<<0, "temp", 0, temp>>}
    BY DEF KernelRefs, BootRefs, HeapRefs
  <1>5. AllRefs(heap, temp, space, proc)
          = BootRefs \cup HeapRefs(heap) \cup TempRefs(temp) \cup Ps \cup UserRefs(1, space)
    BY DEF AllRefs, Others
  <1> HIDE DEF Ps
  <1>6. ASSUME NEW r
        PROVE  r \in Refs <=> r \in AllRefs(heap, temp, space, proc)
    BY <1>1, <1>2, <1>3, <1>4, <1>5 DEF Refs, TempRefs, UserRefs
  <1> QED BY <1>6

\* Nobody but exec_program() holds references of owner 1.
LEMMA OthersOwner ==
  ASSUME NEW h, NEW t, NEW x, NEW r \in Others(h, t, x)
  PROVE  r[1] # 1
  <1>1. r \in BootRefs \/ r \in HeapRefs(h) \/ r \in TempRefs(t)
          \/ \E p \in Slots : r \in ProcRefs(p, x[p])
    BY DEF Others
  <1> QED BY <1>1, OwnerTags, SlotAssumption, SMTT(30)

\* paging_free_directory() frees exactly what the address space refers to.
LEMMA DropSpace ==
  ASSUME NEW h, NEW t, NEW s, NEW x, NEW U, NEW L, Books(AllRefs(h, t, s, x), U, L)
  PROVE  Books(AllRefs(h, t, NoSpace, x), FreeDirectory(U, s), L)
  <1> DEFINE R == AllRefs(h, t, s, x)
             R2 == AllRefs(h, t, NoSpace, x)
             F == FramesOf(s)
  <1>1. R = Others(h, t, x) \cup UserRefs(1, s) /\ R2 = Others(h, t, x)
    BY NoUserRefs DEF AllRefs
  <1>2. \A r1, r2 \in R : r1[4] = r2[4] => r1 = r2 BY DEF Books
  <1> HIDE DEF R, R2, F
  <1>3. ASSUME NEW r \in R2 PROVE r[4] \notin F
    <2> SUFFICES ASSUME r[4] \in F PROVE FALSE OBVIOUS
    <2>1. PICK q \in UserRefs(1, s) : q[4] = r[4] /\ q[1] = 1 BY UserFacts, SMTT(30) DEF F
    <2>2. q = r BY <2>1, <1>1, <1>2
    <2> QED BY <2>1, <2>2, <1>1, OthersOwner
  <1>4. \A r \in UserRefs(1, s) : r[4] \in F BY UserFacts DEF F
  <1>5. \A f \in F : \E r \in R : r[4] = f BY UserFacts, <1>1, SMTT(30) DEF F
  <1>6. Books(R, U, L) BY DEF R
  <1>7. Books(R2, U \ F, L)
    <2>1. R2 \subseteq R /\ \A r \in R : r \in R2 <=> r[4] \notin F BY <1>1, <1>3, <1>4
    <2> QED BY <2>1, <1>5, <1>6, Drop
  <1> QED BY <1>7 DEF R2, F, FreeDirectory

\* paging_map_page() of a page that is not mapped keeps the books, whether or not
\* it needs a table and whether or not it gets one.
LEMMA MapKeepsBooks ==
  ASSUME NEW h, NEW t, NEW s \in Spaces, NEW x, NEW u, NEW L,
         Books(AllRefs(h, t, s, x), u, L),
         NEW part \in Parts, NEW i \in 1 .. MaxPages, s.map[<<part, i>>] = NULL,
         Alloc(u) # NULL,
         NEW m, m = MapPage(Mark(u), s, <<part, i>>, Alloc(u))
  PROVE  Books(AllRefs(h, t, m.space, x), m.used, L \cup m.lost)
  <1> DEFINE v == <<part, i>>
             tb == <<part, 0>>
             f == Alloc(u)
             g == Alloc(Mark(u))
             O == Others(h, t, x)
  <1>1. v \in Places /\ tb \in Places /\ v # tb /\ TableOf(v) = tb
        /\ v[1] = part /\ v[2] = i /\ tb[1] = part /\ tb[2] = 0
    BY ImageAssumption, SMTT(30) DEF Places, Parts, TableOf
  <1>2. /\ m.used = IF s.map[tb] = NULL THEN Mark(Mark(u)) ELSE Mark(u)
        /\ m.space = IF (IF s.map[tb] = NULL THEN g ELSE s.map[tb]) = NULL THEN s
                     ELSE [s EXCEPT !.map[tb] = IF s.map[tb] = NULL THEN g ELSE s.map[tb],
                                    !.map[v] = f]
        /\ m.lost = IF (IF s.map[tb] = NULL THEN g ELSE s.map[tb]) = NULL THEN {f} ELSE {}
    BY <1>1 DEF MapPage
  <1>3. u \in SUBSET Frame /\ 1 .. Reserved - 1 \subseteq u BY DEF Books
  <1>4. f \in Frame /\ f \notin u /\ f >= Reserved /\ f # NULL BY <1>3, AllocFacts
  <1>5. Mark(u) = u \cup {f} BY DEF Mark
  <1>6. Mark(u) \in SUBSET Frame /\ 1 .. Reserved - 1 \subseteq Mark(u)
    BY <1>3, AllocFacts
  <1>7. /\ Mark(Mark(u)) = Mark(u) \cup {g} /\ g \in Frame
        /\ g # NULL => g \notin Mark(u) /\ g >= Reserved
    BY <1>6, AllocFacts DEF Mark
  <1>8. \A z : AllRefs(h, t, z, x) = O \cup UserRefs(1, z) BY DEF AllRefs
  <1> HIDE DEF v, tb, f, g, O
  <1>9. CASE s.map[tb] # NULL
    <2>1. m.used = u \cup {f} /\ m.lost = {} /\ m.space = [s EXCEPT !.map[v] = f]
      <3>1. m.space = [s EXCEPT !.map[tb] = s.map[tb], !.map[v] = f]
        BY <1>9, <1>2
      <3>2. [s EXCEPT !.map[tb] = s.map[tb]] = s
        BY <1>1 DEF Spaces
      <3> QED BY <1>9, <1>2, <1>5, <3>1, <3>2
    <2>2. s.map[v] = NULL BY DEF v
    <2>3. UserRefs(1, m.space) = UserRefs(1, s) \cup {<<1, v[1], v[2], f>>}
      BY <2>1, <2>2, <1>1, <1>4, PutPage, SMTT(30)
    <2>4. AllRefs(h, t, m.space, x) = AllRefs(h, t, s, x) \cup {<<1, v[1], v[2], f>>}
      BY <2>3, <1>8
    <2>5. Books(AllRefs(h, t, m.space, x), u \cup {f}, L)
      <3>1. Books(AllRefs(h, t, s, x) \cup {<<1, v[1], v[2], f>>}, u \cup {f}, L)
        BY <1>4, AddOne
      <3> QED BY <2>4, <3>1
    <2> QED BY <2>1, <2>5
  <1>10. CASE s.map[tb] = NULL /\ g # NULL
    <2> DEFINE s1 == [s EXCEPT !.map[tb] = g]
    <2>1. m.used = (u \cup {f}) \cup {g} /\ m.lost = {} /\ m.space = [s1 EXCEPT !.map[v] = f]
      BY <1>10, <1>2, <1>5, <1>7
    <2>2. s.map[v] = NULL BY DEF v
    <2>3. s1 \in Spaces /\ UserRefs(1, s1) = UserRefs(1, s) \cup {<<1, tb[1], tb[2], g>>}
      BY <1>10, <1>1, <1>7, PutPage, SMTT(30)
    <2>4. s1.map[v] = NULL BY <2>2, <1>1 DEF Spaces
    <2> HIDE DEF s1
    <2>5. UserRefs(1, m.space) = UserRefs(1, s1) \cup {<<1, v[1], v[2], f>>}
      BY <2>1, <2>3, <2>4, <1>1, <1>4, PutPage, SMTT(30)
    <2>6. AllRefs(h, t, m.space, x)
            = (AllRefs(h, t, s, x) \cup {<<1, v[1], v[2], f>>}) \cup {<<1, tb[1], tb[2], g>>}
      BY <2>3, <2>5, <1>8, SMTT(30)
    <2>7. Books(AllRefs(h, t, s, x) \cup {<<1, v[1], v[2], f>>}, u \cup {f}, L)
      BY <1>4, AddOne
    <2>8. Books(AllRefs(h, t, m.space, x), (u \cup {f}) \cup {g}, L)
      <3> DEFINE A == AllRefs(h, t, s, x) \cup {<<1, v[1], v[2], f>>}
                 W == u \cup {f}
      <3>1. Books(A, W, L) /\ g \notin W /\ g \in Frame /\ g >= Reserved
        BY <2>7, <1>10, <1>5, <1>7
      <3> HIDE DEF A, W
      <3>2. Books(A \cup {<<1, tb[1], tb[2], g>>}, W \cup {g}, L)
        BY <3>1, AddOne
      <3> QED BY <3>2, <2>6 DEF A, W
    <2> QED BY <2>1, <2>8
  <1>11. CASE s.map[tb] = NULL /\ g = NULL
    <2>1. m.used = (u \cup {f}) \cup {0} /\ m.lost = {f} /\ m.space = s
      BY <1>11, <1>2, <1>5, <1>7 DEF NULL
    <2>2. Books(AllRefs(h, t, s, x), u \cup {f}, L \cup {f}) BY <1>4, Lose
    <2> QED BY <2>1, <2>2, AddNone, SMTT(30)
  <1> QED BY <1>9, <1>10, <1>11

\* What paging_map_page() does to the address space: it changes only the page and
\* its table, and the page is mapped if the table is there.
LEMMA MapFacts ==
  ASSUME NEW u, Alloc(u) \in Frame, NEW s \in Spaces, NEW part \in Parts,
         NEW i \in 1 .. MaxPages, NEW f \in Frame, f # NULL,
         NEW m, m = MapPage(u, s, <<part, i>>, f)
  PROVE  /\ m.space \in Spaces /\ m.space.dir = s.dir
         /\ \A w \in Places : w # <<part, i>> /\ w # <<part, 0>> => m.space.map[w] = s.map[w]
         /\ s.map[<<part, 0>>] # NULL => m.space.map[<<part, i>>] = f
         /\ m.space = s \/ (m.space.map[<<part, 0>>] # NULL /\ m.space.map[<<part, i>>] = f)
         /\ m.lost \subseteq {f}
         /\ m.fate \in {"ok", "fault", "wild"}
  <1> DEFINE v == <<part, i>>
             tb == <<part, 0>>
             g == IF s.map[tb] = NULL THEN Alloc(u) ELSE s.map[tb]
  <1>1. v \in Places /\ tb \in Places /\ v # tb /\ TableOf(v) = tb
    BY ImageAssumption, SMTT(30) DEF Places, Parts, TableOf
  <1>2. /\ m.space = IF g = NULL THEN s
                     ELSE [s EXCEPT !.map[tb] = g, !.map[v] = f]
        /\ m.lost = IF g = NULL THEN {f} ELSE {}
        /\ m.fate = IF s.map[tb] = NULL /\ g # NULL
                    THEN Worse(Reuse(g), IdentityWrite(g)) ELSE "ok"
    BY <1>1 DEF MapPage
  <1>3. m.fate \in {"ok", "fault", "wild"} BY <1>2 DEF Worse, Reuse, IdentityWrite
  <1>4. g \in Frame /\ (s.map[tb] # NULL => g # NULL) BY <1>1 DEF Spaces
  <1> HIDE DEF v, tb, g
  <1>5. CASE g = NULL
    BY <1>2, <1>3, <1>4, <1>5 DEF v, tb
  <1>6. CASE g # NULL
    <2>1. s.dir \in Frame /\ s.map \in [Places -> Frame] BY DEF Spaces
    <2>2. m.space.dir = s.dir /\ m.space.map = [[s.map EXCEPT ![tb] = g] EXCEPT ![v] = f]
          /\ m.space = [dir |-> m.space.dir, map |-> m.space.map]
      BY <1>6, <1>2 DEF Spaces
    <2>3. m.space.map \in [Places -> Frame] BY <2>1, <2>2, <1>1, <1>4
    <2>4. m.space \in Spaces BY <2>1, <2>2, <2>3 DEF Spaces
    <2>5. /\ m.space.map[v] = f /\ m.space.map[tb] = g
          /\ \A w \in Places : w # v /\ w # tb => m.space.map[w] = s.map[w]
      BY <2>1, <2>2, <1>1
    <2> QED BY <2>2, <2>4, <2>5, <1>2, <1>3, <1>6 DEF v, tb
  <1> QED BY <1>5, <1>6

\* The heap's new page is one reference more.
LEMMA HeapAppend ==
  ASSUME NEW S, NEW h \in Seq(S), NEW f \in S
  PROVE  HeapRefs(Append(h, f)) = HeapRefs(h) \cup {<<0, "heap", Len(h) + 1, f>>}
  <1> DEFINE n == Len(h)
             h2 == Append(h, f)
  <1>1. n \in Nat /\ Len(h2) = n + 1 /\ h2[n + 1] = f
        /\ \A i \in 1 .. n : h2[i] = h[i]
    BY SMTT(30)
  <1>2. 1 .. n + 1 = (1 .. n) \cup {n + 1} BY <1>1, SMTT(30)
  <1> HIDE DEF n, h2
  <1>3. HeapRefs(h2) = {<<0, "heap", i, h2[i]>> : i \in (1 .. n) \cup {n + 1}}
    BY <1>1, <1>2 DEF HeapRefs
  <1>4. HeapRefs(h) = {<<0, "heap", i, h[i]>> : i \in 1 .. n} BY DEF HeapRefs, n
  <1>5. HeapRefs(h2) = HeapRefs(h) \cup {<<0, "heap", n + 1, f>>}
    BY <1>1, <1>3, <1>4
  <1> QED BY <1>5 DEF n, h2

\* The tables x and x2 differ at most in slot p.
SameButSlot(x, x2, p) == \A q \in Slots : q # p => x2[q] = x[q]

\* A free slot is filled, and the references of what fills it are added.
LEMMA FillSlot ==
  ASSUME NEW h, NEW t, NEW x, NEW x2, NEW p \in Slots, SameButSlot(x, x2, p),
         ProcRefs(p, x[p]) = {}
  PROVE  Others(h, t, x2) = Others(h, t, x) \cup ProcRefs(p, x2[p])
  <1>1. \A q \in Slots : q # p => x2[q] = x[q] BY DEF SameButSlot
  <1> DEFINE A == UNION {ProcRefs(q, x[q]) : q \in Slots}
             B == UNION {ProcRefs(q, x2[q]) : q \in Slots}
  <1>2. \A r : r \in A <=> \E q \in Slots : r \in ProcRefs(q, x[q]) OBVIOUS
  <1>3. \A r : r \in B <=> \E q \in Slots : r \in ProcRefs(q, x2[q]) OBVIOUS
  <1>4. /\ Others(h, t, x) = BootRefs \cup HeapRefs(h) \cup TempRefs(t) \cup A
        /\ Others(h, t, x2) = BootRefs \cup HeapRefs(h) \cup TempRefs(t) \cup B
    BY DEF Others
  <1> HIDE DEF A, B
  <1>5. ASSUME NEW r PROVE r \in B <=> r \in A \cup ProcRefs(p, x2[p])
    <2>1. ASSUME r \in B PROVE r \in A \cup ProcRefs(p, x2[p])
      BY <2>1, <1>1, <1>2, <1>3
    <2>2. ASSUME r \in A PROVE r \in B
      BY <2>2, <1>1, <1>2, <1>3
    <2>3. ASSUME r \in ProcRefs(p, x2[p]) PROVE r \in B
      BY <2>3, <1>1, <1>3
    <2> QED BY <2>1, <2>2, <2>3
  <1>6. B = A \cup ProcRefs(p, x2[p]) BY <1>5
  <1> QED BY <1>4, <1>6

\* While slot p is free, no reference carries p.
LEMMA FreeSlotTag ==
  ASSUME NEW h, NEW t, NEW x, NEW p \in Slots, ProcRefs(p, x[p]) = {},
         NEW r \in Others(h, t, x)
  PROVE  r[1] # p
  <1>1. r \in BootRefs \/ r \in HeapRefs(h) \/ r \in TempRefs(t)
          \/ \E q \in Slots : r \in ProcRefs(q, x[q])
    BY DEF Others
  <1>2. p # 0 BY SlotAssumption
  <1>3. ASSUME NEW q \in Slots, r \in ProcRefs(q, x[q]) PROVE r[1] = q /\ q # p
    BY <1>3, OwnerTags
  <1> QED BY <1>1, <1>2, <1>3, OwnerTags

\* A slot that is not in use refers to nothing.
LEMMA NoProcRefs ==
  ASSUME NEW p
  PROVE  ProcRefs(p, NoProc) = {}
  <1>1. NoProc.space = NoSpace /\ NoProc.kstk = NULL BY DEF NoProc
  <1> QED BY <1>1, NoUserRefs, SMTT(30) DEF ProcRefs

\* The same address space under another owner has the same references otherwise.
LEMMA UserTwin ==
  ASSUME NEW o1, NEW o2, NEW s, NEW r \in UserRefs(o1, s)
  PROVE  /\ <<o2, r[2], r[3], r[4]>> \in UserRefs(o2, s)
         /\ r = <<o1, r[2], r[3], r[4]>>
  <1>1. r[4] # NULL BY InUserRefs
  <1>2. CASE r = <<o1, "dir", 0, s.dir>>
    <2>1. <<o2, r[2], r[3], r[4]>> = <<o2, "dir", 0, s.dir>> BY <1>2
    <2>2. <<o2, "dir", 0, s.dir>>[4] # NULL BY <1>1, <1>2
    <2> QED BY <2>1, <2>2, <1>2, InUserRefs
  <1>3. CASE \E v \in Places : r = <<o1, v[1], v[2], s.map[v]>>
    <2>1. PICK v \in Places : r = <<o1, v[1], v[2], s.map[v]>> BY <1>3
    <2>2. <<o2, r[2], r[3], r[4]>> = <<o2, v[1], v[2], s.map[v]>> BY <2>1
    <2>3. <<o2, v[1], v[2], s.map[v]>>[4] # NULL BY <1>1, <2>1
    <2> QED BY <2>1, <2>2, <2>3, InUserRefs
  <1> QED BY <1>2, <1>3, InUserRefs, SMTT(30)

\* exec_program() hands the address space to a free slot.
LEMMA PassSpace ==
  ASSUME NEW h, NEW t, NEW s, NEW x, NEW U, NEW L, Books(AllRefs(h, t, s, x), U, L),
         NEW p \in Slots
  PROVE  Books(Others(h, t, x) \cup UserRefs(p, s), U, L)
  <1> DEFINE O == Others(h, t, x)
             A == UserRefs(1, s)
             B == UserRefs(p, s)
  <1>1. /\ \A r \in B : <<1, r[2], r[3], r[4]>> \in A /\ r = <<p, r[2], r[3], r[4]>>
        /\ \A q \in A : <<p, q[2], q[3], q[4]>> \in B /\ q[1] = 1
    BY UserTwin, UserFacts, SMTT(30)
  <1>2. \A r \in O : r[1] # 1 BY OthersOwner
  <1>3. Books(O \cup A, U, L) BY DEF AllRefs
  <1> HIDE DEF O, A, B
  <1>4. \A r1, r2 \in O \cup A : r1[4] = r2[4] => r1 = r2 BY <1>3 DEF Books
  <1>5. \A r \in O \cup B : \E q \in O \cup A : q[4] = r[4]
    <2>1. ASSUME NEW r \in B PROVE \E q \in O \cup A : q[4] = r[4]
      <3>1. <<1, r[2], r[3], r[4]>>[4] = r[4] OBVIOUS
      <3> QED BY <3>1, <1>1
    <2> QED BY <2>1
  <1>6. \A q \in O \cup A : \E r \in O \cup B : q[4] = r[4]
    <2>1. ASSUME NEW q \in A PROVE \E r \in O \cup B : q[4] = r[4]
      <3>1. <<p, q[2], q[3], q[4]>>[4] = q[4] OBVIOUS
      <3> QED BY <3>1, <1>1
    <2> QED BY <2>1
  <1>7. ASSUME NEW r1 \in O \cup B, NEW r2 \in B, r1[4] = r2[4] PROVE r1 = r2
    <2> DEFINE w2 == <<1, r2[2], r2[3], r2[4]>>
    <2>1. w2 \in A /\ w2[1] = 1 /\ w2[2] = r2[2] /\ w2[3] = r2[3] /\ w2[4] = r2[4]
      BY <1>1
    <2> HIDE DEF w2
    <2>2. CASE r1 \in B
      <3> DEFINE w1 == <<1, r1[2], r1[3], r1[4]>>
      <3>1. w1 \in A /\ w1[1] = 1 /\ w1[2] = r1[2] /\ w1[3] = r1[3] /\ w1[4] = r1[4]
        BY <2>2, <1>1
      <3> HIDE DEF w1
      <3>2. w1 = w2 BY <3>1, <2>1, <1>4, <1>7
      <3>3. r1[2] = r2[2] /\ r1[3] = r2[3] BY <3>1, <3>2, <2>1
      <3> QED BY <3>3, <2>2, <1>1, <1>7
    <2>3. CASE r1 \in O
      <3>1. w2 = r1 BY <2>1, <2>3, <1>4, <1>7
      <3> QED BY <3>1, <2>1, <2>3, <1>2
    <2> QED BY <2>2, <2>3
  <1>8. \A r1, r2 \in O \cup B : r1[4] = r2[4] => r1 = r2
    <2> SUFFICES ASSUME NEW r1 \in O \cup B, NEW r2 \in O \cup B, r1[4] = r2[4]
                 PROVE  r1 = r2
      OBVIOUS
    <2>1. CASE r2 \in B BY <2>1, <1>7
    <2>2. CASE r1 \in B BY <2>2, <1>7
    <2>3. CASE r1 \in O /\ r2 \in O BY <2>3, <1>4
    <2> QED BY <2>1, <2>2, <2>3
  <1>9. Books(O \cup B, U, L) BY <1>3, <1>5, <1>6, <1>8, Rename
  <1> QED BY <1>9 DEF O, B
-------------------------------------------------------------------------------
(* Every step keeps the invariant *)

\* The NULL space and slot have their types.
LEMMA NoTypes ==
  /\ 0 \in Frame /\ KernelDir \in Frame
  /\ NoSpace \in Spaces
  /\ NoProc \in [st : {"UNUSED", "RUNNING", "ZOMBIE"}, space : Spaces, kstk : Frame]
  <1>1. 0 \in Frame /\ KernelDir \in Frame BY FrameAssumption, SMTT(30) DEF Frame, KernelDir
  <1>2. NoSpace \in Spaces BY <1>1 DEF NoSpace, Spaces, NULL
  <1> QED BY <1>1, <1>2 DEF NoProc, NULL

\* The allocator in a state of the invariant.
LEMMA AllocNow ==
  ASSUME IInv
  PROVE  /\ used \in SUBSET Frame /\ 1 .. Reserved - 1 \subseteq used
         /\ Alloc(used) \in Frame /\ Mark(used) \in SUBSET Frame
         /\ 1 .. Reserved - 1 \subseteq Mark(used)
         /\ Mark(used) = used \cup {Alloc(used)}
         /\ Alloc(used) # NULL => Alloc(used) \notin used /\ Alloc(used) >= Reserved
  <1>1. used \in SUBSET Frame /\ 1 .. Reserved - 1 \subseteq used BY DEF IInv, Books
  <1> QED BY <1>1, AllocFacts DEF Mark

\* kmain leaves the invariant.
LEMMA InitIInv == Init => IInv
  <1> SUFFICES ASSUME Init PROVE IInv OBVIOUS
  <1> DEFINE N == Reserved + 4 + FsCount + HeapBoot
  <1>1. /\ used = 0 .. N
        /\ heap = [i \in 1 .. HeapBoot |-> IF i = 1 THEN Reserved + 5
                                           ELSE Reserved + 4 + FsCount + i]
        /\ temp = 0 /\ space = NoSpace /\ size = 0 /\ done = 0 /\ old_dir = 0
        /\ cr3 = KernelDir /\ proc = [p \in Slots |-> NoProc]
        /\ pc = "shell" /\ fate = "ok" /\ lost = {}
    BY DEF Init, NULL
  <1>2. /\ Len(heap) = HeapBoot /\ heap \in Seq(Frame \ {NULL})
    <2>1. HeapBoot \in Nat BY FrameAssumption
    <2>2. heap \in [1 .. HeapBoot -> Frame \ {NULL}]
      BY <1>1, FrameAssumption, SMTT(30) DEF Frame, NULL
    <2> QED BY <2>1, <2>2, SMTT(30)
  <1>3. TypeOK
    BY <1>1, <1>2, NoTypes, FrameAssumption, ImageAssumption, SMTT(30) DEF TypeOK, Frame
  <1>4. \A p \in Slots : ProcRefs(p, proc[p]) = {} BY <1>1, NoProcRefs
  <1>5. AllRefs(heap, temp, space, proc) = BootRefs \cup HeapRefs(heap)
    <2> DEFINE A == UNION {ProcRefs(p, proc[p]) : p \in Slots}
    <2>1. A = {} BY <1>4
    <2>2. TempRefs(temp) = {} BY <1>1, SMTT(30) DEF TempRefs, NULL
    <2>3. AllRefs(heap, temp, space, proc)
            = BootRefs \cup HeapRefs(heap) \cup TempRefs(temp) \cup A \cup UserRefs(1, space)
      BY DEF AllRefs, Others
    <2>4. UserRefs(1, space) = {} BY <1>1, NoUserRefs
    <2> QED BY <2>1, <2>2, <2>3, <2>4
  <1>6. Books(BootRefs \cup HeapRefs(heap), used, lost)
    <2> DEFINE R == BootRefs \cup HeapRefs(heap)
    <2>1. \A r \in R :
            \/ \E f \in BootFrames \cup FsFrames : r = <<0, "boot", f, f>>
            \/ \E i \in 1 .. HeapBoot : r = <<0, "heap", i, heap[i]>>
      BY <1>2 DEF BootRefs, HeapRefs
    <2>2. \A f \in BootFrames \cup FsFrames : \A i \in 1 .. HeapBoot : f # heap[i]
      BY <1>1, FrameAssumption, SMTT(30) DEF BootFrames, FsFrames
    <2>3. \A i, j \in 1 .. HeapBoot : heap[i] = heap[j] => i = j
      BY <1>1, FrameAssumption, SMTT(30)
    <2>4. \A f \in BootFrames \cup FsFrames : f \in 0 .. N /\ f >= Reserved
      BY FrameAssumption, SMTT(30) DEF BootFrames, FsFrames
    <2>5. \A i \in 1 .. HeapBoot : heap[i] \in 0 .. N /\ heap[i] >= Reserved
      BY <1>1, FrameAssumption, SMTT(30)
    <2>6. \A f \in 0 .. N : f >= Reserved =>
            f \in BootFrames \cup FsFrames \/ \E i \in 1 .. HeapBoot : heap[i] = f
      <3> SUFFICES ASSUME NEW f \in 0 .. N, f >= Reserved, f \notin BootFrames \cup FsFrames
                   PROVE  \E i \in 1 .. HeapBoot : heap[i] = f
        OBVIOUS
      <3>1. CASE f = Reserved + 5 BY <3>1, <1>1, FrameAssumption, SMTT(30)
      <3>2. CASE f # Reserved + 5
        <4>1. f - (Reserved + 4 + FsCount) \in 2 .. HeapBoot
          BY <3>2, FrameAssumption, SMTT(30) DEF BootFrames, FsFrames
        <4>2. heap[f - (Reserved + 4 + FsCount)] = f
          BY <4>1, <1>1, FrameAssumption, SMTT(30)
        <4> QED BY <4>1, <4>2, SMTT(30)
      <3> QED BY <3>1, <3>2
    <2>7. \A r \in R : r[4] \in 0 .. N /\ r[4] >= Reserved
      BY <2>1, <2>4, <2>5, SMTT(30)
    <2>8. \A r1, r2 \in R : r1[4] = r2[4] => r1 = r2
      BY <2>1, <2>2, <2>3, SMTT(30)
    <2>9. \A f \in 0 .. N : f >= Reserved => \E r \in R : r[4] = f
      <3> SUFFICES ASSUME NEW f \in 0 .. N, f >= Reserved
                   PROVE  \E r \in R : r[4] = f
        OBVIOUS
      <3>1. CASE f \in BootFrames \cup FsFrames
        <4>1. <<0, "boot", f, f>> \in R BY <3>1 DEF BootRefs
        <4> QED BY <4>1
      <3>2. CASE \E i \in 1 .. HeapBoot : heap[i] = f
        <4>1. PICK i \in 1 .. HeapBoot : heap[i] = f BY <3>2
        <4>2. <<0, "heap", i, heap[i]>> \in R BY <1>2 DEF HeapRefs
        <4> QED BY <4>1, <4>2
      <3> QED BY <3>1, <3>2, <2>6
    <2>10. 0 .. N \subseteq Frame /\ 1 .. Reserved - 1 \subseteq 0 .. N
      BY FrameAssumption, SMTT(30) DEF Frame
    <2> HIDE DEF R, N
    <2>11. Books(R, used, lost) BY <1>1, <2>7, <2>8, <2>9, <2>10 DEF Books
    <2> QED BY <2>11 DEF R
  <1>7. Building BY <1>1 DEF Building
  <1>8. SlotsOK BY <1>1 DEF SlotsOK, NoProc
  <1> QED BY <1>3, <1>5, <1>6, <1>7, <1>8 DEF IInv

\* malloc() grows the heap, or finds no frame.
LEMMA HeapGrowKeeps ==
  ASSUME IInv, HeapGrow
  PROVE  IInv'
  <1> DEFINE f == Alloc(used)
  <1>1. /\ fate = "ok" /\ pc = "shell" /\ Len(heap) < HeapMax
        /\ used' = used \cup {f}
        /\ heap' = IF f = NULL THEN heap ELSE Append(heap, f)
        /\ fate' = Reuse(f)
        /\ UNCHANGED <<temp, space, size, done, old_dir, cr3, proc, pc, lost>>
    BY DEF HeapGrow, execVars, Mark
  <1>2. /\ f \in Frame /\ used \cup {f} \in SUBSET Frame
        /\ f # NULL => f \notin used /\ f >= Reserved
    BY AllocNow
  <1>3. TypeOK BY DEF IInv
  <1> HIDE DEF f
  <1>4. heap' \in Seq(Frame \ {NULL}) /\ Len(heap') \in 1 .. HeapMax
    <2> DEFINE S == Frame \ {NULL}
    <2>1. heap \in Seq(S) /\ Len(heap) \in 1 .. HeapMax /\ HeapMax \in Nat
      BY <1>3, FrameAssumption DEF TypeOK
    <2>2. f # NULL => f \in S BY <1>2
    <2> HIDE DEF S
    <2>3. heap' \in Seq(S) /\ Len(heap') \in 1 .. HeapMax
      BY <2>1, <2>2, <1>1, SMTT(30)
    <2> QED BY <2>3 DEF S
  <1>5. TypeOK'
    BY <1>1, <1>2, <1>3, <1>4 DEF TypeOK, Reuse
  <1>6. Books(AllRefs(heap', temp', space', proc'), used', lost')
    <2>1. Books(AllRefs(heap, temp, space, proc), used, lost) BY DEF IInv
    <2>2. CASE f = NULL
      <3>1. Books(AllRefs(heap, temp, space, proc), used \cup {0}, lost) BY <2>1, AddNone
      <3> QED BY <3>1, <2>2, <1>1 DEF NULL
    <2>3. CASE f # NULL
      <3> DEFINE r == <<0, "heap", Len(heap) + 1, f>>
      <3>1. HeapRefs(heap') = HeapRefs(heap) \cup {r}
        BY <2>3, <1>1, <1>2, <1>3, HeapAppend, SMTT(30) DEF TypeOK
      <3>2. r[4] = f OBVIOUS
      <3> HIDE DEF r
      <3>3. AllRefs(heap', temp, space, proc) = AllRefs(heap, temp, space, proc) \cup {r}
        BY <3>1 DEF AllRefs, Others
      <3>4. Books(AllRefs(heap, temp, space, proc) \cup {r}, used \cup {f}, lost)
        BY <2>1, <2>3, <1>2, <3>2, AddOne
      <3> QED BY <3>3, <3>4, <1>1
    <2> QED BY <2>2, <2>3
  <1>7. Building' BY <1>1 DEF IInv, Building
  <1>8. SlotsOK' BY <1>1 DEF IInv, SlotsOK
  <1> QED BY <1>5, <1>6, <1>7, <1>8 DEF IInv

\* exec_program() finds no frame for a directory.
LEMMA ExecNoDirKeeps ==
  ASSUME IInv, ExecNoDir
  PROVE  IInv'
  <1>1. /\ used' = used \cup {0}
        /\ UNCHANGED <<heap, temp, space, size, done, old_dir, cr3, proc, pc, fate, lost>>
    BY DEF ExecNoDir, execVars, Mark, NULL
  <1>2. TypeOK' BY <1>1, NoTypes DEF IInv, TypeOK
  <1>3. Books(AllRefs(heap, temp, space, proc), used \cup {0}, lost) BY AddNone DEF IInv
  <1>4. Books(AllRefs(heap', temp', space', proc'), used', lost') BY <1>1, <1>3
  <1>5. Building' BY <1>1 DEF IInv, Building
  <1>6. SlotsOK' BY <1>1 DEF IInv, SlotsOK
  <1> QED BY <1>2, <1>4, <1>5, <1>6 DEF IInv

\* A clone of the kernel's directory refers to one frame.
LEMMA CloneFacts ==
  ASSUME NEW d \in Frame, d # NULL, NEW s, s = [NoSpace EXCEPT !.dir = d]
  PROVE  /\ s \in Spaces /\ \A v \in Places : s.map[v] = NULL
         /\ UserRefs(1, s) = {<<1, "dir", 0, d>>}
  <1>1. s.dir = d /\ s.map = [v \in Places |-> NULL] /\ s = [dir |-> s.dir, map |-> s.map]
    BY DEF NoSpace
  <1>2. \A v \in Places : s.map[v] = NULL BY <1>1
  <1>3. s \in Spaces BY <1>1, NoTypes DEF Spaces, NULL
  <1>4. ASSUME NEW r PROVE r \in UserRefs(1, s) <=> r = <<1, "dir", 0, d>>
    <2>1. <<1, "dir", 0, d>>[4] = d OBVIOUS
    <2>2. \A v \in Places : <<1, v[1], v[2], s.map[v]>>[4] = NULL BY <1>2
    <2> QED BY <1>1, <2>1, <2>2, InUserRefs, SMTT(30)
  <1> QED BY <1>2, <1>3, <1>4

\* paging_clone_directory(), with or without a frame for the temporary mappings.
LEMMA ExecCloneKeeps ==
  ASSUME IInv, NEW n \in ImageSizes, ExecClone(n)
  PROVE  IInv'
  <1> DEFINE d == Alloc(used)
             g == Alloc(Mark(used))
             tt == IF temp = NULL THEN g ELSE temp
             a == <<1, "dir", 0, d>>
             b == <<0, "temp", 0, g>>
  <1>1. /\ fate = "ok" /\ pc = "shell" /\ d # NULL
        /\ used' = IF temp = NULL THEN Mark(Mark(used)) ELSE Mark(used)
        /\ temp' = tt
        /\ space' = [NoSpace EXCEPT !.dir = d]
        /\ fate' = IF tt = NULL THEN "fault"
                   ELSE IF temp = NULL
                   THEN Worse(Worse(Reuse(d), Reuse(tt)), IdentityWrite(tt))
                   ELSE Reuse(d)
        /\ old_dir' = cr3 /\ cr3' = d /\ size' = n /\ done' = 0
        /\ pc' = IF n = 0 THEN "stack" ELSE "load"
        /\ UNCHANGED <<heap, proc, lost>>
    BY DEF ExecClone
  <1>2. /\ d \in Frame /\ d \notin used /\ d >= Reserved
        /\ Mark(used) = used \cup {d} /\ Mark(used) \in SUBSET Frame
        /\ 1 .. Reserved - 1 \subseteq Mark(used)
    BY <1>1, AllocNow
  <1>3. /\ g \in Frame /\ Mark(Mark(used)) = Mark(used) \cup {g}
        /\ Mark(Mark(used)) \in SUBSET Frame
        /\ g # NULL => g \notin Mark(used) /\ g >= Reserved
    BY <1>2, AllocFacts DEF Mark
  <1>4. fate' \in {"ok", "fault", "wild"} BY <1>1 DEF Worse, Reuse, IdentityWrite
  <1>5. TypeOK BY DEF IInv
  <1>6. a[4] = d /\ b[4] = g OBVIOUS
  <1> HIDE DEF d, g, a, b
  <1>7. /\ space' \in Spaces /\ \A v \in Places : space'.map[v] = NULL
        /\ UserRefs(1, space') = {a}
    BY <1>1, <1>2, CloneFacts DEF a
  <1>8. TypeOK'
    <2>1. used' \in SUBSET Frame BY <1>1, <1>2, <1>3
    <2>2. temp' \in Frame BY <1>1, <1>3, <1>5 DEF TypeOK
    <2>3. size' \in 0 .. MaxPages /\ done' \in 0 .. MaxPages BY <1>1, ImageAssumption, SMTT(30)
    <2>4. old_dir' \in Frame /\ cr3' \in Frame /\ pc' \in {"load", "stack"}
      BY <1>1, <1>2, <1>5 DEF TypeOK
    <2>5. UNCHANGED <<heap, proc, lost>> BY <1>1
    <2> QED BY <2>1, <2>2, <2>3, <2>4, <2>5, <1>4, <1>5, <1>7 DEF TypeOK
  <1>9. Books(AllRefs(heap', temp', space', proc'), used', lost')
    <2>1. Books(AllRefs(heap, temp, NoSpace, proc), used, lost)
      BY <1>1 DEF IInv, Building
    <2>2. AllRefs(heap, temp, space', proc) = AllRefs(heap, temp, NoSpace, proc) \cup {a}
      BY <1>7, NoUserRefs DEF AllRefs
    <2>3. Books(AllRefs(heap, temp, NoSpace, proc) \cup {a}, used \cup {d}, lost)
      BY <2>1, <1>2, <1>6, AddOne
    <2>4. Books(AllRefs(heap, temp, space', proc), Mark(used), lost)
      BY <2>2, <2>3, <1>2
    <2>5. CASE temp # NULL BY <2>4, <2>5, <1>1
    <2>6. CASE temp = NULL /\ g = NULL
      <3>1. Books(AllRefs(heap, temp, space', proc), Mark(used) \cup {0}, lost)
        BY <2>4, AddNone
      <3>2. temp' = temp /\ used' = Mark(used) \cup {0} BY <2>6, <1>1, <1>3 DEF NULL
      <3> QED BY <3>1, <3>2, <1>1
    <2>7. CASE temp = NULL /\ g # NULL
      <3>1. TempRefs(temp) = {} BY <2>7, SMTT(30) DEF TempRefs
      <3>2. TempRefs(temp') = {b} BY <2>7, <1>1, <1>6 DEF TempRefs, b
      <3>3. AllRefs(heap, temp', space', proc) = AllRefs(heap, temp, space', proc) \cup {b}
        BY <3>1, <3>2 DEF AllRefs, Others
      <3>4. Books(AllRefs(heap, temp, space', proc) \cup {b}, Mark(used) \cup {g}, lost)
        BY <2>4, <2>7, <1>3, <1>6, AddOne
      <3> QED BY <3>3, <3>4, <2>7, <1>1, <1>3
    <2> QED BY <2>5, <2>6, <2>7
  <1>10. Building'
    <2>1. \A part \in Parts, i \in 0 .. MaxPages : space'.map[<<part, i>>] = NULL
      BY <1>7 DEF Places, Parts
    <2>2. \A part \in Parts : /\ EmptyBeyond(space', part, 0)
                              /\ HasTable(space', part)
                              /\ Complete(space', part, 0)
      BY <2>1, ImageAssumption, SMTT(30) DEF EmptyBeyond, HasTable, Complete
    <2>3. "img" \in Parts /\ "stk" \in Parts BY DEF Parts
    <2>4. space'.map[<<"stk", 1>>] = NULL BY <2>1, <2>3, ImageAssumption, SMTT(30)
    <2>5. n \in Nat /\ 0 < StackPages BY ImageAssumption, SMTT(30)
    <2>6. CASE n = 0
      <3>1. pc' = "stack" /\ done' = 0 /\ size' = 0 BY <2>6, <1>1
      <3> QED BY <3>1, <2>2, <2>3, <2>4, <2>5 DEF Building
    <2>7. CASE n # 0
      <3>1. pc' = "load" /\ done' = 0 /\ size' = n BY <2>7, <1>1
      <3> QED BY <3>1, <2>1, <2>2, <2>3, <2>5, <2>7, SMTT(30) DEF Building
    <2> QED BY <2>6, <2>7
  <1>11. SlotsOK' BY <1>1 DEF IInv, SlotsOK
  <1> QED BY <1>8, <1>9, <1>10, <1>11 DEF IInv

\* The three ways to leave exec_program() once it has an address space, from a
\* bitmap in which NULL may have been marked.
LEMMA LeaveKeeps ==
  ASSUME IInv, NEW u, u \in {used, used \cup {0}},
         used' = FreeDirectory(u, space), cr3' \in {cr3, old_dir}, ExecLeave,
         UNCHANGED <<heap, temp, proc, fate, lost>>
  PROVE  IInv'
  <1>1. Books(AllRefs(heap, temp, space, proc), u, lost) BY AddNone, SMTT(30) DEF IInv
  <1>2. Books(AllRefs(heap, temp, NoSpace, proc), FreeDirectory(u, space), lost)
    BY <1>1, DropSpace
  <1>3. Books(AllRefs(heap', temp', space', proc'), used', lost')
    BY <1>2 DEF ExecLeave
  <1>4. used' \in SUBSET Frame BY <1>2 DEF Books
  <1>5. TypeOK'
    BY <1>4, NoTypes, ImageAssumption, SMTT(30) DEF IInv, TypeOK, ExecLeave, NULL
  <1>6. Building' BY DEF ExecLeave, Building
  <1>7. SlotsOK' BY DEF IInv, SlotsOK
  <1> QED BY <1>3, <1>5, <1>6, <1>7 DEF IInv

\* The failure paths of exec_program().
LEMMA FailuresKeep ==
  ASSUME IInv, LoadNoFrame \/ StackNoFrame \/ ExecNoSlot
  PROVE  IInv'
  <1>1. CASE LoadNoFrame
    <2>1. Mark(used) = used \cup {0} BY <1>1 DEF LoadNoFrame, Mark, NULL
    <2> QED BY <1>1, <2>1, LeaveKeeps DEF LoadNoFrame
  <1>2. CASE StackNoFrame
    <2>1. Mark(used) = used \cup {0} BY <1>2 DEF StackNoFrame, Mark, NULL
    <2> QED BY <1>2, <2>1, LeaveKeeps DEF StackNoFrame
  <1>3. CASE ExecNoSlot
    BY <1>3, LeaveKeeps DEF ExecNoSlot
  <1> QED BY <1>1, <1>2, <1>3

\* exec_program() maps one more page of a part of which it has mapped, or tried
\* to map, the pages before.
LEMMA PageKeeps ==
  ASSUME IInv, NEW part \in Parts, NEW i \in 1 .. MaxPages,
         space.map[<<part, i>>] = NULL, Alloc(used) # NULL,
         NEW m, m = MapPage(Mark(used), space, <<part, i>>, Alloc(used)),
         used' = m.used, space' = m.space, lost' = lost \cup m.lost,
         UNCHANGED <<heap, temp, proc>>
  PROVE  /\ Books(AllRefs(heap', temp', space', proc'), used', lost')
         /\ used' \in SUBSET Frame /\ space' \in Spaces /\ lost' \in SUBSET Frame
         /\ m.fate \in {"ok", "fault", "wild"}
         /\ space.map[<<part, 0>>] # NULL => space'.map[<<part, i>>] # NULL
         /\ OnlyPage(space, space', part, i)
  <1> DEFINE f == Alloc(used)
  <1>1. TypeOK /\ Books(AllRefs(heap, temp, space, proc), used, lost) BY DEF IInv
  <1>2. space \in Spaces /\ lost \in SUBSET Frame BY <1>1 DEF TypeOK
  <1>3. Books(AllRefs(heap, temp, m.space, proc), m.used, lost \cup m.lost)
    BY <1>1, <1>2, MapKeepsBooks
  <1>4. /\ f \in Frame /\ f # NULL
        /\ Mark(used) \in SUBSET Frame /\ 1 .. Reserved - 1 \subseteq Mark(used)
    BY AllocNow
  <1>5. Alloc(Mark(used)) \in Frame BY <1>4, AllocFacts
  <1>6. /\ m.space \in Spaces
        /\ \A w \in Places : w # <<part, i>> /\ w # <<part, 0>> => m.space.map[w] = space.map[w]
        /\ space.map[<<part, 0>>] # NULL => m.space.map[<<part, i>>] = f
        /\ m.space = space \/ (m.space.map[<<part, 0>>] # NULL /\ m.space.map[<<part, i>>] = f)
        /\ m.lost \subseteq {f}
        /\ m.fate \in {"ok", "fault", "wild"}
    BY <1>2, <1>4, <1>5, MapFacts, SMTT(30)
  <1>7. used' \in SUBSET Frame BY <1>3 DEF Books
  <1>8. OnlyPage(space, m.space, part, i) BY <1>4, <1>6 DEF OnlyPage
  <1> HIDE DEF f
  <1> QED BY <1>2, <1>3, <1>4, <1>6, <1>7, <1>8

\* What the step leaves of the address space, in terms of its parts.
LEMMA PageParts ==
  ASSUME NEW s, NEW s2, NEW part \in Parts, NEW i \in 1 .. MaxPages,
         OnlyPage(s, s2, part, i), EmptyBeyond(s, part, i - 1), HasTable(s, part)
  PROVE  /\ EmptyBeyond(s2, part, i) /\ HasTable(s2, part)
         /\ OthersKept(s, s2, part, i)
  <1>1. \A q \in Parts, j \in 0 .. MaxPages : <<q, j>> \in Places BY DEF Places, Parts
  <1>2. \A j \in 1 .. MaxPages : j \in 0 .. MaxPages /\ j # 0 BY ImageAssumption, SMTT(30)
  <1>3. \A j \in 1 .. MaxPages : j # i => s2.map[<<part, j>>] = s.map[<<part, j>>]
    BY <1>1, <1>2 DEF OnlyPage
  <1>4. \A q \in Parts, j \in 0 .. MaxPages : q # part => s2.map[<<q, j>>] = s.map[<<q, j>>]
    BY <1>1 DEF OnlyPage
  <1>5. EmptyBeyond(s2, part, i)
    BY <1>3, ImageAssumption, SMTT(30) DEF EmptyBeyond
  <1>6. HasTable(s2, part) BY DEF HasTable, OnlyPage
  <1>7. OthersKept(s, s2, part, i) BY <1>3, <1>4 DEF OthersKept
  <1> QED BY <1>5, <1>6, <1>7

\* A page of the image; after the last one the copy has found them all, or the
\* machine has stopped.
LEMMA LoadPageKeeps ==
  ASSUME IInv, LoadPage
  PROVE  IInv'
  <1> DEFINE f == Alloc(used)
             i == done + 1
             m == MapPage(Mark(used), space, <<"img", i>>, f)
  <1>1. /\ fate = "ok" /\ pc = "load" /\ f # NULL
        /\ used' = m.used /\ space' = m.space /\ lost' = lost \cup m.lost
        /\ fate' = IF i = size /\ \E k \in 1 .. size : m.space.map[<<"img", k>>] = NULL
                   THEN "fault" ELSE Worse(Reuse(f), m.fate)
        /\ done' = IF i = size THEN 0 ELSE i
        /\ pc' = IF i = size THEN "stack" ELSE "load"
        /\ UNCHANGED <<heap, temp, size, old_dir, cr3, proc>>
    BY DEF LoadPage
  <1> HIDE DEF f, i, m
  <1>2. TypeOK BY DEF IInv
  <1>3. /\ done < size /\ EmptyBeyond(space, "img", done) /\ HasTable(space, "img")
        /\ \A k \in 0 .. MaxPages : space.map[<<"stk", k>>] = NULL
    BY <1>1 DEF IInv, Building
  <1>4. /\ size \in 0 .. MaxPages /\ done \in 0 .. MaxPages /\ i \in 1 .. size
        /\ i \in 1 .. MaxPages /\ i - 1 = done
    <2>1. size \in 0 .. MaxPages /\ done \in 0 .. MaxPages BY <1>2 DEF TypeOK
    <2>2. MaxPages \in Nat BY ImageAssumption
    <2>3. done < size BY <1>3
    <2> QED BY <2>1, <2>2, <2>3, SMTT(30) DEF i
  <1>5. space.map[<<"img", i>>] = NULL
    <2>1. i \in done + 1 .. MaxPages BY <1>4, SMTT(30)
    <2>2. EmptyBeyond(space, "img", done) BY <1>3
    <2> QED BY <2>1, <2>2 DEF EmptyBeyond
  <1>6. "img" \in Parts /\ "stk" \in Parts /\ "img" # "stk" BY DEF Parts
  <1>7. /\ Books(AllRefs(heap', temp', space', proc'), used', lost')
        /\ used' \in SUBSET Frame /\ space' \in Spaces /\ lost' \in SUBSET Frame
        /\ m.fate \in {"ok", "fault", "wild"}
        /\ OnlyPage(space, space', "img", i)
    BY <1>1, <1>4, <1>5, <1>6, PageKeeps DEF f, m
  <1>8. /\ EmptyBeyond(space', "img", i) /\ HasTable(space', "img")
        /\ \A k \in 0 .. MaxPages : space'.map[<<"stk", k>>] = NULL
    <2>1. /\ EmptyBeyond(space, "img", i - 1) /\ HasTable(space, "img")
          /\ OnlyPage(space, space', "img", i) /\ i \in 1 .. MaxPages /\ "img" \in Parts
      BY <1>3, <1>4, <1>6, <1>7
    <2>2. /\ EmptyBeyond(space', "img", i) /\ HasTable(space', "img")
          /\ OthersKept(space, space', "img", i)
      BY <2>1, PageParts
    <2> QED BY <2>2, <1>3, <1>6 DEF OthersKept
  <1>9. TypeOK'
    <2>1. fate' \in {"ok", "fault", "wild"} BY <1>1, <1>7 DEF Worse, Reuse
    <2>2. done' \in 0 .. MaxPages /\ pc' \in {"load", "stack"} BY <1>1, <1>4, ImageAssumption, SMTT(30)
    <2> QED BY <2>1, <2>2, <1>1, <1>2, <1>7 DEF TypeOK
  <1>10. Building'
    <2>1. CASE i # size
      <3>1. pc' = "load" /\ done' = i /\ i < size' BY <2>1, <1>1, <1>4, SMTT(30)
      <3> QED BY <3>1, <1>8 DEF Building
    <2>2. CASE i = size
      <3>1. pc' = "stack" /\ done' = 0 /\ size' = size BY <2>2, <1>1
      <3>2. fate' = "ok" => \A k \in 1 .. size : space'.map[<<"img", k>>] # NULL
        BY <2>2, <1>1
      <3>3. fate' = "ok" => Complete(space', "img", size)
        BY <3>2, <1>8, <2>2 DEF Complete
      <3>4. 0 < StackPages /\ \A k \in 1 .. MaxPages : k \in 0 .. MaxPages
        BY ImageAssumption, SMTT(30)
      <3>5. EmptyBeyond(space', "stk", 0) /\ HasTable(space', "stk")
            /\ space'.map[<<"stk", 1>>] = NULL
        BY <1>8, <3>4, ImageAssumption, SMTT(30) DEF EmptyBeyond, HasTable
      <3> QED BY <3>1, <3>3, <3>4, <3>5 DEF Building
    <2> QED BY <2>1, <2>2
  <1>11. SlotsOK' BY <1>1 DEF IInv, SlotsOK
  <1> QED BY <1>7, <1>9, <1>10, <1>11 DEF IInv

\* A page of the stack; the first page alone is tested by the copy of argv, and
\* the others have their table with it.
LEMMA StackPageKeeps ==
  ASSUME IInv, StackPage
  PROVE  IInv'
  <1> DEFINE f == Alloc(used)
             i == done + 1
             m == MapPage(Mark(used), space, <<"stk", i>>, f)
  <1>1. /\ fate = "ok" /\ pc = "stack" /\ f # NULL
        /\ used' = m.used /\ space' = m.space /\ lost' = lost \cup m.lost
        /\ fate' = IF i = StackPages /\ m.space.map[<<"stk", 1>>] = NULL
                   THEN "fault" ELSE Worse(Reuse(f), m.fate)
        /\ done' = IF i = StackPages THEN 0 ELSE i
        /\ pc' = IF i = StackPages THEN "slot" ELSE "stack"
        /\ cr3' = IF i = StackPages THEN old_dir ELSE cr3
        /\ UNCHANGED <<heap, temp, size, old_dir, proc>>
    BY DEF StackPage
  <1> HIDE DEF f, i, m
  <1>2. TypeOK BY DEF IInv
  <1>3. /\ done < StackPages /\ EmptyBeyond(space, "stk", done) /\ HasTable(space, "stk")
        /\ space.map[<<"stk", 1>>] # NULL =>
             \A k \in 1 .. done : space.map[<<"stk", k>>] # NULL
        /\ Complete(space, "img", size)
    BY <1>1 DEF IInv, Building
  <1>4. /\ size \in 0 .. MaxPages /\ done \in 0 .. MaxPages /\ i \in 1 .. StackPages
        /\ i \in 1 .. MaxPages /\ i - 1 = done /\ 1 \in 1 .. MaxPages
        /\ StackPages \in Nat
    <2>1. size \in 0 .. MaxPages /\ done \in 0 .. MaxPages BY <1>2 DEF TypeOK
    <2>2. MaxPages \in Nat /\ StackPages \in 1 .. MaxPages BY ImageAssumption
    <2>3. done < StackPages BY <1>3
    <2> QED BY <2>1, <2>2, <2>3, SMTT(30) DEF i
  <1>5. space.map[<<"stk", i>>] = NULL
    <2>1. i \in done + 1 .. MaxPages BY <1>4, SMTT(30)
    <2>2. EmptyBeyond(space, "stk", done) BY <1>3
    <2> QED BY <2>1, <2>2 DEF EmptyBeyond
  <1>6. "img" \in Parts /\ "stk" \in Parts /\ "img" # "stk" BY DEF Parts
  <1>7. 1 .. i = (1 .. done) \cup {i} BY <1>4, SMTT(30)
  <1>8. /\ Books(AllRefs(heap', temp', space', proc'), used', lost')
        /\ used' \in SUBSET Frame /\ space' \in Spaces /\ lost' \in SUBSET Frame
        /\ m.fate \in {"ok", "fault", "wild"}
        /\ space.map[<<"stk", 0>>] # NULL => space'.map[<<"stk", i>>] # NULL
        /\ OnlyPage(space, space', "stk", i)
    BY <1>1, <1>4, <1>5, <1>6, PageKeeps DEF f, m
  <1>9. /\ EmptyBeyond(space', "stk", i) /\ HasTable(space', "stk")
        /\ \A j \in 1 .. MaxPages : j # i => space'.map[<<"stk", j>>] = space.map[<<"stk", j>>]
        /\ \A j \in 0 .. MaxPages : space'.map[<<"img", j>>] = space.map[<<"img", j>>]
    <2>1. /\ EmptyBeyond(space, "stk", i - 1) /\ HasTable(space, "stk")
          /\ OnlyPage(space, space', "stk", i) /\ i \in 1 .. MaxPages /\ "stk" \in Parts
      BY <1>3, <1>4, <1>6, <1>8
    <2>2. /\ EmptyBeyond(space', "stk", i) /\ HasTable(space', "stk")
          /\ OthersKept(space, space', "stk", i)
      BY <2>1, PageParts
    <2> QED BY <2>2, <1>3, <1>6 DEF OthersKept
  <1>10. space'.map[<<"stk", 1>>] # NULL =>
           \A k \in 1 .. i : space'.map[<<"stk", k>>] # NULL
    <2> SUFFICES ASSUME space'.map[<<"stk", 1>>] # NULL
                 PROVE  \A k \in 1 .. i : space'.map[<<"stk", k>>] # NULL
      OBVIOUS
    <2>1. CASE i = 1 BY <2>1, SMTT(30)
    <2>2. CASE i # 1
      <3>1. space.map[<<"stk", 1>>] # NULL BY <2>2, <1>4, <1>9
      <3>2. space.map[<<"stk", 0>>] # NULL BY <3>1, <1>3, <1>4 DEF HasTable
      <3>3. space'.map[<<"stk", i>>] # NULL BY <3>2, <1>8
      <3>4. \A k \in 1 .. done : space'.map[<<"stk", k>>] # NULL
        <4>1. \A k \in 1 .. done : k \in 1 .. MaxPages /\ k # i
          BY <1>4, ImageAssumption, SMTT(30)
        <4> QED BY <4>1, <3>1, <1>3, <1>9
      <3> QED BY <3>3, <3>4, <1>7
    <2> QED BY <2>1, <2>2
  <1>11. Complete(space', "img", size)
    <2>1. \A k \in 1 .. MaxPages : k \in 0 .. MaxPages BY ImageAssumption, SMTT(30)
    <2>2. \A k \in 1 .. size : k \in 0 .. MaxPages BY <1>4, ImageAssumption, SMTT(30)
    <2>3. \A k \in size + 1 .. MaxPages : k \in 0 .. MaxPages BY <1>4, ImageAssumption, SMTT(30)
    <2>4. 0 \in 0 .. MaxPages BY ImageAssumption, SMTT(30)
    <2> QED BY <2>1, <2>2, <2>3, <2>4, <1>3, <1>9 DEF Complete, EmptyBeyond, HasTable
  <1>12. TypeOK'
    <2>1. fate' \in {"ok", "fault", "wild"} BY <1>1, <1>8 DEF Worse, Reuse
    <2>2. done' \in 0 .. MaxPages /\ pc' \in {"stack", "slot"} BY <1>1, <1>4, ImageAssumption, SMTT(30)
    <2>3. cr3' \in Frame BY <1>1, <1>2 DEF TypeOK
    <2> QED BY <2>1, <2>2, <2>3, <1>1, <1>2, <1>8 DEF TypeOK
  <1>13. Building'
    <2>1. CASE i # StackPages
      <3>1. pc' = "stack" /\ done' = i /\ i < StackPages /\ size' = size
        BY <2>1, <1>1, <1>4, SMTT(30)
      <3> QED BY <3>1, <1>9, <1>10, <1>11 DEF Building
    <2>2. CASE i = StackPages
      <3>1. pc' = "slot" /\ size' = size BY <2>2, <1>1
      <3>2. fate' = "ok" => space'.map[<<"stk", 1>>] # NULL BY <2>2, <1>1
      <3>3. fate' = "ok" => Complete(space', "stk", StackPages)
        BY <3>2, <1>9, <1>10, <2>2 DEF Complete
      <3> QED BY <3>1, <3>3, <1>11 DEF Building
    <2> QED BY <2>1, <2>2
  <1>14. SlotsOK' BY <1>1 DEF IInv, SlotsOK
  <1> QED BY <1>8, <1>12, <1>13, <1>14 DEF IInv

\* The slot is filled; the address space changes hands and the kernel stack, if
\* there is a frame for it, is new.
LEMMA ExecDoneKeeps ==
  ASSUME IInv, NEW p \in Slots, ExecDone(p)
  PROVE  IInv'
  <1> DEFINE k == Alloc(used)
             y == [st |-> "RUNNING", space |-> space, kstk |-> k]
             a == <<p, "kstk", 0, k>>
             T == [st : {"UNUSED", "RUNNING", "ZOMBIE"}, space : Spaces, kstk : Frame]
  <1>1. /\ fate = "ok" /\ pc = "slot" /\ proc[p].st = "UNUSED"
        /\ used' = used \cup {k}
        /\ proc' = [proc EXCEPT ![p] = y]
        /\ fate' = IdentityWrite(k)
        /\ cr3' \in {KernelDir, space.dir}
        /\ space' = NoSpace /\ size' = 0 /\ done' = 0 /\ old_dir' = 0 /\ pc' = "wait"
        /\ UNCHANGED <<heap, temp, lost>>
    BY DEF ExecDone, Mark, NULL
  <1>2. /\ k \in Frame /\ used \cup {k} \in SUBSET Frame
        /\ k # NULL => k \notin used /\ k >= Reserved
    BY AllocNow
  <1>3. TypeOK /\ SlotsOK BY DEF IInv
  <1>4. Complete(space, "img", size) /\ Complete(space, "stk", StackPages)
    BY <1>1 DEF IInv, Building
  <1>5. space \in Spaces /\ space.dir \in Frame /\ proc \in [Slots -> T]
    BY <1>3 DEF TypeOK, Spaces
  <1>6. y \in T /\ y.st = "RUNNING" /\ y.space = space /\ y.kstk = k BY <1>2, <1>5
  <1>7. a[4] = k OBVIOUS
  <1>8. ProcRefs(p, y) = UserRefs(p, space) \cup {r \in {a} : r[4] # NULL}
    BY <1>6 DEF ProcRefs
  <1> HIDE DEF k, y, a, T
  <1>9. TypeOK'
    <2>1. cr3' \in Frame BY <1>1, <1>5, NoTypes
    <2>2. fate' \in {"ok", "fault", "wild"} BY <1>1 DEF IdentityWrite
    <2>3. proc' \in [Slots -> T] BY <1>1, <1>5, <1>6
    <2>4. space' \in Spaces /\ old_dir' \in Frame /\ 0 \in 0 .. MaxPages
      BY <1>1, NoTypes, ImageAssumption, SMTT(30)
    <2> QED BY <2>1, <2>2, <2>3, <2>4, <1>1, <1>2, <1>3 DEF TypeOK, T
  <1>10. Books(AllRefs(heap', temp', space', proc'), used', lost')
    <2> DEFINE B == Others(heap, temp, proc) \cup UserRefs(p, space)
    <2>1. Books(B, used, lost) BY PassSpace DEF IInv
    <2>2. ProcRefs(p, proc[p]) = {} BY <1>1, <1>3, NoProcRefs DEF SlotsOK
    <2>3. Others(heap, temp, proc') = Others(heap, temp, proc) \cup ProcRefs(p, y)
      <3>1. SameButSlot(proc, proc', p) BY <1>1, <1>5 DEF SameButSlot
      <3>2. Others(heap, temp, proc') = Others(heap, temp, proc) \cup ProcRefs(p, proc'[p])
        BY <3>1, <2>2, FillSlot, SMTT(30)
      <3>3. proc'[p] = y BY <1>1, <1>5
      <3> QED BY <3>2, <3>3
    <2>4. AllRefs(heap, temp, NoSpace, proc') = Others(heap, temp, proc')
      BY NoUserRefs DEF AllRefs
    <2>5. AllRefs(heap, temp, NoSpace, proc') = B \cup {r \in {a} : r[4] # NULL}
      BY <2>3, <2>4, <1>8
    <2> HIDE DEF B
    <2>6. CASE k = NULL
      <3>1. AllRefs(heap, temp, NoSpace, proc') = B BY <2>5, <2>6, <1>7
      <3>2. Books(B, used \cup {0}, lost) BY <2>1, AddNone
      <3> QED BY <3>1, <3>2, <2>6, <1>1 DEF NULL
    <2>7. CASE k # NULL
      <3>1. AllRefs(heap, temp, NoSpace, proc') = B \cup {a} BY <2>5, <2>7, <1>7
      <3>2. Books(B \cup {a}, used \cup {k}, lost) BY <2>1, <2>7, <1>2, <1>7, AddOne
      <3> QED BY <3>1, <3>2, <1>1
    <2> QED BY <2>6, <2>7
  <1>11. Building' BY <1>1 DEF Building
  <1>12. SlotsOK'
    <2>1. proc'[p] = y /\ \A q \in Slots : q # p => proc'[q] = proc[q] BY <1>1, <1>5
    <2>2. \E n \in 0 .. MaxPages : Complete(y.space, "img", n)
      BY <1>3, <1>4, <1>6 DEF TypeOK
    <2>3. Complete(y.space, "stk", StackPages) BY <1>4, <1>6
    <2> QED BY <2>1, <2>2, <2>3, <1>3, <1>6 DEF SlotsOK
  <1> QED BY <1>9, <1>10, <1>11, <1>12 DEF IInv

\* A task switch changes CR3 alone.
LEMMA SwitchKeeps ==
  ASSUME IInv, Switch
  PROVE  IInv'
  <1>1. /\ UNCHANGED <<used, heap, temp, space, size, done, old_dir, proc, pc, fate, lost>>
        /\ cr3' = KernelDir \/ \E p \in Slots : cr3' = proc[p].space.dir
    BY DEF Switch, execVars
  <1>2. cr3' \in Frame BY <1>1, NoTypes, SMTT(30) DEF IInv, TypeOK, Spaces
  <1>3. TypeOK' BY <1>1, <1>2 DEF IInv, TypeOK
  <1>4. Books(AllRefs(heap', temp', space', proc'), used', lost') BY <1>1 DEF IInv
  <1>5. Building' BY <1>1 DEF IInv, Building
  <1>6. SlotsOK' BY <1>1 DEF IInv, SlotsOK
  <1> QED BY <1>3, <1>4, <1>5, <1>6 DEF IInv

\* The zombie keeps what the program had.
LEMMA SysExitKeeps ==
  ASSUME IInv, NEW p \in Slots, SysExit(p)
  PROVE  IInv'
  <1> DEFINE T == [st : {"UNUSED", "RUNNING", "ZOMBIE"}, space : Spaces, kstk : Frame]
  <1>1. /\ pc = "wait" /\ proc' = [proc EXCEPT ![p].st = "ZOMBIE"]
        /\ cr3' = KernelDir /\ pc' = "shell"
        /\ UNCHANGED <<used, heap, temp, space, size, done, old_dir, fate, lost>>
    BY DEF SysExit, execVars
  <1>2. TypeOK /\ SlotsOK BY DEF IInv
  <1>3. proc \in [Slots -> T] BY <1>2 DEF TypeOK
  <1>4. /\ proc'[p] = [proc[p] EXCEPT !.st = "ZOMBIE"]
        /\ \A q \in Slots : q # p => proc'[q] = proc[q]
        /\ proc' = [q \in Slots |-> proc'[q]]
    BY <1>1, <1>3
  <1>5. /\ proc'[p].st = "ZOMBIE" /\ proc'[p].space = proc[p].space
        /\ proc'[p].kstk = proc[p].kstk /\ proc'[p] \in T
    BY <1>3, <1>4
  <1> HIDE DEF T
  <1>6. proc' \in [Slots -> T] BY <1>3, <1>4, <1>5
  <1>7. TypeOK' BY <1>1, <1>2, <1>6, NoTypes DEF TypeOK, T
  <1>8. \A q \in Slots : ProcRefs(q, proc'[q]) = ProcRefs(q, proc[q])
    BY <1>4, <1>5 DEF ProcRefs
  <1>9. {ProcRefs(q, proc'[q]) : q \in Slots} = {ProcRefs(q, proc[q]) : q \in Slots}
    BY <1>8
  <1>10. AllRefs(heap', temp', space', proc') = AllRefs(heap, temp, space, proc)
    BY <1>1, <1>9 DEF AllRefs, Others
  <1>11. Books(AllRefs(heap', temp', space', proc'), used', lost')
    BY <1>1, <1>10 DEF IInv
  <1>12. Building' BY <1>1 DEF IInv, Building
  <1>13. SlotsOK' BY <1>2, <1>4, <1>5 DEF SlotsOK
  <1> QED BY <1>7, <1>11, <1>12, <1>13 DEF IInv

\* `kill` frees what the slot refers to, and frame 0 if it had no kernel stack.
LEMMA KillKeeps ==
  ASSUME IInv, NEW p \in Slots, Kill(p)
  PROVE  IInv'
  <1> DEFINE T == [st : {"UNUSED", "RUNNING", "ZOMBIE"}, space : Spaces, kstk : Frame]
             y == proc[p]
             F == FramesOf(y.space) \cup {y.kstk}
             R == AllRefs(heap, temp, space, proc)
             R2 == AllRefs(heap, temp, space, proc')
  <1>1. /\ pc = "shell" /\ used' = used \ F /\ proc' = [proc EXCEPT ![p] = NoProc]
        /\ UNCHANGED <<heap, temp, space, size, done, old_dir, cr3, pc, fate, lost>>
    BY DEF Kill, execVars, FreeDirectory
  <1>2. TypeOK /\ SlotsOK /\ Books(R, used, lost) BY DEF IInv
  <1>3. proc \in [Slots -> T] /\ y \in T /\ NoProc \in T BY <1>2, NoTypes DEF TypeOK
  <1> HIDE DEF T
  <1>4. /\ proc' \in [Slots -> T] /\ proc'[p] = NoProc
        /\ \A q \in Slots : q # p => proc'[q] = proc[q]
    BY <1>1, <1>3
  <1>5. TypeOK' BY <1>1, <1>2, <1>4 DEF TypeOK, T
  <1>6. ProcRefs(p, proc'[p]) = {} BY <1>4, NoProcRefs
  <1>7. Others(heap, temp, proc) = Others(heap, temp, proc') \cup ProcRefs(p, y)
    <2>1. SameButSlot(proc', proc, p) BY <1>4 DEF SameButSlot
    <2> HIDE DEF y
    <2>2. Others(heap, temp, proc) = Others(heap, temp, proc') \cup ProcRefs(p, proc[p])
      BY <2>1, <1>6, FillSlot, SMTT(30)
    <2> QED BY <2>2 DEF y
  <1>8. R = R2 \cup ProcRefs(p, y) BY <1>7 DEF AllRefs
  <1>9. \A r \in R2 : r[1] # p
    <2>1. ASSUME NEW r \in R2 PROVE r[1] # p
      <3>1. r \in Others(heap, temp, proc') \/ r \in UserRefs(1, space)
        BY <2>1 DEF AllRefs
      <3>2. CASE r \in Others(heap, temp, proc') BY <3>2, <1>6, FreeSlotTag
      <3>3. CASE r \in UserRefs(1, space)
        <4>1. r[1] = 1 /\ p # 1 BY <3>3, UserFacts, SlotAssumption, SMTT(30)
        <4> QED BY <4>1
      <3> QED BY <3>1, <3>2, <3>3
    <2> QED BY <2>1
  <1>10. \A r \in ProcRefs(p, y) : r[1] = p /\ r[4] \in F
    <2>1. \A r \in ProcRefs(p, y) : r[1] = p BY OwnerTags
    <2>2. \A r \in ProcRefs(p, y) : r[4] \in F BY UserFacts, SMTT(30) DEF ProcRefs
    <2> QED BY <2>1, <2>2
  <1>11. \A f \in F : f = 0 \/ \E r \in ProcRefs(p, y) : r[4] = f
    <2>1. ASSUME NEW f \in FramesOf(y.space) PROVE \E r \in ProcRefs(p, y) : r[4] = f
      BY <2>1, UserFacts, SMTT(30) DEF ProcRefs
    <2>2. ASSUME y.kstk # 0 PROVE \E r \in ProcRefs(p, y) : r[4] = y.kstk
      <3>1. <<p, "kstk", 0, y.kstk>>[4] = y.kstk OBVIOUS
      <3>2. <<p, "kstk", 0, y.kstk>> \in ProcRefs(p, y)
        BY <2>2, <3>1 DEF ProcRefs, NULL
      <3> QED BY <3>1, <3>2
    <2> QED BY <2>1, <2>2
  <1>12. \A r1, r2 \in R : r1[4] = r2[4] => r1 = r2 BY <1>2 DEF Books
  <1> HIDE DEF R, R2, F, y
  <1>13. \A r \in R : r \in R2 <=> r[4] \notin F
    <2>1. ASSUME NEW r \in R2, r[4] \in F PROVE FALSE
      <3>1. r \in R BY <1>8
      <3>2. r[4] # 0 BY <3>1, <1>2, FrameAssumption, SMTT(30) DEF Books
      <3>3. PICK q \in ProcRefs(p, y) : q[4] = r[4] BY <2>1, <3>2, <1>11
      <3>4. q = r BY <3>1, <3>3, <1>8, <1>12
      <3> QED BY <3>3, <3>4, <1>9, <1>10
    <2> QED BY <2>1, <1>8, <1>10
  <1>14. Books(R2, used \ F, lost)
    <2>1. R2 \subseteq R /\ \A f \in F : f = 0 \/ \E r \in R : r[4] = f BY <1>8, <1>11
    <2> QED BY <2>1, <1>2, <1>13, Drop
  <1>15. Books(AllRefs(heap', temp', space', proc'), used', lost')
    BY <1>14, <1>1 DEF R2
  <1>16. Building' BY <1>1 DEF IInv, Building
  <1>17. SlotsOK' BY <1>2, <1>4, SMTT(30) DEF SlotsOK, NoProc
  <1> QED BY <1>5, <1>15, <1>16, <1>17 DEF IInv
-------------------------------------------------------------------------------
(* The theorems *)

\* Every step keeps the invariant.
LEMMA NextIInv == IInv /\ [Next]_vars => IInv'
  <1> SUFFICES ASSUME IInv, [Next]_vars PROVE IInv' OBVIOUS
  <1>1. CASE HeapGrow BY <1>1, HeapGrowKeeps
  <1>2. CASE Exec
    BY <1>2, ExecNoDirKeeps, ExecCloneKeeps, FailuresKeep, LoadPageKeeps, StackPageKeeps,
       ExecDoneKeeps DEF Exec
  <1>3. CASE Switch BY <1>3, SwitchKeeps
  <1>4. CASE \E p \in Slots : SysExit(p) \/ Kill(p) BY <1>4, SysExitKeeps, KillKeeps
  <1>5. CASE UNCHANGED vars
    <2>1. UNCHANGED <<used, heap, temp, space, size, done, old_dir, cr3, proc, pc, fate, lost>>
      BY <1>5 DEF vars
    <2> QED BY <2>1 DEF IInv, TypeOK, Building, SlotsOK
  <1> QED BY <1>1, <1>2, <1>3, <1>4, <1>5 DEF Next

\* The invariant holds in every state.
THEOREM FrameInvariant == Spec => []IInv
  BY InitIInv, NextIInv, PTL DEF Spec

\* Frames are frames in every state, and the heap never holds the null frame.
THEOREM FrameTypes == Spec => []TypeOK
  <1>1. IInv => TypeOK BY DEF IInv
  <1> QED BY <1>1, FrameInvariant, PTL

\* No frame serves two purposes and none in use is free: exec_program() with its
\* failure paths, sys_exit() and `kill` neither free a frame too early nor twice,
\* whatever the size of memory.
THEOREM FramesHaveOneOwner == Spec => []OneOwner
  <1>1. IInv => OneOwner
    <2> SUFFICES ASSUME IInv PROVE OneOwner OBVIOUS
    <2>1. Refs = AllRefs(heap, temp, space, proc) BY RefsAreAllRefs DEF IInv
    <2>2. Books(Refs, used, lost) BY <2>1 DEF IInv
    <2> QED BY <2>2, SMTT(30) DEF Books, OneOwner, Owned
  <1> QED BY <1>1, FrameInvariant, PTL

\* No allocated frame is forgotten, except those whose page table could not be
\* allocated.
THEOREM NoFrameIsForgotten == Spec => []NothingForgotten
  <1>1. IInv => NothingForgotten
    <2> SUFFICES ASSUME IInv PROVE NothingForgotten OBVIOUS
    <2>1. Refs = AllRefs(heap, temp, space, proc) BY RefsAreAllRefs DEF IInv
    <2>2. Books(Refs, used, lost) BY <2>1 DEF IInv
    <2>3. \A f \in Frame : f \notin 0 .. Reserved - 1 <=> f >= Reserved
      BY FrameAssumption, SMTT(30) DEF Frame
    <2>4. ASSUME NEW f \in used, f \notin 0 .. Reserved - 1 PROVE f \in Owned \cup lost
      BY <2>2, <2>3, <2>4 DEF Books, Owned
    <2>5. ASSUME NEW f \in Owned \cup lost PROVE f \in used /\ f \notin 0 .. Reserved - 1
      BY <2>2, <2>3, <2>5, SMTT(30) DEF Books, Owned
    <2> QED BY <2>4, <2>5 DEF NothingForgotten
  <1> QED BY <1>1, FrameInvariant, PTL

\* A program that runs has all its pages and their tables, although
\* paging_map_page() reports no error.
THEOREM RunningProgramsAreComplete == Spec => []ProgramIsComplete
  <1>1. IInv => ProgramIsComplete
    <2> SUFFICES ASSUME IInv, NEW p \in Slots, proc[p].st = "RUNNING", NEW part \in Parts
                 PROVE  LET m == proc[p].space.map
                            pages == {i \in 1 .. MaxPages : m[<<part, i>>] # NULL}
                        IN  /\ \E n \in 0 .. MaxPages : pages = 1 .. n
                            /\ pages # {} => m[<<part, 0>>] # NULL
                            /\ part = "stk" => pages = 1 .. StackPages
      BY DEF ProgramIsComplete, Parts
    <2> DEFINE m == proc[p].space.map
               pages == {i \in 1 .. MaxPages : m[<<part, i>>] # NULL}
    <2>1. PICK n \in 0 .. MaxPages :
            /\ Complete(proc[p].space, part, n)
            /\ part = "stk" => n = StackPages
      BY ImageAssumption, SMTT(30) DEF IInv, SlotsOK, Parts
    <2>2. \A i \in 1 .. MaxPages : i \in 1 .. n \/ i \in n + 1 .. MaxPages
      BY ImageAssumption, SMTT(30)
    <2>3. \A i \in 1 .. n : i \in 1 .. MaxPages BY ImageAssumption, SMTT(30)
    <2>4. pages = 1 .. n
      <3>1. \A i \in 1 .. n : m[<<part, i>>] # NULL BY <2>1 DEF Complete
      <3>2. \A i \in n + 1 .. MaxPages : m[<<part, i>>] = NULL
        BY <2>1 DEF Complete, EmptyBeyond
      <3> QED BY <3>1, <3>2, <2>2, <2>3
    <2>5. pages # {} => m[<<part, 0>>] # NULL BY <2>1 DEF Complete, HasTable
    <2> QED BY <2>1, <2>4, <2>5
  <1> QED BY <1>1, FrameInvariant, PTL
===============================================================================
