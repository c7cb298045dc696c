------------------------ MODULE MemoryManagers_proofs -----------------------
(***************************************************************************)
(* The physical and the virtual memory manager for any machine: what       *)
(* PhysMem and VirtMem promise holds whatever the size of memory and of    *)
(* the tables, the boot map, the devices and the sizes callers ask for.    *)
(*                                                                         *)
(* PhysMem: the inductive invariant IInv ties three things that the code   *)
(* keeps apart: the ids written in the page list, the allocations callers  *)
(* hold, and the free pointer.  A page's state is a function of the first  *)
(* two, so a free that follows ids gives back exactly an allocation.       *)
(*                                                                         *)
(* VirtMem: the argument has three layers.  The words the manager writes   *)
(* name their frames (WordFacts), because a frame number is known by its   *)
(* twenty bits (BitsDetermine).  Once the directory is written every read  *)
(* and store for a page is one of its entry, and stores for two pages      *)
(* never meet (ThroughDirectory, Store, StoreAll).  On these rests VInv,   *)
(* which every step keeps together with IInv: that the virtual manager     *)
(* frees only what it was given is itself part of the argument.            *)
(***************************************************************************)
EXTENDS VirtMem, FiniteSetTheorems, FunctionTheorems, TLAPS

-----------------------------------------------------------------------------
(* A number and its bits: BitsDetermine is an induction from the highest bit *)

\* Every set of naturals that has an element has a least one.
LEMMA LeastNatural ==
  ASSUME NEW T \in SUBSET Nat, T # {}
  PROVE  \E m \in T : \A k \in T : m <= k
<1> DEFINE R == OpToRel(<, Nat)
<1>1. IsWellFoundedOn(R, Nat)
  BY NatLessThanWellFounded, Zenon
<1>2. \A x, y \in Nat : x < y => <<x, y>> \in R
  BY DEF OpToRel
<1> HIDE DEF R
<1>3. \E m \in T : \A k \in T : ~ (<<k, m>> \in R)
  BY <1>1, WFMin, Zenon
<1>4. PICK m \in T : \A k \in T : ~ (<<k, m>> \in R)
  BY <1>3
<1>5. ASSUME NEW k \in T PROVE m <= k
  <2>1. ~ (k < m)
    BY <1>2, <1>4
  <2> QED
    BY <2>1
<1> QED
  BY <1>5

\* Powers of two, as the provers need them: 2^k counts the subsets of 1 .. k.
LEMMA PowersOfTwo ==
  ASSUME NEW k \in Nat
  PROVE  /\ 2^k \in Nat \ {0}
         /\ k = 0 => 2^k = 1
         /\ 2^(k+1) = 2 * 2^k
<1>1. ASSUME NEW n \in Nat PROVE IsFiniteSet(SUBSET (1 .. n)) /\ Cardinality(SUBSET (1 .. n)) = 2^n /\ 2^n \in Nat
  <2>1. IsFiniteSet(1..n) /\ Cardinality(1 .. n) = n
    BY FS_Interval
  <2> QED
    BY <2>1, FS_SUBSET, FS_CardinalityType
<1> DEFINE A == SUBSET (1 .. k)
           B == {S \in SUBSET (1 .. (k+1)) : k+1 \in S}
           f == [S \in A |-> S \union {k+1}]
<1>2. SUBSET (1 .. (k+1)) = A \union B
  <2>1. ASSUME NEW S \in SUBSET (1 .. (k+1)), k+1 \notin S PROVE S \in A
    BY <2>1
  <2> QED BY <2>1
<1>3. A \cap B = {}
  OBVIOUS
<1>4. f \in Bijection(A, B)
  <2>1. f \in [A -> B]
    OBVIOUS
  <2>2. ASSUME NEW S \in A, NEW T \in A, f[S] = f[T] PROVE S = T
    <3>1. k+1 \notin S /\ k+1 \notin T
      OBVIOUS
    <3>2. S \union {k+1} = T \union {k+1}
      BY <2>2
    <3> QED BY <3>1, <3>2
  <2>3. ASSUME NEW T \in B PROVE \E S \in A : f[S] = T
    <3>1. T \ {k+1} \in A /\ f[T \ {k+1}] = T
      OBVIOUS
    <3> QED BY <3>1
  <2> QED
    BY <2>1, <2>2, <2>3, Fun_IsBij
<1>5. IsFiniteSet(A) /\ Cardinality(A) = 2^k /\ 2^k \in Nat
  BY <1>1
<1>6. Cardinality(SUBSET (1 .. (k + 1))) = 2^(k+1)
  <2>1. k + 1 \in Nat
    OBVIOUS
  <2> QED
    BY <2>1, <1>1, Zenon
<1> HIDE DEF A, B, f
<1>7. Cardinality(A \union B) = 2^(k+1)
  BY <1>2, <1>6
<1>8. ExistsBijection(A, B)
  BY <1>4 DEF ExistsBijection
<1>9. IsFiniteSet(B) /\ Cardinality(B) = 2^k
  BY <1>5, <1>8, FS_Bijection
<1>10. Cardinality(A \union B) = Cardinality(A) + Cardinality(B) - Cardinality(A \cap B)
  BY <1>5, <1>9, FS_Union
<1>11. Cardinality(A \cap B) = 0
  BY <1>3, FS_EmptySet
<1>12. Cardinality(A \union B) = 2^k + 2^k - 0
  BY <1>5, <1>9, <1>10, <1>11
<1>13. 2^(k+1) = 2^k + 2^k - 0
  BY <1>7, <1>12
<1>14. 2^k # 0
  <2>1. A # {}
    BY DEF A
  <2> QED
    BY <2>1, <1>5, FS_EmptySet
<1>15. ASSUME k = 0 PROVE 2^k = 1
  <2>1. A = {{}}
    BY <1>15 DEF A
  <2> QED
    BY <2>1, <1>5, FS_Singleton
<1> QED
  BY <1>5, <1>13, <1>14, <1>15

\* A number is its half and its last bit.
LEMMA HalfAndBit ==
  ASSUME NEW m \in Nat, NEW n \in Nat, m \div 2 = n \div 2, m % 2 = n % 2
  PROVE  m = n
BY SMT

\* A number below 2^K is determined by its bits below K.
LEMMA BitsDetermine ==
  ASSUME NEW K \in 0 .. 31, NEW m \in Nat, NEW n \in Nat, m < 2^K, n < 2^K,
         \A b \in 0 .. (K - 1) : b \in BitsOf(m) <=> b \in BitsOf(n)
  PROVE  m = n
<1> DEFINE Agree == {k \in 0 .. K : m \div 2^k = n \div 2^k}
<1>1. K \in Agree
  <2>1. 2^K \in Nat
    BY PowersOfTwo
  <2>2. m \div 2^K = 0 /\ n \div 2^K = 0
    BY <2>1
  <2> QED
    BY <2>2
<1>2. \A k : k \in Agree <=> k \in 0 .. K /\ m \div 2^k = n \div 2^k
  OBVIOUS
<1> HIDE DEF Agree
<1>3. Agree \in SUBSET Nat /\ Agree # {}
  BY <1>1, <1>2
<1>4. PICK j \in Agree : \A k \in Agree : j <= k
  BY <1>3, LeastNatural
<1>5. j \in 0 .. K /\ m \div 2^j = n \div 2^j
  BY <1>2
<1>6. CASE j > 0
  <2>1. PICK i \in Nat : i + 1 = j
    BY <1>5, <1>6
  <2>2. i \in 0 .. (K - 1) /\ i \in 0 .. 30 /\ i \in 0 .. K
    BY <1>5, <2>1
  <2>3. 2^i \in Nat \ {0} /\ 2^j = 2 * 2^i /\ 2^j \in Nat
    <3>1. 2^i \in Nat \ {0} /\ 2^(i+1) = 2 * 2^i
      BY PowersOfTwo
    <3> QED
      BY <3>1, <2>1
  <2>4. (m \div 2^i) % 2 = 1 <=> (n \div 2^i) % 2 = 1
    BY <2>2 DEF BitsOf
  <2>5. m \div 2^i = n \div 2^i
    <3>1. PICK p \in Nat \ {0}, q \in Nat : p = 2^i /\ q = 2^j
      BY <2>3
    <3>2. q = 2 * p /\ ((m \div p) % 2 = 1 <=> (n \div p) % 2 = 1) /\ m \div q = n \div q
      BY <3>1, <2>3, <2>4, <1>5
    <3>3. m \div p \in Nat /\ n \div p \in Nat
      OBVIOUS
    <3>4. (m \div p) \div 2 = m \div q /\ (n \div p) \div 2 = n \div q
      <4>1. (m \div p) \div 2 = m \div (2 * p)
        OBVIOUS
      <4>2. (n \div p) \div 2 = n \div (2 * p)
        OBVIOUS
      <4> QED
        BY <3>2, <4>1, <4>2
    <3>5. (m \div p) % 2 = (n \div p) % 2
      BY <3>2, <3>3
    <3>6. (m \div p) \div 2 = (n \div p) \div 2
      BY <3>2, <3>4
    <3>7. m \div p = n \div p
      BY <3>3, <3>5, <3>6, HalfAndBit
    <3> QED
      BY <3>1, <3>7
  <2>6. i \in Agree
    BY <1>2, <2>2, <2>5
  <2> QED
    BY <1>4, <2>1, <2>6
<1>7. CASE j = 0
  <2>1. 2^j = 1
    BY <1>7, PowersOfTwo
  <2>2. m \div 1 = m /\ n \div 1 = n
    OBVIOUS
  <2> QED
    BY <2>1, <2>2, <1>5
<1> QED
  BY <1>5, <1>6, <1>7

\* What 20 bits hold.
LEMMA TwentyBits ==
  ASSUME NEW k, k = 20
  PROVE  2^k = 1024 * 1024
<1> DEFINE e == [n \in Nat |-> 2^n]
<1>1. e[0] = 1 /\ \A n \in Nat : e[n + 1] = 2 * e[n]
  <2>1. \A n \in Nat : n = 0 => e[n] = 1
    BY PowersOfTwo
  <2>2. ASSUME NEW n \in Nat PROVE e[n + 1] = 2 * e[n]
    <3>1. n + 1 \in Nat
      OBVIOUS
    <3>2. e[n + 1] = 2^(n+1)
      BY <3>1
    <3> QED
      BY <3>2, PowersOfTwo
  <2> QED
    BY <2>1, <2>2
<1>2. 2^k = e[20]
  OBVIOUS
<1> HIDE DEF e
<1>3. e[5] = 32
  BY <1>1
<1>4. e[10] = 1024
  BY <1>1, <1>3
<1>5. e[15] = 1024 * 32
  BY <1>1, <1>4
<1>6. e[20] = 1024 * 1024
  BY <1>1, <1>5
<1> QED
  BY <1>2, <1>6

-----------------------------------------------------------------------------
(* The physical manager *)

IInv ==
  /\ TypeOK
  /\ IdsCorrect
  /\ FreePtrIsFirstUsable
  /\ PagesAccounted
  /\ NeverPanics

\* Rounding up to pages: a request of at least one byte needs a page.
LEMMA PagesForPositive ==
  ASSUME NEW s \in Nat, s # 0
  PROVE  PagesFor(s) \in Nat \ {0}
BY DEF PagesFor, PAGE_SIZE_BYTES

\* The boot state of a page is a memory state.
LEMMA BootStateType == BootState \in [Page -> MemState]
BY BootMapAssumption DEF BootState, MemState

\* The initial state satisfies the invariant.
LEMMA InitIInv == Init => IInv
<1> SUFFICES ASSUME Init PROVE IInv
  OBVIOUS
<1> USE DEF Init
<1>1. TypeOK
  BY BootStateType DEF TypeOK, Status
<1>2. IdsIssuedOnce
  BY DEF IdsIssuedOnce
<1>3. IdsNameBlocks
  BY DEF IdsNameBlocks
<1>4. FreePtrIsFirstUsable
  BY DEF FreePtrIsFirstUsable
<1>5. PagesAccounted
  BY DEF PagesAccounted
<1>6. NeverPanics
  BY DEF NeverPanics
<1> QED
  BY <1>1, <1>2, <1>3, <1>4, <1>5, <1>6 DEF IInv, IdsCorrect

\* The string freePageString follows from the base of a live allocation is
\* that allocation, and no other allocation shares a page with it.
LEMMA StringIsBlock ==
  ASSUME TypeOK, IdsIssuedOnce, IdsNameBlocks, NEW b \in blocks
  PROVE  /\ PageString(b.base) = Span(b)
         /\ \A c \in blocks : Span(c) \intersect Span(b) # {} => c = b
<1>1. /\ b.base \in Page /\ b.len \in Nat \ {0} /\ b.id \in Nat
      /\ Span(b) \subseteq Page
      /\ \A p \in Page : (allocID[p] = b.id) <=> (p \in Span(b))
  BY DEF TypeOK, Block, IdsNameBlocks
<1>2. N \in Nat /\ b.base \in Span(b)
  BY <1>1, PageCountAssumption DEF Span, Page
<1>3. allocID[b.base] = b.id
  BY <1>1, <1>2
<1>4. ASSUME NEW q \in PageString(b.base) PROVE q \in Span(b)
  <2>1. q \in Page /\ allocID[q] = b.id
    BY <1>1, <1>3 DEF PageString, Page
  <2> QED
    BY <2>1, <1>1
<1>5. ASSUME NEW q \in Span(b) PROVE q \in PageString(b.base)
  <2>1. q \in b.base .. (N - 1)
    BY <1>1, <1>2, <1>5 DEF Span, Page
  <2>2. ASSUME NEW r \in b.base .. q PROVE allocID[r] = allocID[b.base]
    <3>1. r \in Span(b)
      BY <1>1, <1>5, <2>2 DEF Span, Page
    <3> QED
      BY <3>1, <1>1, <1>3
  <2> QED
    BY <2>1, <2>2 DEF PageString
<1>6. ASSUME NEW c \in blocks, NEW p \in Span(c) \intersect Span(b)
      PROVE  c = b
  <2>1. p \in Page /\ allocID[p] = b.id /\ allocID[p] = c.id
    BY <1>1 DEF IdsNameBlocks
  <2> QED
    BY <2>1 DEF IdsIssuedOnce
<1> QED
  BY <1>4, <1>5, <1>6

\* A request that finds its pages extends the books by one allocation.
LEMMA FoundIInv ==
  ASSUME IInv, NEW s \in Requests, AllocateFound(s)
  PROVE  IInv'
<1> DEFINE n == PagesFor(s)
           W == Window(n)
           b == [id |-> nextAllocID', base |-> freePagePtr, len |-> n]
<1>1. n \in Nat \ {0} /\ nextAllocID' = nextAllocID + 1 /\ nextAllocID \in Nat
  BY PagesForPositive, RequestsAssumption DEF AllocateFound, Request, IInv, TypeOK
<1>2. /\ status = "running"
      /\ W \subseteq Page
      /\ \A p \in W : state[p] = "usable"
      /\ state' = [p \in Page |-> IF p \in W THEN "KERN" ELSE state[p]]
      /\ allocID' = [p \in Page |-> IF p \in W THEN nextAllocID' ELSE allocID[p]]
      /\ blocks' = IF status' = "running" THEN blocks \union {b} ELSE blocks
  BY DEF AllocateFound, Request, Usable, Mark
<1>3. \/ /\ status' = "running"
         /\ freePagePtr' \in Page
         /\ IsFirstUsable(freePagePtr', state')
      \/ /\ status' = "wild"
         /\ freePagePtr' = freePagePtr
  BY DEF AllocateFound, SetupFreePagePtr
<1>4. b \in Block /\ Span(b) = W /\ b.id = nextAllocID + 1
  BY <1>1 DEF Block, Span, Window, IInv, TypeOK
<1> HIDE DEF n, W, b
<1>5. TypeOK'
  BY <1>1, <1>2, <1>3, <1>4 DEF IInv, TypeOK, MemState, Status
<1>6. IdsIssuedOnce'
  BY <1>1, <1>2, <1>4 DEF IInv, IdsCorrect, TypeOK, Block, IdsIssuedOnce
<1>7. \A p \in W : \A c \in blocks : p \notin Span(c)
  BY <1>2 DEF IInv, IdsCorrect, IdsNameBlocks
<1>8. IdsNameBlocks'
  <2> SUFFICES ASSUME NEW c \in blocks'
               PROVE  /\ Span(c) \subseteq Page
                      /\ \A p \in Page :
                           /\ (allocID'[p] = c.id) <=> (p \in Span(c))
                           /\ (p \in Span(c)) => (state'[p] = "KERN")
    BY DEF IdsNameBlocks, Span
  <2>1. CASE c \in blocks
    <3>1. c.id # nextAllocID'
      BY <1>1, <2>1 DEF IInv, IdsCorrect, TypeOK, Block, IdsIssuedOnce
    <3> QED
      BY <3>1, <2>1, <1>2, <1>7 DEF IInv, IdsCorrect, IdsNameBlocks
  <2>2. CASE c = b
    <3>1. \A p \in Page : allocID[p] # c.id
      BY <1>1, <1>4, <2>2 DEF IInv, IdsCorrect, TypeOK, IdsIssuedOnce
    <3> QED
      BY <3>1, <2>2, <1>1, <1>2, <1>4
  <2> QED
    BY <2>1, <2>2, <1>2
<1>9. FreePtrIsFirstUsable'
  BY <1>3 DEF FreePtrIsFirstUsable, IsFirstUsable
<1>10. PagesAccounted'
  <2> SUFFICES ASSUME status' = "running", NEW p \in Page
               PROVE  IF \E c \in blocks' : p \in Span(c)
                      THEN BootState[p] = "usable" /\ state'[p] = "KERN"
                      ELSE state'[p] = BootState[p] /\ allocID'[p] = 0
    BY DEF PagesAccounted, Span
  <2>1. blocks' = blocks \union {b}
    BY <1>2
  <2>2. CASE p \in W
    <3>1. BootState[p] = "usable"
      BY <1>2, <1>7, <2>2 DEF IInv, PagesAccounted
    <3> QED
      BY <3>1, <2>1, <2>2, <1>2, <1>4
  <2>3. CASE p \notin W
    BY <2>1, <2>3, <1>2, <1>4 DEF IInv, PagesAccounted
  <2> QED
    BY <2>2, <2>3
<1>11. NeverPanics'
  BY <1>3 DEF NeverPanics
<1> QED
  BY <1>5, <1>6, <1>8, <1>9, <1>10, <1>11 DEF IInv, IdsCorrect

\* A request that hangs changes nothing but the id counter.
LEMMA SpinsIInv ==
  ASSUME IInv, NEW s \in Requests, AllocateSpins(s)
  PROVE  IInv'
<1>1. /\ status' = "hung"
      /\ nextAllocID' = nextAllocID + 1
      /\ UNCHANGED <<state, allocID, freePagePtr, blocks>>
  BY DEF AllocateSpins, Request
<1>2. TypeOK'
  BY <1>1 DEF IInv, TypeOK, Status
<1>3. IdsIssuedOnce'
  BY <1>1 DEF IInv, IdsCorrect, TypeOK, Block, IdsIssuedOnce
<1>4. IdsNameBlocks'
  BY <1>1 DEF IInv, IdsCorrect, IdsNameBlocks
<1>5. FreePtrIsFirstUsable' /\ PagesAccounted' /\ NeverPanics'
  BY <1>1 DEF FreePtrIsFirstUsable, PagesAccounted, NeverPanics
<1> QED
  BY <1>2, <1>3, <1>4, <1>5 DEF IInv, IdsCorrect

\* A request that runs past the end of the list marks pages nobody holds.
LEMMA RunsOffIInv ==
  ASSUME IInv, NEW s \in Requests, AllocateRunsOff(s)
  PROVE  IInv'
<1> DEFINE W == Window(PagesFor(s)) \intersect Page
<1>1. /\ status' = "wild"
      /\ nextAllocID' = nextAllocID + 1
      /\ UNCHANGED <<freePagePtr, blocks>>
      /\ \A p \in W : state[p] = "usable"
      /\ state' = [p \in Page |-> IF p \in W THEN "KERN" ELSE state[p]]
      /\ allocID' = [p \in Page |-> IF p \in W THEN nextAllocID' ELSE allocID[p]]
  BY DEF AllocateRunsOff, Request, Usable, Mark
<1> HIDE DEF W
<1>2. TypeOK'
  BY <1>1 DEF IInv, TypeOK, MemState, Status
<1>3. IdsIssuedOnce'
  BY <1>1 DEF IInv, IdsCorrect, TypeOK, Block, IdsIssuedOnce
<1>4. IdsNameBlocks'
  <2> SUFFICES ASSUME NEW c \in blocks
               PROVE  /\ Span(c) \subseteq Page
                      /\ \A p \in Page :
                           /\ (allocID'[p] = c.id) <=> (p \in Span(c))
                           /\ (p \in Span(c)) => (state'[p] = "KERN")
    BY <1>1 DEF IdsNameBlocks, Span
  <2>1. c.id # nextAllocID'
    BY <1>1 DEF IInv, IdsCorrect, TypeOK, Block, IdsIssuedOnce
  <2>2. \A p \in W : p \notin Span(c)
    BY <1>1 DEF IInv, IdsCorrect, IdsNameBlocks, W
  <2> QED
    BY <2>1, <2>2, <1>1 DEF IInv, IdsCorrect, IdsNameBlocks
<1>5. FreePtrIsFirstUsable' /\ PagesAccounted' /\ NeverPanics'
  BY <1>1 DEF FreePtrIsFirstUsable, PagesAccounted, NeverPanics
<1> QED
  BY <1>2, <1>3, <1>4, <1>5 DEF IInv, IdsCorrect

\* What Free does when it is given the base of a live allocation: it does
\* not panic, and it takes away that allocation and its pages.
LEMMA FreeEffect ==
  ASSUME IInv, NEW b \in blocks, Free(b.base)
  PROVE  /\ status = "running"
         /\ FreeString(b.base)
         /\ state' = [q \in Page |-> IF q \in Span(b) THEN "usable" ELSE state[q]]
         /\ allocID' = [q \in Page |-> IF q \in Span(b) THEN 0 ELSE allocID[q]]
         /\ blocks' = blocks \ {b}
         /\ nextAllocID' = nextAllocID
<1>1. /\ PageString(b.base) = Span(b)
      /\ \A c \in blocks : Span(c) \intersect Span(b) # {} => c = b
  BY StringIsBlock DEF IInv, IdsCorrect
<1>2. Span(b) # {} /\ \A q \in Span(b) : state[q] = "KERN"
  <2>1. b.base \in Span(b)
    BY PageCountAssumption DEF IInv, TypeOK, Block, Span, Page
  <2> QED
    BY <2>1 DEF IInv, IdsCorrect, IdsNameBlocks
<1>3. FreeString(b.base)
  BY <1>1, <1>2 DEF Free, FreePanics
<1>4. blocks' = blocks \ {b}
  BY <1>1, <1>2, <1>3 DEF FreeString, Unmark
<1> QED
  BY <1>1, <1>3, <1>4 DEF FreeString, Unmark

\* A free restores the books to what they were without the allocation.
LEMMA FreeIInv ==
  ASSUME IInv, NEW b \in blocks, Free(b.base)
  PROVE  IInv'
<1>1. /\ status = "running"
      /\ state' = [q \in Page |-> IF q \in Span(b) THEN "usable" ELSE state[q]]
      /\ allocID' = [q \in Page |-> IF q \in Span(b) THEN 0 ELSE allocID[q]]
      /\ blocks' = blocks \ {b}
      /\ nextAllocID' = nextAllocID
  BY FreeEffect
<1>2. /\ Span(b) \subseteq Page
      /\ \A c \in blocks : c # b => Span(c) \intersect Span(b) = {}
  BY StringIsBlock DEF IInv, IdsCorrect, IdsNameBlocks
<1>3. \/ /\ status' = "running"
         /\ freePagePtr' \in Page
         /\ IsFirstUsable(freePagePtr', state')
      \/ /\ status' = "wild"
         /\ freePagePtr' = freePagePtr
  BY FreeEffect DEF FreeString, SetupFreePagePtr
<1>4. TypeOK'
  BY <1>1, <1>3 DEF IInv, TypeOK, MemState, Status
<1>5. IdsIssuedOnce'
  BY <1>1 DEF IInv, IdsCorrect, TypeOK, IdsIssuedOnce
<1>6. IdsNameBlocks'
  <2> SUFFICES ASSUME NEW c \in blocks, c # b
               PROVE  /\ Span(c) \subseteq Page
                      /\ \A p \in Page :
                           /\ (allocID'[p] = c.id) <=> (p \in Span(c))
                           /\ (p \in Span(c)) => (state'[p] = "KERN")
    BY <1>1 DEF IdsNameBlocks, Span
  <2>1. c.id # 0 /\ Span(c) \intersect Span(b) = {}
    BY <1>2 DEF IInv, IdsCorrect, TypeOK, Block, IdsIssuedOnce
  <2> QED
    BY <2>1, <1>1 DEF IInv, IdsCorrect, IdsNameBlocks
<1>7. FreePtrIsFirstUsable'
  BY <1>3 DEF FreePtrIsFirstUsable, IsFirstUsable
<1>8. PagesAccounted'
  <2> SUFFICES ASSUME NEW p \in Page
               PROVE  IF \E c \in blocks' : p \in Span(c)
                      THEN BootState[p] = "usable" /\ state'[p] = "KERN"
                      ELSE state'[p] = BootState[p] /\ allocID'[p] = 0
    BY DEF PagesAccounted, Span
  <2>1. CASE p \in Span(b)
    <3>1. BootState[p] = "usable"
      BY <1>1, <2>1 DEF IInv, PagesAccounted
    <3>2. \A c \in blocks' : p \notin Span(c)
      BY <1>1, <1>2, <2>1
    <3> QED
      BY <3>1, <3>2, <1>1, <2>1
  <2>2. CASE p \notin Span(b)
    <3>1. (\E c \in blocks' : p \in Span(c)) <=> (\E c \in blocks : p \in Span(c))
      BY <1>1, <2>2
    <3> QED
      BY <3>1, <1>1, <2>2 DEF IInv, PagesAccounted
  <2> QED
    BY <2>1, <2>2
<1>9. NeverPanics'
  BY <1>3 DEF NeverPanics
<1> QED
  BY <1>4, <1>5, <1>6, <1>7, <1>8, <1>9 DEF IInv, IdsCorrect

-----------------------------------------------------------------------------
\* Every step of the manager keeps the invariant.
LEMMA NextIInv == IInv /\ [Next]_vars => IInv'
<1> SUFFICES ASSUME IInv, [Next]_vars PROVE IInv'
  OBVIOUS
<1>1. ASSUME NEW s \in Requests, Allocate(s) PROVE IInv'
  BY <1>1, FoundIInv, SpinsIInv, RunsOffIInv DEF Allocate
<1>2. ASSUME NEW b \in blocks, Free(b.base) PROVE IInv'
  BY <1>2, FreeIInv
<1>3. CASE UNCHANGED vars
  BY <1>3 DEF vars, IInv, TypeOK, IdsCorrect, IdsIssuedOnce, IdsNameBlocks, Span,
              FreePtrIsFirstUsable, IsFirstUsable, PagesAccounted, NeverPanics
<1> QED
  BY <1>1, <1>2, <1>3 DEF Next

\* The invariant holds in every state callers can bring the manager to.
THEOREM Invariance == Spec => []IInv
BY InitIInv, NextIInv, PTL DEF Spec

\* The fields of Memory keep their types.
THEOREM TypeCorrect == Spec => []TypeOK
<1>1. IInv => TypeOK
  BY DEF IInv
<1> QED
  BY <1>1, Invariance, PTL

\* While the manager runs, freePagePtr is the lowest usable page.
THEOREM FreePtrCorrect == Spec => []FreePtrIsFirstUsable
<1>1. IInv => FreePtrIsFirstUsable
  BY DEF IInv
<1> QED
  BY <1>1, Invariance, PTL

\* An allocation id on a page names the one allocation that holds it.
THEOREM IdsInvariant == Spec => []IdsCorrect
<1>1. IInv => IdsCorrect
  BY DEF IInv
<1> QED
  BY <1>1, Invariance, PTL

\* Every page is as it was at boot or held by a live allocation, and only
\* pages usable at boot are ever held.
THEOREM NothingLeaks == Spec => []PagesAccounted
<1>1. IInv => PagesAccounted
  BY DEF IInv
<1> QED
  BY <1>1, Invariance, PTL

\* Callers that free what they were given never make Free panic.
THEOREM NoPanic == Spec => []NeverPanics
<1>1. IInv => NeverPanics
  BY DEF IInv
<1> QED
  BY <1>1, Invariance, PTL

\* A free gives back exactly the pages of its allocation.
THEOREM FreeExact == Spec => FreeReleasesBlock
<1> DEFINE Exact ==
      \A b \in blocks \ blocks' :
        \A p \in Page :
          state'[p] = IF p \in Span(b) THEN "usable" ELSE state[p]
<1>1. IInv /\ [Next]_vars => [Exact]_vars
  <2> SUFFICES ASSUME IInv, Next PROVE Exact
    OBVIOUS
  <2>1. ASSUME NEW s \in Requests, Allocate(s) PROVE blocks \subseteq blocks'
    BY <2>1 DEF Allocate, AllocateFound, AllocateSpins, AllocateRunsOff
  <2>2. ASSUME NEW b \in blocks, Free(b.base) PROVE Exact
    <3>1. /\ blocks' = blocks \ {b}
          /\ state' = [q \in Page |-> IF q \in Span(b) THEN "usable" ELSE state[q]]
      BY <2>2, FreeEffect
    <3> QED
      BY <3>1
  <2> QED
    BY <2>1, <2>2 DEF Next
<1> QED
  BY <1>1, Invariance, PTL DEF Spec, FreeReleasesBlock

\* A request of one page takes the page of the free pointer: the search stops
\* where it starts.
LEMMA SinglePageFound ==
  ASSUME IInv, NEW s \in Requests, PagesFor(s) = 1, Allocate(s)
  PROVE  /\ status = "running"
         /\ freePagePtr \in Page /\ state[freePagePtr] = "usable"
         /\ Window(1) = {freePagePtr}
         /\ AllocateFound(s)
<1>1. status = "running"
  BY DEF Allocate, AllocateFound, AllocateSpins, AllocateRunsOff, Request
<1>2. freePagePtr \in Page /\ state[freePagePtr] = "usable"
  BY <1>1 DEF IInv, TypeOK, FreePtrIsFirstUsable, IsFirstUsable
<1>3. Window(1) = {freePagePtr}
  BY <1>2 DEF Window, Page
<1>4. AllocateFound(s)
  BY <1>2, <1>3 DEF Allocate, AllocateSpins, AllocateRunsOff, Usable
<1> QED
  BY <1>1, <1>2, <1>3, <1>4

\* The page a one-page request scans is the free pointer's, so it is found;
\* setupFreePagePtr then finds another, or there is none.
THEOREM SinglePageReturns == Spec => SinglePageServed
<1> DEFINE Answered(s) ==
             PagesFor(s) = 1 /\ Allocate(s) =>
               \/ \E b \in blocks' : b.id = nextAllocID' /\ b.base = freePagePtr
               \/ \A p \in Page : state'[p] # "usable"
           Served == \A s \in Requests : Answered(s)
<1>1. IInv => [Served]_vars
  <2> SUFFICES ASSUME IInv, NEW s \in Requests, PagesFor(s) = 1, Allocate(s)
               PROVE  \/ \E b \in blocks' : b.id = nextAllocID' /\ b.base = freePagePtr
                      \/ \A p \in Page : state'[p] # "usable"
    OBVIOUS
  <2>1. AllocateFound(s)
    BY SinglePageFound
  <2>2. CASE status' = "running"
    <3> DEFINE b == [id |-> nextAllocID', base |-> freePagePtr, len |-> PagesFor(s)]
    <3>1. b \in blocks' /\ b.id = nextAllocID' /\ b.base = freePagePtr
      BY <2>1, <2>2 DEF AllocateFound
    <3> QED
      BY <3>1
  <2>3. CASE status' # "running"
    BY <2>1, <2>3 DEF AllocateFound, SetupFreePagePtr
  <2> QED
    BY <2>2, <2>3
<1> QED
  BY <1>1, Invariance, PTL DEF Spec, SinglePageServed

-----------------------------------------------------------------------------
\* The manager implements PageAllocator: a search that succeeds grabs pages
\* nobody holds, a free releases one run, and everything that goes wrong is
\* the one step after which nothing changes hands.
THEOREM Refinement == Spec => ImplementsContract
<1> USE DEF Contract!vars
<1>1. Init => Contract!Init
  BY DEF Init, Contract!Init
<1>2. IInv /\ [Next]_vars => [Contract!Next]_(Contract!vars)
  <2> SUFFICES ASSUME IInv, [Next]_vars
               PROVE  Contract!Next \/ UNCHANGED Contract!vars
    OBVIOUS
  <2>1. ASSUME NEW s \in Requests, AllocateFound(s)
        PROVE  Contract!Next
    <3> DEFINE n == PagesFor(s)
               b == [id |-> nextAllocID', base |-> freePagePtr, len |-> n]
               last == freePagePtr + n - 1
    <3>1. n \in Nat \ {0} /\ freePagePtr \in Page
      BY <2>1, PagesForPositive, RequestsAssumption
         DEF AllocateFound, Request, IInv, TypeOK
    <3>2. /\ status = "running"
          /\ freePagePtr .. last \subseteq Page
          /\ \A p \in freePagePtr .. last : state[p] = "usable"
          /\ blocks' = IF status' = "running" THEN blocks \union {b} ELSE blocks
      BY <2>1 DEF AllocateFound, Request, Usable, Window
    <3>3. last \in Page /\ freePagePtr <= last
      BY <3>1, <3>2 DEF Page
    <3>4. Extent(b) = [first |-> freePagePtr, last |-> last]
      BY DEF Extent
    <3> HIDE DEF n, b, last
    <3>5. \A p \in freePagePtr .. last :
            /\ BootState[p] = "usable"
            /\ \A c \in blocks : p \notin Span(c)
      BY <3>2 DEF IInv, IdsCorrect, IdsNameBlocks, PagesAccounted
    <3>6. CASE status' = "running"
      <4>1. freePagePtr .. last \subseteq
              {p \in Page : BootState[p] = "usable"} \ Contract!Held
        BY <3>2, <3>5 DEF Contract!Held, Extent, Span
      <4>2. {Extent(c) : c \in blocks'} =
              {Extent(c) : c \in blocks}
                \union {[first |-> freePagePtr, last |-> last]}
        BY <3>2, <3>4, <3>6
      <4>3. Contract!Grab(freePagePtr, last)
        BY <3>2, <3>3, <3>6, <4>1, <4>2 DEF Contract!Grab, Extent
      <4> QED
        BY <3>1, <3>3, <4>3 DEF Contract!Next
    <3>7. CASE status' # "running"
      BY <3>2, <3>7 DEF Contract!Next, Contract!Stop, Extent
    <3> QED
      BY <3>6, <3>7
  <2>2. ASSUME NEW s \in Requests, AllocateSpins(s) \/ AllocateRunsOff(s)
        PROVE  Contract!Next
    <3>1. status = "running" /\ status' # "running" /\ blocks' = blocks
      BY <2>2 DEF AllocateSpins, AllocateRunsOff, Request
    <3> QED
      BY <3>1 DEF Contract!Next, Contract!Stop, Extent
  <2>3. ASSUME NEW b \in blocks, Free(b.base)
        PROVE  Contract!Next
    <3>1. status = "running" /\ blocks' = blocks \ {b}
      BY <2>3, FreeEffect
    <3>2. status' = "running"
      <4>1. b.base \in Page /\ b.base \in Span(b)
        BY PageCountAssumption DEF IInv, TypeOK, Block, Span, Page
      <4>2. state'[b.base] = "usable"
        BY <2>3, <4>1, FreeEffect
      <4> QED
        BY <2>3, <4>1, <4>2, FreeEffect DEF FreeString, SetupFreePagePtr
    <3>3. ASSUME NEW c \in blocks, Extent(c) = Extent(b) PROVE c = b
      <4>1. c.base = b.base /\ c.base \in Span(c) /\ b.base \in Span(b)
        BY <3>3, PageCountAssumption DEF Extent, IInv, TypeOK, Block, Span, Page
      <4> QED
        BY <4>1, StringIsBlock DEF IInv, IdsCorrect
    <3>4. {Extent(c) : c \in blocks'} = {Extent(c) : c \in blocks} \ {Extent(b)}
      BY <3>1, <3>3
    <3>5. Contract!Release(Extent(b))
      BY <3>1, <3>2, <3>4 DEF Contract!Release, Extent
    <3> QED
      BY <3>5 DEF Contract!Next
  <2>4. CASE UNCHANGED vars
    BY <2>4 DEF vars, Extent
  <2> QED
    BY <2>1, <2>2, <2>3, <2>4 DEF Next, Allocate
<1> QED
  BY <1>1, <1>2, Invariance, PTL DEF Spec, ImplementsContract, Contract!Spec

-----------------------------------------------------------------------------
(* The virtual manager *)

\* The words the manager writes: for a table, for a page of the kernel, and
\* for any other page, which is what VMM_UNMAP gives.
DirWord(i) == SetPTAddress(KERN_PDT, Addr(PTAddress + i))
KernWord(p) == SetPageAddress(KERN_PT, Addr(p))
UserWord(p) == SetPageAddress(USER_PT, Addr(p))

\* The word of the tables that belongs to virtual page v.
Entry(v) == mem[PTAddress + (v \div ENTRIES_COUNT)][v % ENTRIES_COUNT]

\* The entries that lead page p to itself.
Own(p) == {KernWord(p), UserWord(p)}

\* The directory leads to the tables, as far as it is written.
Directed ==
  \A i \in 0 .. (ENTRIES_COUNT - 1) :
    vstatus # "directory" \/ i < at => mem[PDTAddress][i] = DirWord(i)

TablesOK ==
  /\ mem \in [TableFrames -> [0 .. (ENTRIES_COUNT - 1) -> SUBSET Int]]
  /\ Directed

\* initializeMemory never panics, and nobody calls the managers before its end.
BootOK ==
  /\ vstatus \in {"directory", "map", "video", "test", "running"}
  /\ vstatus = "directory" => at \in 0 .. (ENTRIES_COUNT - 1)
  /\ vstatus = "map" => at \in Page
  /\ vstatus # "running" =>
       /\ held = {} /\ got = << >> /\ left = 0 /\ tlb = NoEntry
       /\ status = "running" /\ nextAllocID = 1

\* The whole list is mapped and nothing was allocated since.
Fresh ==
  \/ vstatus \in {"video", "test"}
  \/ vstatus = "running" /\ nextAllocID = 1

\* A page of the list leads to itself, or was unmapped and leads to page 0:
\* never to a third.
EntriesOK ==
  /\ vstatus = "map" => \A p \in 0 .. (at - 1) : Entry(p) \in Own(p)
  /\ Fresh => \A p \in Page \ Device : Entry(p) \in Own(p)
  /\ vstatus \in {"video", "test", "running"} =>
       \A p \in Page : Entry(p) \in Own(p) \union {UserWord(0)}

Blocks == held \union {got}

\* The pages of a block ascend, and no page is in two blocks.  The page that
\* Allocate gets next is above those it has: nobody frees in between.
BlocksOK ==
  /\ left \in Nat
  /\ got \in Seq(Page) /\ held \subseteq Seq(Page) \ {<< >>}
  /\ left = 0 => got = << >>
  /\ left > 0 => left + Len(got) \in Sizes
  /\ Disjoint
  /\ \A b \in Blocks : \A i, j \in DOMAIN b : i < j => b[i] < b[j]
  /\ status = "running" =>
       \A i \in DOMAIN got, p \in Page : state[p] = "usable" => got[i] < p

\* Every held page is an allocation of its own, of one page, and mapped.
HeldOK ==
  /\ \A c \in blocks : c.len = 1
  /\ nextAllocID = 1 => HeldPages = {}
  /\ \A p \in HeldPages : p # 0 /\ (\E c \in blocks : c.base = p) /\ Entry(p) = KernWord(p)

TlbOK ==
  tlb # NoEntry =>
    tlb.page \in VPage /\ (tlb.page \notin Device => tlb = Walk(tlb.page))

\* What every step keeps.
VInv == TablesOK /\ BootOK /\ EntriesOK /\ BlocksOK /\ HeldOK /\ TlbOK

-----------------------------------------------------------------------------
(* Words of the tables *)

\* The frame numbers of the tables' reach fit an entry.
LEMMA PageFits == ASSUME NEW k, k = 20, NEW v \in VPage PROVE v \in Nat /\ v < 2^k
<1>1. ENTRIES_COUNT * ENTRIES_COUNT <= 1024 * 1024
  <2>1. ENTRIES_COUNT \in Nat /\ ENTRIES_COUNT <= 1024
    BY TablesAssumption
  <2> QED
    BY <2>1, SMT
<1>2. v \in Nat /\ v < ENTRIES_COUNT * ENTRIES_COUNT
  BY TablesAssumption DEF VPage
<1>3. 2^k = 1024 * 1024
  BY TwentyBits
<1> QED
  BY <1>1, <1>2, <1>3, TablesAssumption, SMT

\* Two frames have the same address bits only if they are the same.
LEMMA AddressBitsInjective ==
  ASSUME NEW m \in VPage, NEW n \in VPage, AddressBits[m] = AddressBits[n]
  PROVE  m = n
<1>1. PICK K \in 0 .. 31 : K = 20
  OBVIOUS
<1>2. ASSUME NEW b \in 0 .. (K - 1)
      PROVE  b \in BitsOf(m) <=> b \in BitsOf(n)
  <2>1. b + 12 \in 12 .. 31 /\ b \in Int
    BY <1>1
  <2>2. \A w \in SUBSET Int : b \in w <=> b + 12 \in Field(Shift(w, 12), 12, 31)
    BY <2>1 DEF Field, Shift
  <2>3. BitsOf(m) \in SUBSET Int /\ BitsOf(n) \in SUBSET Int
    BY DEF BitsOf
  <2>4. Field(Shift(BitsOf(m), 12), 12, 31) = Field(Shift(BitsOf(n), 12), 12, 31)
    BY DEF AddressBits, Addr
  <2> QED
    BY <2>2, <2>3, <2>4
<1>3. m \in Nat /\ m < 2^K /\ n \in Nat /\ n < 2^K
  BY <1>1, PageFits
<1> QED
  BY <1>2, <1>3, BitsDetermine

\* An entry with the address bits of a frame names that frame.
LEMMA FrameOfWord ==
  ASSUME NEW frame \in VPage, NEW w, Field(w, 12, 31) = AddressBits[frame]
  PROVE  FrameOf(w) = frame
<1>1. \A other \in VPage : AddressBits[other] = Field(w, 12, 31) => other = frame
  BY AddressBitsInjective
<1> QED
  BY <1>1 DEF FrameOf

\* What the manager writes for a frame names it: KERN_PT for the kernel,
\* USER_PT for everyone, and both are present.
LEMMA WordFacts ==
  ASSUME NEW p \in VPage
  PROVE  /\ FrameOf(KernWord(p)) = p /\ {0, 1} \subseteq KernWord(p) /\ 2 \notin KernWord(p)
         /\ FrameOf(UserWord(p)) = p /\ {0, 1, 2} \subseteq UserWord(p)
         /\ KernWord(p) \in SUBSET Int /\ UserWord(p) \in SUBSET Int
<1>1. /\ KERN_PT = {0, 1} /\ USER_PT = {0, 1, 2}
  BY DEF KERN_PT, USER_PT, NONPRESENT_PT, PTSet, PTBit
<1>2. /\ KernWord(p) = {0, 1} \union AddressBits[p]
      /\ UserWord(p) = {0, 1, 2} \union AddressBits[p]
  BY <1>1 DEF KernWord, UserWord, SetPageAddress, AddressBits
<1>3. AddressBits[p] \subseteq 12 .. 31
  BY DEF AddressBits, Field
<1>4. Field(KernWord(p), 12, 31) = AddressBits[p] /\ Field(UserWord(p), 12, 31) = AddressBits[p]
  BY <1>2, <1>3 DEF Field
<1>5. FrameOf(KernWord(p)) = p /\ FrameOf(UserWord(p)) = p
  BY <1>4, FrameOfWord
<1> QED
  BY <1>2, <1>3, <1>5

\* The entries of the directory lead to the tables.
LEMMA DirWordFacts ==
  ASSUME NEW i \in 0 .. (ENTRIES_COUNT - 1)
  PROVE  /\ FrameOf(DirWord(i)) = PTAddress + i
         /\ {0, 1} \subseteq DirWord(i) /\ 2 \notin DirWord(i)
         /\ DirWord(i) \in SUBSET Int
<1> DEFINE f == PTAddress + i
<1>1. f \in VPage
  BY TablesAssumption DEF TableFrames
<1>2. KERN_PDT = {0, 1} /\ ~isMBPage(KERN_PDT)
  BY DEF KERN_PDT, PDTSet, PDTEntry, PDTBit, isMBPage
<1>3. DirWord(i) = {0, 1} \union AddressBits[f]
  BY <1>1, <1>2 DEF DirWord, SetPTAddress, AddressBits
<1>4. AddressBits[f] \subseteq 12 .. 31
  BY <1>1 DEF AddressBits, Field
<1> HIDE DEF f
<1>5. Field(DirWord(i), 12, 31) = AddressBits[f]
  BY <1>3, <1>4 DEF Field
<1>6. FrameOf(DirWord(i)) = f
  BY <1>1, <1>5, FrameOfWord
<1> QED
  BY <1>3, <1>4, <1>6 DEF f

-----------------------------------------------------------------------------
(* The way through the directory *)

\* A virtual page has a table and a place in it.
LEMMA PageIndex ==
  ASSUME NEW v \in VPage
  PROVE  /\ v \div ENTRIES_COUNT \in 0 .. (ENTRIES_COUNT - 1)
         /\ v % ENTRIES_COUNT \in 0 .. (ENTRIES_COUNT - 1)
         /\ PTAddress + (v \div ENTRIES_COUNT) \in TableFrames \ {PDTAddress}
<1>1. /\ v \div ENTRIES_COUNT \in 0 .. (ENTRIES_COUNT - 1)
      /\ v % ENTRIES_COUNT \in 0 .. (ENTRIES_COUNT - 1)
  BY TablesAssumption DEF VPage
<1>2. ASSUME NEW d \in 0 .. (ENTRIES_COUNT - 1)
      PROVE  PTAddress + d \in TableFrames \ {PDTAddress}
  BY TablesAssumption DEF TableFrames
<1> QED
  BY <1>1, <1>2

\* No two pages share a place.
LEMMA PageIndexUnique ==
  ASSUME NEW v \in VPage, NEW u \in VPage,
         PTAddress + (v \div ENTRIES_COUNT) = PTAddress + (u \div ENTRIES_COUNT),
         v % ENTRIES_COUNT = u % ENTRIES_COUNT
  PROVE  u = v
<1>1. \A a, b, c \in Int : a + b = a + c => b = c
  OBVIOUS
<1>2. v \div ENTRIES_COUNT \in Int /\ u \div ENTRIES_COUNT \in Int /\ PTAddress \in Int
  BY PageIndex, TablesAssumption
<1>3. v \div ENTRIES_COUNT = u \div ENTRIES_COUNT
  BY <1>1, <1>2
<1> QED
  BY <1>3, TablesAssumption DEF VPage

\* Once the directory is set up, all that is read or written for a page is
\* its entry in the table.
LEMMA ThroughDirectory ==
  ASSUME TablesOK, vstatus # "directory", NEW v \in VPage
  PROVE  /\ TableOf(v) = PTAddress + (v \div ENTRIES_COUNT)
         /\ TableOf(v) \in TableFrames \ {PDTAddress}
         /\ GetPageEntry(v) = Entry(v)
         /\ Translate(v) = FrameOf(Entry(v))
         /\ {0, 1} \subseteq DirEntry(v) /\ 2 \notin DirEntry(v)
<1> DEFINE d == v \div ENTRIES_COUNT
<1>1. d \in 0 .. (ENTRIES_COUNT - 1)
  BY PageIndex
<1>2. DirEntry(v) = DirWord(d)
  BY <1>1 DEF DirEntry, TablesOK, Directed
<1>3. TableOf(v) = PTAddress + d
  BY <1>1, <1>2, DirWordFacts DEF TableOf
<1>4. TableOf(v) \in TableFrames \ {PDTAddress}
  BY <1>3, PageIndex
<1> QED
  BY <1>1, <1>2, <1>3, <1>4, DirWordFacts DEF GetPageEntry, Entry, Translate

\* What the processor makes of an entry that the manager wrote.
LEMMA WalkOf ==
  ASSUME TablesOK, vstatus # "directory", NEW v \in VPage
  PROVE  Walk(v) = [page |-> v, present |-> 0 \in Entry(v), frame |-> FrameOf(Entry(v)),
                    write |-> 1 \in Entry(v), user |-> FALSE]
<1> DEFINE both == DirEntry(v) \intersect GetPageEntry(v)
<1>1. /\ (0 \in both) = (0 \in Entry(v))
      /\ (1 \in both) = (1 \in Entry(v))
      /\ (2 \in both) = FALSE
  BY ThroughDirectory
<1>2. Walk(v) = [page |-> v, present |-> 0 \in both, frame |-> FrameOf(GetPageEntry(v)),
                 write |-> 1 \in both, user |-> 2 \in both]
  BY DEF Walk
<1>3. GetPageEntry(v) = Entry(v)
  BY ThroughDirectory
<1> HIDE DEF both
<1> QED
  BY <1>1, <1>2, <1>3

\* The processor finds what it found before as long as the entry stays.
LEMMA SameWalk ==
  ASSUME TablesOK, TablesOK', vstatus # "directory", vstatus' # "directory",
         NEW v \in VPage, Entry(v)' = Entry(v)
  PROVE  Walk(v)' = Walk(v)
<1> DEFINE d == v \div ENTRIES_COUNT
<1>1. d \in 0 .. (ENTRIES_COUNT - 1)
  BY PageIndex
<1>2. DirEntry(v) = DirWord(d) /\ DirEntry(v)' = DirWord(d)
  BY <1>1 DEF DirEntry, TablesOK, Directed
<1>3. TableOf(v) = PTAddress + d /\ TableOf(v)' = PTAddress + d
  BY <1>1, <1>2, DirWordFacts DEF TableOf
<1>4. GetPageEntry(v) = Entry(v) /\ GetPageEntry(v)' = Entry(v)'
  BY <1>3 DEF GetPageEntry, Entry
<1> QED
  BY <1>2, <1>4 DEF Walk

\* createPTEntry, for the flags its callers use.
LEMMA createPTEntryFacts ==
  ASSUME NEW frame
  PROVE  /\ createPTEntry(frame, VMM_KERN) = KernWord(frame)
         /\ createPTEntry(frame, VMM_UNMAP) = UserWord(frame)
BY DEF createPTEntry, VMM_KERN, VMM_UNMAP, KernWord, UserWord

\* A store through the directory changes the entry of its page and no other.
LEMMA Store ==
  ASSUME TablesOK, vstatus # "directory", vstatus' # "directory",
         NEW v \in VPage, NEW word \in SUBSET Int,
         mem' = WriteEntry(mem, v, word)
  PROVE  /\ TablesOK'
         /\ \A u \in VPage : Entry(u)' = IF u = v THEN word ELSE Entry(u)
<1> DEFINE f == TableOf(v)
           i == v % ENTRIES_COUNT
<1>1. /\ f \in TableFrames \ {PDTAddress} /\ i \in 0 .. (ENTRIES_COUNT - 1)
      /\ f = PTAddress + (v \div ENTRIES_COUNT)
  BY ThroughDirectory, PageIndex
<1>2. mem' = [mem EXCEPT ![f] = [mem[f] EXCEPT ![i] = word]]
  BY DEF WriteEntry
<1> HIDE DEF f, i
<1>3. mem' \in [TableFrames -> [0 .. (ENTRIES_COUNT - 1) -> SUBSET Int]]
  BY <1>1, <1>2 DEF TablesOK
<1>4. mem'[PDTAddress] = mem[PDTAddress]
  BY <1>1, <1>2 DEF TablesOK, TableFrames
<1>5. TablesOK'
  BY <1>3, <1>4 DEF TablesOK, Directed
<1>6. ASSUME NEW u \in VPage
      PROVE  Entry(u)' = IF u = v THEN word ELSE Entry(u)
  <2> DEFINE g == PTAddress + (u \div ENTRIES_COUNT)
             j == u % ENTRIES_COUNT
  <2>1. g \in TableFrames /\ j \in 0 .. (ENTRIES_COUNT - 1)
    BY PageIndex
  <2>2. g = f /\ j = i <=> u = v
    <3>1. CASE u = v
      BY <1>1, <3>1 DEF i
    <3>2. CASE u # v
      <4>1. ~ (g = PTAddress + (v \div ENTRIES_COUNT) /\ j = v % ENTRIES_COUNT)
        BY <3>2, PageIndexUnique
      <4> QED
        BY <1>1, <3>2, <4>1 DEF i
    <3> QED
      BY <3>1, <3>2
  <2>3. mem'[g][j] = IF g = f /\ j = i THEN word ELSE mem[g][j]
    <3> HIDE DEF g, j
    <3>1. mem[f] \in [0 .. (ENTRIES_COUNT - 1) -> SUBSET Int]
      BY <1>1 DEF TablesOK
    <3>2. mem'[g] = IF g = f THEN [mem[f] EXCEPT ![i] = word] ELSE mem[g]
      BY <1>2, <2>1 DEF TablesOK
    <3> QED
      BY <1>1, <2>1, <3>1, <3>2
  <2>4. Entry(u)' = mem'[g][j] /\ Entry(u) = mem[g][j]
    BY DEF Entry
  <2> QED
    BY <2>2, <2>3, <2>4
<1> QED
  BY <1>5, <1>6

\* The loop of Free writes the entry of frame 0 for each page it unmaps, and
\* changes no other.
LEMMA StoreAll ==
  ASSUME TablesOK, vstatus # "directory", vstatus' # "directory",
         NEW V \in SUBSET VPage, UnmapAll(V)
  PROVE  /\ TablesOK'
         /\ \A u \in VPage : Entry(u)' = IF u \in V THEN UserWord(0) ELSE Entry(u)
<1> DEFINE Hit(f, i) == \E v \in V : TableOf(v) = f /\ v % ENTRIES_COUNT = i
<1>1. UserWord(0) \in SUBSET Int
  BY PageCountAssumption, TablesAssumption, WordFacts DEF Page
<1>2. mem' = [f \in TableFrames |-> [i \in 0 .. (ENTRIES_COUNT - 1) |->
                IF Hit(f, i) THEN UserWord(0) ELSE mem[f][i]]]
  BY createPTEntryFacts DEF UnmapAll
<1>3. ASSUME NEW f \in TableFrames, NEW i \in 0 .. (ENTRIES_COUNT - 1)
      PROVE  Hit(f, i) => f # PDTAddress
  BY ThroughDirectory
<1>4. ASSUME NEW u \in VPage
      PROVE  Hit(PTAddress + (u \div ENTRIES_COUNT), u % ENTRIES_COUNT) <=> u \in V
  <2>1. TableOf(u) = PTAddress + (u \div ENTRIES_COUNT)
    BY ThroughDirectory
  <2>2. ASSUME NEW v \in V, TableOf(v) = TableOf(u), v % ENTRIES_COUNT = u % ENTRIES_COUNT
        PROVE  v = u
    <3>1. TableOf(v) = PTAddress + (v \div ENTRIES_COUNT)
      BY ThroughDirectory
    <3> QED
      BY <2>1, <2>2, <3>1, PageIndexUnique
  <2> QED
    BY <2>1, <2>2
<1> HIDE DEF Hit
<1>5. mem' \in [TableFrames -> [0 .. (ENTRIES_COUNT - 1) -> SUBSET Int]]
  BY <1>1, <1>2 DEF TablesOK
<1>6. Directed'
  <2>1. \A i \in 0 .. (ENTRIES_COUNT - 1) : mem'[PDTAddress][i] = mem[PDTAddress][i]
    BY <1>2, <1>3 DEF TableFrames
  <2> QED
    BY <2>1 DEF TablesOK, Directed
<1>7. ASSUME NEW u \in VPage
      PROVE  Entry(u)' = IF u \in V THEN UserWord(0) ELSE Entry(u)
  <2>1. /\ PTAddress + (u \div ENTRIES_COUNT) \in TableFrames
        /\ u % ENTRIES_COUNT \in 0 .. (ENTRIES_COUNT - 1)
    BY PageIndex
  <2> QED
    BY <1>2, <1>4, <2>1 DEF Entry
<1> QED
  BY <1>5, <1>6, <1>7 DEF TablesOK

-----------------------------------------------------------------------------
(* Blocks *)

\* A held page is a page of a block, or of the one Allocate puts together.
LEMMA HeldPage ==
  ASSUME NEW p
  PROVE  p \in HeldPages <=> \E b \in Blocks : \E i \in DOMAIN b : b[i] = p
BY DEF HeldPages, Blocks, Pages

\* Nothing is held before paging is on.
LEMMA NothingHeld == ASSUME held = {}, got = << >> PROVE HeldPages = {}
BY HeldPage DEF Blocks

\* The blocks do not change with the tables.
LEMMA SameBlocks ==
  ASSUME BlocksOK, UNCHANGED <<left, got, held, state, status>>
  PROVE  BlocksOK' /\ HeldPages' = HeldPages
BY DEF BlocksOK, Blocks, Disjoint, HeldPages, Pages

\* Page 0 belongs to the kernel or is reserved.
LEMMA ZeroNotUsable == BootState[0] # "usable"
<1>1. 0 \in Page /\ {q \in 0 .. (0 - 1) : BootMap[q] # "reserved"} = {}
  BY PageCountAssumption DEF Page
<1>2. Cardinality({q \in 0 .. (0 - 1) : BootMap[q] # "reserved"}) < KernelPages
  BY <1>1, KernelAssumption, FS_EmptySet
<1>3. 0 \in KernelReserved \/ BootMap[0] = "reserved"
  BY <1>1, <1>2 DEF KernelReserved
<1> QED
  BY <1>1, <1>3 DEF BootState

\* Held pages are KERN: the page is an allocation of the physical manager.
LEMMA HeldIsKern ==
  ASSUME IInv, HeldOK, NEW p \in HeldPages
  PROVE  /\ p \in Page /\ p # 0 /\ state[p] = "KERN" /\ Entry(p) = KernWord(p)
         /\ \E c \in blocks : c.base = p /\ c.len = 1 /\ Span(c) = {p}
<1>1. PICK c \in blocks : c.base = p /\ c.len = 1
  BY DEF HeldOK
<1>2. p \in Page /\ Span(c) = {p}
  BY <1>1 DEF IInv, TypeOK, Block, Span, Page
<1>3. state[p] = "KERN"
  BY <1>1, <1>2 DEF IInv, IdsCorrect, IdsNameBlocks
<1> QED
  BY <1>1, <1>2, <1>3 DEF HeldOK

\* Held pages are pages that were usable at boot.
LEMMA HeldIsRam ==
  ASSUME IInv, HeldOK, BlocksOK, status = "running", NEW p \in HeldPages
  PROVE  p \in Page /\ BootState[p] = "usable" /\ p # 0
<1>1. PICK c \in blocks : c.base = p /\ c.len = 1
  BY DEF HeldOK
<1>2. p \in Page /\ p \in Span(c)
  BY <1>1 DEF IInv, TypeOK, Block, Span, Page
<1>3. BootState[p] = "usable"
  BY <1>2 DEF IInv, PagesAccounted
<1>4. BootState[0] # "usable"
  BY ZeroNotUsable
<1> QED
  BY <1>2, <1>3, <1>4

\* A store to the entry of a page that nobody holds leaves the held ones.
LEMMA SameHeld ==
  ASSUME HeldOK, UNCHANGED <<blocks, nextAllocID>>, HeldPages' = HeldPages,
         \A p \in HeldPages : Entry(p)' = Entry(p)
  PROVE  HeldOK'
BY DEF HeldOK

-----------------------------------------------------------------------------
(* The steps keep the invariant *)

\* Nothing is mapped and nothing held when initializeMemory begins.
LEMMA VInitVInv == VInit => VInv
<1> SUFFICES ASSUME VInit PROVE VInv
  OBVIOUS
<1> USE DEF VInit
<1>1. TablesOK
  BY TablesAssumption DEF TablesOK, Directed
<1>2. BootOK
  BY TablesAssumption DEF BootOK, Init
<1>3. EntriesOK
  BY DEF EntriesOK, Fresh
<1>4. BlocksOK
  BY DEF BlocksOK, Blocks, Disjoint
<1>5. HeldOK
  BY NothingHeld DEF HeldOK, Init
<1>6. TlbOK
  BY DEF TlbOK
<1> QED
  BY <1>1, <1>2, <1>3, <1>4, <1>5, <1>6 DEF VInv

\* The directory is written entry by entry.
LEMMA DirectoryStep ==
  ASSUME VInv, SetupPageDirectoryTable
  PROVE  VInv'
<1> USE DEF VInv
<1>1. /\ vstatus = "directory" /\ at \in 0 .. (ENTRIES_COUNT - 1)
      /\ mem' = [mem EXCEPT ![PDTAddress] = [mem[PDTAddress] EXCEPT ![at] = DirWord(at)]]
      /\ UNCHANGED <<tlb, left, got, held>> /\ UNCHANGED vars
  BY DEF SetupPageDirectoryTable, BootOK, DirWord
<1>2. \/ at + 1 < ENTRIES_COUNT /\ at' = at + 1 /\ vstatus' = "directory"
      \/ at + 1 = ENTRIES_COUNT /\ at' = 0 /\ vstatus' = "map"
  BY <1>1, TablesAssumption DEF SetupPageDirectoryTable, Turn
<1>3. TablesOK'
  <2>1. PDTAddress \in TableFrames
    BY DEF TableFrames
  <2>2. mem' \in [TableFrames -> [0 .. (ENTRIES_COUNT - 1) -> SUBSET Int]]
    BY <1>1, <2>1, DirWordFacts DEF TablesOK
  <2>3. \A i \in 0 .. (ENTRIES_COUNT - 1) :
          mem'[PDTAddress][i] = IF i = at THEN DirWord(at) ELSE mem[PDTAddress][i]
    BY <1>1, <2>1 DEF TablesOK
  <2>4. Directed'
    BY <1>1, <1>2, <2>3 DEF TablesOK, Directed
  <2> QED
    BY <2>2, <2>4 DEF TablesOK
<1>4. BootOK'
  <2>1. vstatus' = "directory" => at' \in 0 .. (ENTRIES_COUNT - 1)
    BY <1>1, <1>2, TablesAssumption
  <2>2. vstatus' = "map" => at' \in Page
    BY <1>2, PageCountAssumption DEF Page
  <2>3. nextAllocID' = nextAllocID /\ status' = status
    BY <1>1 DEF vars
  <2> QED
    BY <1>1, <1>2, <2>1, <2>2, <2>3 DEF BootOK
<1>5. EntriesOK'
  BY <1>1, <1>2 DEF EntriesOK, Fresh
<1>6. BlocksOK' /\ HeldPages' = HeldPages
  BY <1>1, SameBlocks DEF vars
<1>7. HeldPages = {}
  BY <1>1, NothingHeld DEF BootOK
<1>8. HeldOK' /\ TlbOK'
  BY <1>1, <1>6, <1>7, SameHeld DEF BootOK, TlbOK, vars
<1> QED
  BY <1>3, <1>4, <1>5, <1>6, <1>8

\* mapSystemMemory maps each page of the list, and video memory, to itself.
LEMMA MapSystemStep ==
  ASSUME VInv, MapSystemMemory
  PROVE  VInv'
<1> USE DEF VInv
<1>1. /\ vstatus \in {"map", "video"}
      /\ UNCHANGED <<left, got, held>> /\ UNCHANGED vars
      /\ tlb' = NoEntry
  BY DEF MapSystemMemory, map
<1>2. BlocksOK' /\ HeldPages' = HeldPages
  BY <1>1, SameBlocks DEF vars
<1>3. HeldPages = {}
  BY <1>1, NothingHeld DEF BootOK
<1>4. HeldOK' /\ TlbOK'
  BY <1>1, <1>2, <1>3, SameHeld DEF TlbOK, vars
<1>5. Page \subseteq VPage /\ VideoPage \in Page
  BY TablesAssumption, VirtAssumption
<1>6. CASE vstatus = "map"
  <2>1. /\ at \in Page
        /\ mem' = WriteEntry(mem, at, createPTEntry(at,
                    IF state[at] = "usable" THEN VMM_KERN ELSE VMM_UNMAP))
        /\ Turn(at + 1, N, "video")
    BY <1>6 DEF MapSystemMemory, map, BootOK
  <2>2. PICK word \in Own(at) : mem' = WriteEntry(mem, at, word)
    BY <2>1, createPTEntryFacts DEF Own
  <2>3. word \in SUBSET Int
    BY <1>5, <2>1, WordFacts DEF Own
  <2>4. \/ at + 1 < N /\ at' = at + 1 /\ vstatus' = "map"
        \/ at + 1 = N /\ at' = 0 /\ vstatus' = "video"
    BY <1>6, <2>1, PageCountAssumption DEF Turn, Page
  <2>5. /\ TablesOK'
        /\ \A u \in VPage : Entry(u)' = IF u = at THEN word ELSE Entry(u)
    BY <1>5, <1>6, <2>1, <2>2, <2>3, <2>4, Store
  <2>6. \A p \in 0 .. at : Entry(p)' \in Own(p)
    <3> SUFFICES ASSUME NEW p \in 0 .. at PROVE Entry(p)' \in Own(p)
      OBVIOUS
    <3>1. p \in VPage
      BY <1>5, <2>1, PageCountAssumption DEF Page
    <3>2. CASE p = at
      BY <2>2, <2>5, <3>1, <3>2
    <3>3. CASE p # at
      <4>1. p \in 0 .. (at - 1)
        BY <2>1, <3>3 DEF Page
      <4> QED
        BY <1>6, <2>5, <3>1, <3>3, <4>1 DEF EntriesOK
    <3> QED
      BY <3>2, <3>3
  <2>7. EntriesOK'
    <3>1. CASE vstatus' = "map"
      <4>1. 0 .. (at' - 1) = 0 .. at
        BY <2>1, <2>4, <3>1 DEF Page
      <4> QED
        BY <2>6, <3>1, <4>1 DEF EntriesOK, Fresh, Own
    <3>2. CASE vstatus' = "video"
      <4>1. Page = 0 .. at
        BY <2>1, <2>4, <3>2, PageCountAssumption DEF Page
      <4> QED
        BY <2>6, <3>2, <4>1 DEF EntriesOK, Fresh, Own
    <3> QED
      BY <2>4, <3>1, <3>2
  <2>8. BootOK'
    <3>1. vstatus' = "map" => at' \in Page
      BY <2>1, <2>4, PageCountAssumption DEF Page
    <3>2. nextAllocID' = nextAllocID /\ status' = status
      BY <1>1 DEF vars
    <3> QED
      BY <1>1, <2>4, <3>1, <3>2 DEF BootOK
  <2> QED
    BY <1>2, <1>4, <2>5, <2>7, <2>8
<1>7. CASE vstatus = "video"
  <2>1. /\ mem' = WriteEntry(mem, VideoPage, KernWord(VideoPage))
        /\ vstatus' = "test" /\ at' = at
    BY <1>7, createPTEntryFacts DEF MapSystemMemory, map
  <2>2. KernWord(VideoPage) \in SUBSET Int
    BY <1>5, WordFacts
  <2>3. /\ TablesOK'
        /\ \A u \in VPage : Entry(u)' = IF u = VideoPage THEN KernWord(u) ELSE Entry(u)
    BY <1>5, <1>7, <2>1, <2>2, Store
  <2>4. EntriesOK'
    BY <1>5, <1>7, <2>1, <2>3 DEF EntriesOK, Fresh, Own
  <2>5. BootOK'
    BY <1>1, <1>7, <2>1 DEF BootOK, vars
  <2> QED
    BY <1>2, <1>4, <2>3, <2>4, <2>5
<1> QED
  BY <1>1, <1>6, <1>7

\* The self test passes.
LEMMA TestStep ==
  ASSUME IInv, VInv, vstatus = "test"
  PROVE  TestPasses
<1> SUFFICES ASSUME NEW p \in TestedPages, state[p] = "usable"
             PROVE  Translate(p) = p
  BY DEF TestPasses
<1>1. p \in Page /\ p \in VPage
  BY TestAssumption, TablesAssumption
<1>2. p \notin Device
  <2>1. status = "running"
    BY DEF VInv, BootOK
  <2>2. BootState[p] = "usable"
    BY <1>1, <2>1 DEF IInv, PagesAccounted
  <2> QED
    BY <2>2, VirtAssumption
<1>3. Entry(p) \in Own(p)
  BY <1>1, <1>2 DEF VInv, EntriesOK, Fresh
<1> QED
  BY <1>1, <1>3, ThroughDirectory, WordFacts DEF VInv, Own

\* Paging is turned on.
LEMMA EnablePagingStep ==
  ASSUME IInv, VInv, EnablePaging
  PROVE  VInv'
<1> USE DEF VInv
<1>1. /\ vstatus = "test" /\ vstatus' = "running"
      /\ UNCHANGED <<at, mem, tlb, left, got, held>> /\ UNCHANGED vars
  BY TestStep DEF EnablePaging
<1>2. TablesOK' /\ TlbOK' /\ BootOK'
  BY <1>1 DEF TablesOK, Directed, BootOK, TlbOK
<1>3. EntriesOK'
  BY <1>1 DEF EntriesOK, Fresh, Entry, Own
<1>4. BlocksOK' /\ HeldPages' = HeldPages
  BY <1>1, SameBlocks DEF vars
<1>5. HeldOK'
  BY <1>1, <1>4, SameHeld DEF Entry, vars
<1> QED
  BY <1>2, <1>3, <1>4, <1>5

\* A call of Allocate begins.
LEMMA VAllocateStep ==
  ASSUME VInv, NEW k \in Sizes, VAllocate(k)
  PROVE  VInv'
<1> USE DEF VInv
<1>1. /\ vstatus = "running" /\ left = 0 /\ left' = k /\ got = << >>
      /\ UNCHANGED <<vstatus, at, mem, tlb, got, held>> /\ UNCHANGED vars
  BY DEF VAllocate, Idle, BlocksOK, bootVars
<1>2. TablesOK' /\ BootOK' /\ TlbOK'
  BY <1>1 DEF TablesOK, Directed, BootOK, TlbOK, Walk, DirEntry, GetPageEntry, TableOf
<1>3. EntriesOK'
  BY <1>1 DEF EntriesOK, Fresh, Entry, Own, vars
<1>4. BlocksOK'
  <2>1. k \in Nat \ {0} /\ k + Len(<< >>) = k
    BY VirtAssumption
  <2>2. k + Len(<< >>) \in Sizes
    BY <2>1
  <2> QED
    BY <1>1, <2>1, <2>2 DEF BlocksOK, Blocks, Disjoint, vars
<1>5. HeldPages' = HeldPages
  BY <1>1 DEF HeldPages, Pages
<1>6. HeldOK'
  BY <1>1, <1>5, SameHeld DEF Entry, vars
<1> QED
  BY <1>2, <1>3, <1>4, <1>6

\* What AllocPhysicalPage does: it takes the first usable page, and does not
\* return when that was the last.
LEMMA PageAllocated ==
  ASSUME IInv, Allocate(PAGE_SIZE_BYTES)
  PROVE  /\ status = "running"
         /\ freePagePtr \in Page /\ state[freePagePtr] = "usable"
         /\ nextAllocID' = nextAllocID + 1
         /\ state' = [p \in Page |-> IF p = freePagePtr THEN "KERN" ELSE state[p]]
         /\ \/ /\ status' = "running"
               /\ blocks' = blocks \union
                    {[id |-> nextAllocID', base |-> freePagePtr, len |-> 1]}
               /\ \E p \in Page : state'[p] = "usable"
            \/ /\ status' = "wild"
               /\ blocks' = blocks
               /\ \A p \in Page : state'[p] # "usable"
<1>1. PAGE_SIZE_BYTES \in Requests /\ PagesFor(PAGE_SIZE_BYTES) = 1
  BY VirtAssumption DEF PagesFor, PAGE_SIZE_BYTES
<1>2. /\ status = "running" /\ freePagePtr \in Page /\ state[freePagePtr] = "usable"
      /\ Window(1) = {freePagePtr} /\ AllocateFound(PAGE_SIZE_BYTES)
  BY <1>1, SinglePageFound
<1>3. /\ nextAllocID' = nextAllocID + 1
      /\ state' = [p \in Page |-> IF p = freePagePtr THEN "KERN" ELSE state[p]]
      /\ SetupFreePagePtr(state')
      /\ blocks' = IF status' = "running"
                   THEN blocks \union
                          {[id |-> nextAllocID', base |-> freePagePtr, len |-> 1]}
                   ELSE blocks
  BY <1>1, <1>2 DEF AllocateFound, Request, Mark
<1> QED
  BY <1>2, <1>3 DEF SetupFreePagePtr, IsFirstUsable

\* The block in progress with page p behind its first k pages.
Grown(block, p, k) ==
  /\ block \in Seq(Page) \ {<< >>} /\ block \notin held
  /\ Len(block) = k + 1 /\ DOMAIN block \subseteq Int
  /\ DOMAIN block = DOMAIN got \union {k + 1}
  /\ \A i \in DOMAIN got : block[i] = got[i]
  /\ block[k + 1] = p /\ \A i \in DOMAIN block : block[i] \in Page
  /\ \A i, j \in DOMAIN block : i < j => block[i] < block[j]
  /\ \A b \in held : \A i \in DOMAIN b, j \in DOMAIN block : b[i] # block[j]

\* The block in progress grows by a page that nobody holds.
LEMMA BlockGrows ==
  ASSUME BlocksOK, NEW p \in Page, p \notin HeldPages,
         \A i \in DOMAIN got : got[i] < p,
         NEW block, block = Append(got, p), NEW k, k = Len(got)
  PROVE  Grown(block, p, k)
<1>1. got \in Seq(Page)
  BY DEF BlocksOK
<1>2. /\ block \in Seq(Page) \ {<< >>}
      /\ Len(block) = k + 1
      /\ DOMAIN block = 1 .. (k + 1) /\ DOMAIN got = 1 .. k
      /\ \A i \in DOMAIN got : block[i] = got[i]
      /\ block[k + 1] = p
      /\ \A i \in DOMAIN block : block[i] \in Page
      /\ k \in Nat
  BY <1>1
<1>3. DOMAIN block = DOMAIN got \union {k + 1}
  BY <1>2
<1>4. ASSUME NEW i \in DOMAIN block, NEW j \in DOMAIN block, i < j
      PROVE  block[i] < block[j]
  <2>1. i \in DOMAIN got
    BY <1>2, <1>4
  <2>2. CASE j \in DOMAIN got
    BY <1>2, <1>4, <2>1, <2>2 DEF BlocksOK, Blocks
  <2>3. CASE j = k + 1
    BY <1>2, <2>1, <2>3
  <2> QED
    BY <1>3, <2>2, <2>3
<1>5. ASSUME NEW b \in held, NEW i \in DOMAIN b, NEW j \in DOMAIN block
      PROVE  b[i] # block[j]
  <2>1. CASE j \in DOMAIN got
    BY <1>2, <2>1 DEF BlocksOK, Disjoint
  <2>2. CASE j = k + 1
    BY <1>2, <2>2, HeldPage DEF Blocks
  <2> QED
    BY <1>3, <2>1, <2>2
<1>6. block \notin held
  <2>1. k + 1 \in DOMAIN block
    BY <1>3
  <2> QED
    BY <1>5, <2>1
<1> QED
  BY <1>2, <1>3, <1>4, <1>5, <1>6 DEF Grown

\* The page that was taken joins the block; the block is handed over with its
\* last page.
LEMMA CollectStep ==
  ASSUME BlocksOK, NEW p \in Page, p \notin HeldPages, left > 0, Collect(p),
         \A i \in DOMAIN got : got[i] < p,
         \A q \in Page : state'[q] = "usable" => state[q] = "usable" /\ p < q,
         status = "running"
  PROVE  BlocksOK' /\ HeldPages' = HeldPages \union {p}
<1>1. PICK k \in Nat : k = Len(got)
  BY DEF BlocksOK
<1>a. PICK block : block = Append(got, p)
  OBVIOUS
<1>2. /\ block \in Seq(Page) \ {<< >>} /\ block \notin held
      /\ Len(block) = k + 1 /\ DOMAIN block \subseteq Int
      /\ DOMAIN block = DOMAIN got \union {k + 1}
      /\ \A i \in DOMAIN got : block[i] = got[i]
      /\ block[k + 1] = p /\ \A i \in DOMAIN block : block[i] \in Page
      /\ \A i, j \in DOMAIN block : i < j => block[i] < block[j]
      /\ \A b \in held : \A i \in DOMAIN b, j \in DOMAIN block : b[i] # block[j]
  <2>1. Grown(block, p, k)
    BY <1>1, <1>a, BlockGrows
  <2> QED
    BY <2>1 DEF Grown
<1>3. /\ left' = left - 1
      /\ \/ left = 1 /\ held' = held \union {block} /\ got' = << >>
         \/ left # 1 /\ held' = held /\ got' = block
  BY <1>a DEF Collect
<1>4. \A b : b \in Blocks' <=> b \in held \/ b = block \/ (left = 1 /\ b = << >>)
  BY <1>3 DEF Blocks
<1>5. HeldPages' = HeldPages \union {p}
  <2>1. ASSUME NEW q \in HeldPages' PROVE q \in HeldPages \union {p}
    <3>1. PICK b \in Blocks' : \E i \in DOMAIN b : b[i] = q
      BY <2>1 DEF HeldPages, Blocks, Pages
    <3>2. CASE b \in held
      BY <3>1, <3>2, HeldPage DEF Blocks
    <3>3. CASE b = block
      BY <1>2, <3>1, <3>3, HeldPage DEF Blocks
    <3> QED
      BY <1>4, <3>1, <3>2, <3>3
  <2>2. ASSUME NEW q \in HeldPages \union {p} PROVE q \in HeldPages'
    <3>1. ASSUME NEW b \in Blocks', NEW i \in DOMAIN b PROVE b[i] \in HeldPages'
      BY <3>1 DEF HeldPages, Blocks, Pages
    <3>2. block \in Blocks'
      BY <1>4
    <3>3. CASE q = p
      BY <1>2, <3>1, <3>2, <3>3
    <3>4. CASE q \in HeldPages
      <4>1. PICK b \in Blocks : \E i \in DOMAIN b : b[i] = q
        BY <3>4, HeldPage
      <4>2. CASE b \in held
        BY <1>4, <3>1, <4>1, <4>2
      <4>3. CASE b = got
        <5>1. PICK i \in DOMAIN got : got[i] = q
          BY <4>1, <4>3
        <5>2. i \in DOMAIN block /\ block[i] = q
          BY <1>2, <5>1
        <5> QED
          BY <3>1, <3>2, <5>2
      <4> QED
        BY <4>1, <4>2, <4>3 DEF Blocks
    <3> QED
      BY <3>3, <3>4
  <2> QED
    BY <2>1, <2>2
<1>6. /\ left' \in Nat /\ got' \in Seq(Page) /\ held' \subseteq Seq(Page) \ {<< >>}
      /\ left' = 0 => got' = << >>
  <2>1. held \union {block} \subseteq Seq(Page) \ {<< >>} /\ left \in Nat
    BY <1>2 DEF BlocksOK
  <2>2. << >> \in Seq(Page)
    OBVIOUS
  <2> QED
    <3>1. CASE left = 1
      BY <1>3, <2>1, <2>2, <3>1
    <3>2. CASE left # 1
      <4>1. left - 1 \in Nat \ {0} /\ held \subseteq Seq(Page) \ {<< >>}
        BY <2>1, <3>2
      <4> QED
        BY <1>2, <1>3, <3>2, <4>1
    <3> QED
      BY <3>1, <3>2
<1>7. left' > 0 => left' + Len(got') \in Sizes
  <2> SUFFICES ASSUME left' > 0 PROVE left' + Len(got') \in Sizes
    OBVIOUS
  <2>1. left \in Nat /\ left + k \in Sizes
    BY <1>1 DEF BlocksOK
  <2>2. got' = block /\ left' = left - 1
    BY <1>3, <2>1
  <2>3. left' + Len(got') = left + k
    BY <1>2, <2>1, <2>2
  <2> QED
    BY <2>1, <2>3
<1>8. Disjoint'
  <2>1. got' \notin held'
    BY <1>2, <1>3 DEF BlocksOK
  <2>2. ASSUME NEW b \in Blocks', NEW c \in Blocks', NEW i \in DOMAIN b, NEW j \in DOMAIN c,
               b[i] = c[j]
        PROVE  b = c /\ i = j
    <3>1. (b \in held \/ b = block) /\ (c \in held \/ c = block)
      BY <1>4
    <3>2. CASE b \in held /\ c \in held
      BY <2>2, <3>2 DEF BlocksOK, Disjoint
    <3>3. CASE b = block /\ c = block
      <4>1. i \in Int /\ j \in Int /\ i \in DOMAIN block /\ j \in DOMAIN block
        BY <1>2, <3>3
      <4>2. block[i] \in Int /\ block[i] = block[j]
        BY <1>2, <2>2, <3>3, <4>1 DEF Page
      <4>3. ~ (i < j) /\ ~ (j < i)
        BY <1>2, <4>1, <4>2
      <4> QED
        BY <3>3, <4>1, <4>3
    <3> QED
      BY <1>2, <2>2, <3>1, <3>2, <3>3
  <2> QED
    BY <2>1, <2>2 DEF Disjoint, Blocks
<1>9. \A b \in Blocks' : \A i, j \in DOMAIN b : i < j => b[i] < b[j]
  BY <1>2, <1>4 DEF BlocksOK, Blocks
<1>10. \A i \in DOMAIN got', q \in Page : state'[q] = "usable" => got'[i] < q
  BY <1>2, <1>3 DEF BlocksOK
<1> QED
  BY <1>5, <1>6, <1>7, <1>8, <1>9, <1>10 DEF BlocksOK

\* One turn of the loop of Allocate.
LEMMA VAllocatePageStep ==
  ASSUME IInv, VInv, VAllocatePage
  PROVE  VInv'
<1> USE DEF VInv
<1>1. PICK p \in Page : p = freePagePtr
  BY PageAllocated DEF VAllocatePage
<1>2. /\ status = "running" /\ state[p] = "usable"
      /\ nextAllocID' = nextAllocID + 1
      /\ state' = [q \in Page |-> IF q = p THEN "KERN" ELSE state[q]]
      /\ \/ /\ status' = "running"
            /\ blocks' = blocks \union {[id |-> nextAllocID', base |-> p, len |-> 1]}
         \/ /\ status' = "wild"
            /\ blocks' = blocks
  BY <1>1, PageAllocated DEF VAllocatePage
<1>3. /\ left > 0 /\ vstatus = "running" /\ vstatus' = "running" /\ at' = at
  BY DEF VAllocatePage, bootVars, BootOK
<1>4. p \notin HeldPages
  BY <1>2, HeldIsKern
<1>5. ASSUME NEW q \in Page, state'[q] = "usable"
      PROVE  state[q] = "usable" /\ p < q
  <2>1. q # p /\ state[q] = "usable"
    BY <1>2, <1>5
  <2>2. ~ (q < p)
    BY <1>1, <1>2, <2>1 DEF IInv, FreePtrIsFirstUsable, IsFirstUsable
  <2> QED
    BY <2>1, <2>2 DEF Page
<1>6. \A i \in DOMAIN got : got[i] < p
  BY <1>2 DEF BlocksOK
<1>7. nextAllocID' # 1
  BY <1>2 DEF IInv, TypeOK, IdsCorrect, IdsIssuedOnce
<1>8. BootOK'
  BY <1>3 DEF BootOK
<1>9. CASE status' = "running"
  <2>1. /\ mem' = WriteEntry(mem, p, KernWord(p))
        /\ tlb' = NoEntry /\ Collect(p)
    BY <1>1, <1>9, createPTEntryFacts DEF VAllocatePage, map
  <2>2. p \in VPage /\ KernWord(p) \in SUBSET Int
    BY TablesAssumption, WordFacts
  <2>3. /\ TablesOK'
        /\ \A u \in VPage : Entry(u)' = IF u = p THEN KernWord(p) ELSE Entry(u)
    BY <1>3, <2>1, <2>2, Store
  <2>4. EntriesOK'
    BY <1>3, <1>7, <2>2, <2>3, TablesAssumption DEF EntriesOK, Fresh, Own
  <2>5. BlocksOK' /\ HeldPages' = HeldPages \union {p}
    BY <1>2, <1>3, <1>4, <1>5, <1>6, <2>1, CollectStep
  <2>6. HeldOK'
    <3>1. \A c \in blocks' : c.len = 1
      BY <1>2, <1>9 DEF HeldOK
    <3>2. ASSUME NEW q \in HeldPages'
          PROVE  q # 0 /\ (\E c \in blocks' : c.base = q) /\ Entry(q)' = KernWord(q)
      <4>1. CASE q = p
        <5>1. PICK c \in blocks' : c = [id |-> nextAllocID', base |-> p, len |-> 1]
          BY <1>2, <1>9
        <5>2. BootState[p] = "usable"
          BY <1>2 DEF IInv, PagesAccounted
        <5> QED
          BY <2>2, <2>3, <4>1, <5>1, <5>2, ZeroNotUsable
      <4>2. CASE q \in HeldPages /\ q # p
        <5>1. q \in VPage /\ q # 0 /\ Entry(q) = KernWord(q) /\ \E c \in blocks : c.base = q
          BY <4>2, HeldIsKern, TablesAssumption
        <5> QED
          BY <1>2, <1>9, <2>3, <4>2, <5>1
      <4> QED
        BY <2>5, <3>2, <4>1, <4>2
    <3> QED
      BY <1>7, <3>1, <3>2 DEF HeldOK
  <2>7. TlbOK'
    BY <2>1 DEF TlbOK
  <2> QED
    BY <1>8, <2>3, <2>4, <2>5, <2>6, <2>7
<1>10. CASE status' = "wild"
  <2>1. UNCHANGED <<mem, tlb, left, got, held>> /\ blocks' = blocks
    BY <1>2, <1>10 DEF VAllocatePage
  <2>2. TablesOK' /\ TlbOK'
    BY <1>3, <2>1 DEF TablesOK, Directed, TlbOK, Walk, DirEntry, GetPageEntry, TableOf
  <2>3. EntriesOK'
    BY <1>3, <1>7, <2>1 DEF EntriesOK, Fresh, Own, Entry
  <2>4. BlocksOK' /\ HeldPages' = HeldPages
    BY <1>10, <2>1 DEF BlocksOK, Blocks, Disjoint, HeldPages, Pages
  <2>5. HeldOK'
    BY <1>7, <2>1, <2>4 DEF HeldOK, Entry
  <2> QED
    BY <1>8, <2>2, <2>3, <2>4, <2>5
<1> QED
  BY <1>2, <1>9, <1>10

\* What Free is given is the first page of the block, which is an allocation
\* of one page.
LEMMA FreedPage ==
  ASSUME IInv, VInv, vstatus = "running", NEW b \in held
  PROVE  /\ 1 \in DOMAIN b /\ b[1] \in HeldPages /\ b[1] \in Page
         /\ Translate(b[1]) = b[1]
         /\ \E c \in blocks : c.base = b[1] /\ Span(c) = {b[1]}
<1> USE DEF VInv
<1>1. 1 \in DOMAIN b
  BY DEF BlocksOK
<1>2. b[1] \in HeldPages
  BY <1>1, HeldPage DEF Blocks
<1>3. /\ b[1] \in Page /\ Entry(b[1]) = KernWord(b[1])
      /\ \E c \in blocks : c.base = b[1] /\ Span(c) = {b[1]}
  BY <1>2, HeldIsKern
<1>4. b[1] \in VPage
  BY <1>3, TablesAssumption
<1>5. Translate(b[1]) = b[1]
  BY <1>3, <1>4, ThroughDirectory, WordFacts
<1> QED
  BY <1>1, <1>2, <1>3, <1>5

\* Free gives the first page of the block back and unmaps it and no other.
LEMMA VFreeEffect ==
  ASSUME IInv, VInv, NEW b \in held, VFree(b)
  PROVE  /\ vstatus = "running" /\ status = "running" /\ left = 0
         /\ status' = "running"
         /\ state' = [q \in Page |-> IF q = b[1] THEN "usable" ELSE state[q]]
         /\ \E c \in blocks : c.base = b[1] /\ blocks' = blocks \ {c}
         /\ nextAllocID' = nextAllocID
         /\ TablesOK'
         /\ \A u \in VPage : Entry(u)' = IF u = b[1] THEN UserWord(0) ELSE Entry(u)
<1>1. /\ vstatus = "running" /\ status = "running" /\ left = 0 /\ vstatus' = vstatus
      /\ Free(Translate(b[1])) /\ UnmapAll(UnmappedBy(b[1]))
  BY DEF VFree, Idle, bootVars
<1>2. /\ b[1] \in Page /\ b[1] \in VPage /\ Translate(b[1]) = b[1]
      /\ \E c \in blocks : c.base = b[1] /\ Span(c) = {b[1]}
  BY <1>1, FreedPage, TablesAssumption
<1>3. PICK c \in blocks : c.base = b[1] /\ Span(c) = {b[1]}
  BY <1>2
<1>4. Free(c.base)
  BY <1>1, <1>2, <1>3
<1>5. /\ FreeString(c.base)
      /\ state' = [q \in Page |-> IF q \in Span(c) THEN "usable" ELSE state[q]]
      /\ blocks' = blocks \ {c} /\ nextAllocID' = nextAllocID
  BY <1>4, FreeEffect
<1>6. state' = [q \in Page |-> IF q = b[1] THEN "usable" ELSE state[q]]
  BY <1>3, <1>5
<1>7. status' = "running"
  BY <1>2, <1>5, <1>6 DEF FreeString, SetupFreePagePtr
<1>8. UnmappedBy(b[1]) = {b[1]}
  <2>1. PageString(Translate(b[1])) = {b[1]}
    BY <1>2, <1>3, StringIsBlock DEF IInv, IdsCorrect
  <2>2. Cardinality({b[1]}) = 1
    BY FS_Singleton
  <2>3. b[1] \in Int
    BY <1>2 DEF Page
  <2> QED
    BY <2>1, <2>2, <2>3 DEF UnmappedBy
<1>9. /\ TablesOK'
      /\ \A u \in VPage : Entry(u)' = IF u \in {b[1]} THEN UserWord(0) ELSE Entry(u)
  BY <1>1, <1>2, <1>8, StoreAll DEF VInv
<1> QED
  BY <1>1, <1>3, <1>5, <1>6, <1>7, <1>9

\* A block is given back.
LEMMA VFreeStep ==
  ASSUME IInv, VInv, NEW b \in held, VFree(b)
  PROVE  VInv'
<1> USE DEF VInv
<1>1. /\ vstatus = "running" /\ left = 0 /\ status' = "running"
      /\ state' = [q \in Page |-> IF q = b[1] THEN "usable" ELSE state[q]]
      /\ nextAllocID' = nextAllocID
      /\ TablesOK'
      /\ \A u \in VPage : Entry(u)' = IF u = b[1] THEN UserWord(0) ELSE Entry(u)
  BY VFreeEffect
<1>2. PICK c \in blocks : c.base = b[1] /\ blocks' = blocks \ {c}
  BY VFreeEffect
<1>3. 1 \in DOMAIN b /\ b[1] \in HeldPages
  BY <1>1, FreedPage
<1>4. /\ tlb' = NoEntry /\ held' = held \ {b} /\ got' = got /\ left' = left
      /\ vstatus' = vstatus /\ at' = at
  BY DEF VFree, bootVars
<1>5. nextAllocID # 1
  BY <1>3 DEF HeldOK
<1>6. got = << >>
  BY <1>1 DEF BlocksOK
<1>7. HeldPages' \subseteq HeldPages \ {b[1]}
  <2> SUFFICES ASSUME NEW q \in HeldPages' PROVE q \in HeldPages \ {b[1]}
    OBVIOUS
  <2>1. PICK a \in held \ {b} : \E i \in DOMAIN a : a[i] = q
    BY <1>4, <1>6 DEF HeldPages, Pages
  <2>2. q \in HeldPages
    BY <2>1, HeldPage DEF Blocks
  <2>3. q # b[1]
    BY <1>3, <2>1 DEF BlocksOK, Disjoint
  <2> QED
    BY <2>2, <2>3
<1>8. BootOK' /\ TlbOK'
  BY <1>1, <1>4 DEF BootOK, TlbOK
<1>9. EntriesOK'
  BY <1>1, <1>4, <1>5, TablesAssumption DEF EntriesOK, Fresh, Own
<1>10. BlocksOK'
  BY <1>1, <1>4, <1>6 DEF BlocksOK, Blocks, Disjoint
<1>11. HeldOK'
  <2>1. ASSUME NEW q \in HeldPages'
        PROVE  q # 0 /\ (\E a \in blocks' : a.base = q) /\ Entry(q)' = KernWord(q)
    <3>1. q \in HeldPages /\ q # b[1]
      BY <1>7
    <3>2. q \in VPage /\ q # 0 /\ Entry(q) = KernWord(q) /\ \E a \in blocks : a.base = q
      BY <3>1, HeldIsKern, TablesAssumption
    <3> QED
      BY <1>1, <1>2, <3>1, <3>2
  <2> QED
    BY <1>1, <1>2, <1>5, <2>1 DEF HeldOK
<1> QED
  BY <1>1, <1>8, <1>9, <1>10, <1>11

\* The registers of a device are mapped, or unmapped: nobody holds that page.
LEMMA DeviceStep ==
  ASSUME IInv, VInv, NEW p \in Device, MMap(p) \/ Unmap(p)
  PROVE  VInv'
<1> USE DEF VInv
<1>1. /\ vstatus = "running" /\ status = "running" /\ left = 0
      /\ UNCHANGED <<vstatus, at, left, got, held>> /\ UNCHANGED vars
  BY DEF MMap, Unmap, Idle, bootVars
<1>2. p \in Page /\ p \in VPage /\ BootState[p] # "usable" /\ 0 \in VPage
  BY VirtAssumption, TablesAssumption, PageCountAssumption DEF Page
<1>3. p \notin HeldPages
  BY <1>1, <1>2, HeldIsRam
<1>4. PICK word \in {KernWord(p), UserWord(0)} :
        /\ mem' = WriteEntry(mem, p, word)
        /\ tlb' \in {tlb, NoEntry}
  BY createPTEntryFacts DEF MMap, Unmap, map, unmap
<1>5. word \in SUBSET Int
  BY <1>2, WordFacts
<1>6. /\ TablesOK'
      /\ \A u \in VPage : Entry(u)' = IF u = p THEN word ELSE Entry(u)
  BY <1>1, <1>2, <1>4, <1>5, Store
<1>7. BootOK'
  BY <1>1 DEF BootOK, vars
<1>8. EntriesOK'
  BY <1>1, <1>6, TablesAssumption DEF EntriesOK, Fresh, Own, vars
<1>9. BlocksOK' /\ HeldPages' = HeldPages
  BY <1>1, SameBlocks DEF vars
<1>10. HeldOK'
  <2>1. \A q \in HeldPages : Entry(q)' = Entry(q)
    BY <1>3, <1>6, HeldIsKern, TablesAssumption
  <2> QED
    BY <1>1, <1>9, <2>1, SameHeld DEF vars
<1>11. TlbOK'
  <2>1. tlb' # NoEntry => tlb' = tlb
    BY <1>4
  <2>2. ASSUME tlb # NoEntry, tlb' = tlb, tlb.page \notin Device
        PROVE  tlb' = Walk(tlb.page)'
    <3>1. PICK v \in VPage : v = tlb.page
      BY <2>2 DEF TlbOK
    <3>2. Walk(v)' = Walk(v)
      BY <1>1, <1>2, <1>6, <2>2, <3>1, SameWalk
    <3>3. Walk(tlb.page)' = Walk(v)'
      BY <2>2, <3>1 DEF Walk, DirEntry, GetPageEntry, TableOf
    <3> QED
      BY <2>2, <3>1, <3>2, <3>3 DEF TlbOK
  <2> QED
    BY <2>1, <2>2 DEF TlbOK
<1> QED
  BY <1>6, <1>7, <1>8, <1>9, <1>10, <1>11

\* The processor caches a translation.
LEMMA TouchStep ==
  ASSUME VInv, NEW v \in VPage, Touch(v)
  PROVE  VInv'
<1> USE DEF VInv
<1>1. /\ vstatus = "running" /\ tlb' = Walk(v)
      /\ UNCHANGED <<vstatus, at, mem, left, got, held>> /\ UNCHANGED vars
  BY DEF Touch, bootVars
<1>2. TablesOK' /\ BootOK'
  BY <1>1 DEF TablesOK, Directed, BootOK, vars
<1>3. EntriesOK'
  BY <1>1 DEF EntriesOK, Fresh, Entry, Own, vars
<1>4. BlocksOK' /\ HeldPages' = HeldPages
  BY <1>1, SameBlocks DEF vars
<1>5. HeldOK'
  BY <1>1, <1>4, SameHeld DEF Entry, vars
<1>6. TlbOK'
  <2>1. tlb'.page = v
    BY <1>1 DEF Walk
  <2>2. Walk(v)' = Walk(v)
    BY <1>1 DEF Walk, DirEntry, GetPageEntry, TableOf
  <2> QED
    BY <1>1, <2>1, <2>2 DEF TlbOK
<1> QED
  BY <1>2, <1>3, <1>4, <1>5, <1>6

\* Every step of the virtual manager is one that the physical manager allows.
LEMMA VNextNext ==
  ASSUME IInv, VInv, [VNext]_<<vars, vvars>>
  PROVE  [Next]_vars
<1>1. CASE VAllocatePage
  BY <1>1, VirtAssumption DEF VAllocatePage, Next
<1>2. ASSUME NEW b \in held, VFree(b) PROVE [Next]_vars
  <2>1. vstatus = "running" /\ Free(Translate(b[1]))
    BY <1>2 DEF VFree, Idle
  <2>2. PICK c \in blocks : c.base = Translate(b[1])
    BY <2>1, FreedPage
  <2> QED
    BY <2>1, <2>2 DEF Next
<1>3. CASE UNCHANGED vars
  BY <1>3
<1> QED
  BY <1>1, <1>2, <1>3
     DEF VNext, SetupPageDirectoryTable, MapSystemMemory, EnablePaging, VAllocate, MMap,
         Unmap, Touch

\* A step keeps both invariants.
LEMMA VNextInv ==
  ASSUME IInv, VInv, [VNext]_<<vars, vvars>>
  PROVE  IInv' /\ VInv'
<1>1. IInv'
  BY VNextNext, NextIInv
<1>2. ASSUME NEW k \in Sizes, VAllocate(k) PROVE VInv'
  BY <1>2, VAllocateStep
<1>3. ASSUME NEW b \in held, VFree(b) PROVE VInv'
  BY <1>3, VFreeStep
<1>4. ASSUME NEW p \in Device, MMap(p) \/ Unmap(p) PROVE VInv'
  BY <1>4, DeviceStep
<1>5. ASSUME NEW v \in VPage, Touch(v) PROVE VInv'
  BY <1>5, TouchStep
<1>6. CASE UNCHANGED <<vars, vvars>>
  <2>1. /\ UNCHANGED <<vstatus, at, mem, tlb, left, got, held>> /\ UNCHANGED vars
    BY <1>6 DEF vvars, bootVars
  <2>2. TablesOK' /\ BootOK'
    BY <2>1 DEF VInv, TablesOK, Directed, BootOK, vars
  <2>3. EntriesOK'
    BY <2>1 DEF VInv, EntriesOK, Fresh, Entry, Own, vars
  <2>4. BlocksOK' /\ HeldPages' = HeldPages
    BY <2>1, SameBlocks DEF VInv, vars
  <2>5. HeldOK'
    BY <2>1, <2>4, SameHeld DEF VInv, Entry, vars
  <2>6. TlbOK'
    BY <2>1 DEF VInv, TlbOK, Walk, DirEntry, GetPageEntry, TableOf
  <2> QED
    BY <1>1, <2>2, <2>3, <2>4, <2>5, <2>6 DEF VInv
<1> QED
  BY <1>1, <1>2, <1>3, <1>4, <1>5, <1>6, DirectoryStep, MapSystemStep, EnablePagingStep,
     VAllocatePageStep DEF VNext

\* The virtual manager keeps its invariant, and the physical one its own.
THEOREM VInvariance == VSpec => [](IInv /\ VInv)
<1>1. VInit => IInv /\ VInv
  BY InitIInv, VInitVInv DEF VInit
<1>2. IInv /\ VInv /\ [VNext]_<<vars, vvars>> => (IInv /\ VInv)'
  BY VNextInv
<1> QED
  BY <1>1, <1>2, PTL DEF VSpec

\* The virtual manager calls the physical one as its specification allows.
THEOREM PhysMemUsed == VSpec => UsesPhysMem
<1>1. VInit => Init
  BY DEF VInit
<1>2. IInv /\ VInv /\ [VNext]_<<vars, vvars>> => [Next]_vars
  BY VNextNext
<1> QED
  BY <1>1, <1>2, VInvariance, PTL DEF VSpec, UsesPhysMem, Spec

-----------------------------------------------------------------------------
(* What follows from the invariant *)

\* What new returned stays mapped to its frame, for the kernel only, until
\* delete.
THEOREM HeldStaysMapped == VSpec => []HeldMapped
<1>1. IInv /\ VInv => HeldMapped
  <2> SUFFICES ASSUME IInv, VInv, NEW p \in HeldPages
               PROVE  state[p] = "KERN" /\ KernelPage(p)
    BY DEF HeldMapped
  <2>1. vstatus # "directory"
    BY NothingHeld DEF VInv, BootOK
  <2>2. state[p] = "KERN" /\ Entry(p) = KernWord(p) /\ p \in VPage
    BY HeldIsKern, TablesAssumption DEF VInv
  <2>3. Walk(p) = [page |-> p, present |-> 0 \in Entry(p), frame |-> FrameOf(Entry(p)),
                   write |-> 1 \in Entry(p), user |-> FALSE]
    BY <2>1, <2>2, WalkOf DEF VInv
  <2>4. FrameOf(Entry(p)) = p /\ 0 \in Entry(p) /\ 1 \in Entry(p)
    BY <2>2, WordFacts
  <2> QED
    BY <2>2, <2>3, <2>4 DEF KernelPage
<1> QED
  BY <1>1, VInvariance, PTL

\* No page is held twice, and no other address of the list leads to one.
THEOREM HeldStaysPrivate == VSpec => []HeldPrivate
<1>1. IInv /\ VInv => HeldPrivate
  <2> SUFFICES ASSUME IInv, VInv PROVE HeldPrivate
    OBVIOUS
  <2>1. Disjoint
    BY DEF VInv, BlocksOK
  <2>2. ASSUME NEW p \in HeldPages, NEW v \in Page, Translate(v) = p
        PROVE  v = p
    <3>1. vstatus = "running"
      BY NothingHeld DEF VInv, BootOK
    <3>2. v \in VPage /\ 0 \in VPage
      BY TablesAssumption, PageCountAssumption DEF Page
    <3>3. Entry(v) \in Own(v) \union {UserWord(0)}
      BY <3>1 DEF VInv, EntriesOK
    <3>4. FrameOf(Entry(v)) \in {v, 0}
      BY <3>2, <3>3, WordFacts DEF Own
    <3>5. p \in {v, 0} /\ p # 0
      BY <2>2, <3>1, <3>2, <3>4, ThroughDirectory, HeldIsKern DEF VInv
    <3> QED
      BY <3>5
  <2> QED
    BY <2>1, <2>2 DEF HeldPrivate
<1> QED
  BY <1>1, VInvariance, PTL

\* Only the translation of a device page can be stale.
THEOREM TlbStaysFresh == VSpec => []TlbFresh
<1>1. VInv => TlbFresh
  BY DEF VInv, TlbOK, TlbFresh
<1> QED
  BY <1>1, VInvariance, PTL

\* The self test passes, and paging is turned on with the whole list mapped.
THEOREM PagingSafe == VSpec => []PagingKeepsMemory
<1>1. VInv => PagingKeepsMemory
  <2> SUFFICES ASSUME VInv PROVE PagingKeepsMemory
    OBVIOUS
  <2>1. vstatus # "panicked"
    BY DEF VInv, BootOK
  <2>2. ASSUME vstatus = "running", nextAllocID = 1, NEW p \in Page \ Device
        PROVE  Walk(p).present /\ Walk(p).write /\ Walk(p).frame = p
    <3>1. Entry(p) \in Own(p) /\ p \in VPage
      BY <2>2, TablesAssumption DEF VInv, EntriesOK, Fresh
    <3>2. FrameOf(Entry(p)) = p /\ 0 \in Entry(p) /\ 1 \in Entry(p)
      BY <3>1, WordFacts DEF Own
    <3>3. Walk(p) = [page |-> p, present |-> 0 \in Entry(p), frame |-> FrameOf(Entry(p)),
                     write |-> 1 \in Entry(p), user |-> FALSE]
      BY <2>2, <3>1, WalkOf DEF VInv
    <3>4. Walk(p) = [page |-> p, present |-> TRUE, frame |-> p, write |-> TRUE,
                     user |-> FALSE]
      BY <3>2, <3>3
    <3> QED
      BY <3>4
  <2> QED
    BY <2>1, <2>2 DEF PagingKeepsMemory
<1> QED
  BY <1>1, VInvariance, PTL

-----------------------------------------------------------------------------
(* The two managers together are the heap of new and delete *)

\* The pages of the block that Allocate completes are those it has and the
\* last one, and as many as it has turns.
LEMMA BlockPages ==
  ASSUME BlocksOK, NEW p \in Page, NEW block, NEW k \in Nat, k = Len(got),
         Grown(block, p, k)
  PROVE  /\ Pages(block) = Pages(got) \union {p}
         /\ IsFiniteSet(Pages(block)) /\ Cardinality(Pages(block)) = k + 1
<1>1. Pages(block) = Pages(got) \union {p}
  BY DEF Grown, Pages
<1>2. /\ DOMAIN block = 1 .. (k + 1) /\ block \in Seq(Page) /\ DOMAIN got = 1 .. k
      /\ \A i, j \in DOMAIN block : i < j => block[i] < block[j]
  BY DEF Grown, BlocksOK
<1>3. block \in Injection(1 .. (k + 1), Pages(block))
  <2>1. block \in [1 .. (k + 1) -> Pages(block)]
    BY <1>2 DEF Pages
  <2>2. ASSUME NEW i \in 1 .. (k + 1), NEW j \in 1 .. (k + 1), block[i] = block[j]
        PROVE  i = j
    <3>1. block[i] \in Int /\ i \in Int /\ j \in Int
      <4>1. block[i] \in Page
        BY <1>2
      <4> QED
        BY <4>1 DEF Page
    <3>2. ~ (i < j) /\ ~ (j < i)
      BY <1>2, <2>2, <3>1
    <3> QED
      BY <3>1, <3>2
  <2> QED
    BY <2>1, <2>2 DEF Injection, IsInjective
<1>4. block \in Surjection(1 .. (k + 1), Pages(block))
  BY <1>2, <1>3 DEF Injection, Surjection, Pages
<1>5. IsFiniteSet(1 .. (k + 1)) /\ Cardinality(1 .. (k + 1)) = k + 1
  BY FS_Interval
<1> QED
  BY <1>1, <1>3, <1>4, <1>5, FS_Surjection

\* Heap counts as the manager does.
LEMMA SameCount == \A S : Kernel!Cardinality(S) = Cardinality(S)
BY DEF Kernel!Cardinality, Cardinality

\* The lowest pages are what they are called: no other set of as many pages
\* lies below the rest.
LEMMA LowestIs ==
  ASSUME NEW free \in SUBSET Page, NEW S \in SUBSET free, IsFiniteSet(free),
         \A x \in S, y \in free \ S : x < y
  PROVE  Kernel!Lowest(free, Cardinality(S)) = S
<1>1. ASSUME NEW T \in SUBSET free, Cardinality(T) = Cardinality(S),
             \A x \in T, y \in free \ T : x < y
      PROVE  T = S
  <2>1. IsFiniteSet(S) /\ IsFiniteSet(T)
    BY FS_Subset
  <2>2. CASE T \subseteq S
    BY <1>1, <2>1, <2>2, FS_Subset
  <2>3. CASE S \subseteq T
    BY <1>1, <2>1, <2>3, FS_Subset
  <2>4. CASE ~ (T \subseteq S) /\ ~ (S \subseteq T)
    <3>1. PICK x \in T \ S, y \in S \ T : TRUE
      BY <2>4
    <3>2. x < y /\ y < x
      BY <1>1, <3>1
    <3>3. x \in Int /\ y \in Int
      BY <3>1 DEF Page
    <3> QED
      BY <3>2, <3>3
  <2> QED
    BY <2>2, <2>3, <2>4
<1> DEFINE Low(T) == Cardinality(T) = Cardinality(S) /\ \A x \in T, y \in free \ T : x < y
<1>2. Kernel!Lowest(free, Cardinality(S)) = CHOOSE T \in SUBSET free : Low(T)
  BY SameCount DEF Kernel!Lowest
<1>3. Low(S)
  OBVIOUS
<1>4. \A T \in SUBSET free : Low(T) => T = S
  BY <1>1
<1> HIDE DEF Low
<1> QED
  BY <1>2, <1>3, <1>4

\* The pages the heap has left.
HeapFree == {p \in Page : state[p] = "usable"} \union Pages(got)

LEMMA HeapFreeFacts ==
  ASSUME BlocksOK
  PROVE  HeapFree \in SUBSET Page /\ IsFiniteSet(HeapFree)
<1>1. HeapFree \in SUBSET Page
  BY DEF HeapFree, Pages, BlocksOK
<1>2. IsFiniteSet(Page)
  BY PageCountAssumption, FS_Interval DEF Page
<1> QED
  BY <1>1, <1>2, FS_Subset

\* A turn of Allocate shows only when it is the last, and then as New; or it
\* takes the last page, and the heap stops.
LEMMA AllocateRefines ==
  ASSUME IInv, VInv, VAllocatePage
  PROVE  Kernel!Next \/ UNCHANGED Kernel!vars
<1> USE DEF VInv
<1>1. PICK p \in Page : p = freePagePtr
  BY PageAllocated DEF VAllocatePage
<1>2. /\ status = "running" /\ state[p] = "usable"
      /\ state' = [q \in Page |-> IF q = p THEN "KERN" ELSE state[q]]
      /\ \/ status' = "running" /\ \E q \in Page : state'[q] = "usable"
         \/ status' = "wild" /\ \A q \in Page : state'[q] # "usable"
  BY <1>1, PageAllocated DEF VAllocatePage
<1>3. left > 0 /\ left \in Nat
  BY DEF VAllocatePage, BlocksOK
<1>4. p \notin HeldPages
  BY <1>2, HeldIsKern
<1>5. ASSUME NEW q \in Page, state[q] = "usable", q # p PROVE p < q
  <2>1. ~ (q < p)
    BY <1>1, <1>2, <1>5 DEF IInv, FreePtrIsFirstUsable, IsFirstUsable
  <2> QED
    BY <1>5, <2>1 DEF Page
<1>6. \A i \in DOMAIN got : got[i] < p
  BY <1>2 DEF BlocksOK
<1>7. PICK k \in Nat : k = Len(got)
  BY DEF BlocksOK
<1>8. PICK block : block = Append(got, p)
  OBVIOUS
<1>9. Grown(block, p, k)
  BY <1>4, <1>6, <1>7, <1>8, BlockGrows
<1>10. /\ Pages(block) = Pages(got) \union {p}
       /\ IsFiniteSet(Pages(block)) /\ Cardinality(Pages(block)) = k + 1
  BY <1>7, <1>9, BlockPages
<1>11. left + k \in Sizes
  BY <1>3, <1>7 DEF BlocksOK
<1>12. ASSUME NEW q \in Pages(got) PROVE q \in Page /\ state[q] = "KERN"
  <2>1. q \in HeldPages
    BY <1>12 DEF HeldPages
  <2> QED
    BY <2>1, HeldIsKern
<1>13. HeapFree \in SUBSET Page /\ IsFiniteSet(HeapFree)
  BY HeapFreeFacts
<1>14. Pages(block) \subseteq HeapFree
  BY <1>1, <1>2, <1>10 DEF HeapFree
<1>15. CASE status' = "running"
  <2>1. Collect(p)
    BY <1>1, <1>15 DEF VAllocatePage
  <2>2. CASE left # 1
    <3>1. held' = held /\ got' = block
      BY <1>8, <2>1, <2>2 DEF Collect
    <3>2. {q \in Page : state'[q] = "usable"} \union Pages(got') = HeapFree
      BY <1>2, <1>10, <3>1 DEF HeapFree, Pages
    <3> QED
      BY <1>2, <1>15, <3>1, <3>2 DEF Kernel!vars, HeapFree, Pages
  <2>3. CASE left = 1
    <3>1. held' = held \union {block} /\ got' = << >>
      BY <1>8, <2>1, <2>3 DEF Collect
    <3>2. k + 1 \in Sizes
      BY <1>11, <2>3
    <3>3. Pages(got') = {}
      BY <3>1 DEF Pages
    <3>4. {q \in Page : state'[q] = "usable"} = HeapFree \ Pages(block)
      BY <1>2, <1>10, <1>12 DEF HeapFree
    <3>5. ASSUME NEW x \in Pages(block), NEW y \in HeapFree \ Pages(block)
          PROVE  x < y
      <4>1. y \in Page /\ state[y] = "usable" /\ y # p
        BY <1>10, <3>5 DEF HeapFree
      <4>2. CASE x = p
        BY <1>5, <4>1, <4>2
      <4>3. CASE x \in Pages(got)
        BY <1>2, <4>1, <4>3 DEF BlocksOK, Pages
      <4> QED
        BY <1>10, <4>2, <4>3
    <3>6. Kernel!Lowest(HeapFree, k + 1) = Pages(block)
      BY <1>10, <1>13, <1>14, <3>5, LowestIs
    <3>7. Kernel!HasRoom(HeapFree, k + 1)
      <4>1. PICK q \in Page : state'[q] = "usable"
        BY <1>2, <1>15
      <4>2. HeapFree # Pages(block)
        BY <3>4, <4>1
      <4>3. Cardinality(HeapFree) \in Nat /\ Cardinality(Pages(block)) <= Cardinality(HeapFree)
        BY <1>13, <1>14, FS_Subset, FS_CardinalityType
      <4>4. Cardinality(HeapFree) # Cardinality(Pages(block))
        BY <1>13, <1>14, <4>2, FS_Subset
      <4> QED
        BY <1>10, <4>3, <4>4, SameCount DEF Kernel!HasRoom
    <3>8. {Pages(b) : b \in held'} = {Pages(b) : b \in held} \union {Pages(block)}
      BY <3>1
    <3>9. Kernel!New(k + 1)
      BY <1>2, <1>15, <3>3, <3>4, <3>6, <3>7, <3>8 DEF Kernel!New, HeapFree
    <3> QED
      BY <3>2, <3>9 DEF Kernel!Next
  <2> QED
    BY <2>2, <2>3
<1>16. CASE status' = "wild"
  <2>1. held' = held
    BY <1>16 DEF VAllocatePage
  <2>2. HeapFree = Pages(block)
    BY <1>2, <1>10, <1>16 DEF HeapFree
  <2>3. ~ Kernel!HasRoom(HeapFree, left + k)
    BY <1>3, <1>10, <2>2, SameCount DEF Kernel!HasRoom
  <2>4. Kernel!Stop
    BY <1>2, <1>11, <1>16, <2>1, <2>3 DEF Kernel!Stop, HeapFree, Pages
  <2> QED
    BY <2>4 DEF Kernel!Next
<1> QED
  BY <1>2, <1>15, <1>16

\* Free of a block is Delete of its pages.
LEMMA FreeRefines ==
  ASSUME IInv, VInv, NEW b \in held, VFree(b)
  PROVE  Kernel!Delete(Pages(b))
<1> USE DEF VInv
<1>1. /\ vstatus = "running" /\ status = "running" /\ left = 0 /\ status' = "running"
      /\ state' = [q \in Page |-> IF q = b[1] THEN "usable" ELSE state[q]]
  BY VFreeEffect
<1>2. 1 \in DOMAIN b /\ b[1] \in Page
  BY <1>1, FreedPage
<1>3. held' = held \ {b} /\ got' = got
  BY DEF VFree
<1>4. Kernel!Min(Pages(b)) = b[1]
  <2>1. b[1] \in Pages(b)
    BY <1>2 DEF Pages
  <2>2. b \in Seq(Page) /\ \A i, j \in DOMAIN b : i < j => b[i] < b[j]
    BY DEF BlocksOK, Blocks
  <2>3. ASSUME NEW x \in Pages(b) PROVE x \in Int /\ b[1] <= x
    <3>1. PICK i \in DOMAIN b : b[i] = x
      BY <2>3 DEF Pages
    <3>2. i \in Nat /\ 1 <= i /\ x \in Page /\ b[1] \in Page
      BY <1>2, <2>2, <3>1
    <3>3. CASE i = 1
      BY <3>1, <3>2, <3>3 DEF Page
    <3>4. CASE 1 < i
      BY <1>2, <2>2, <3>1, <3>2, <3>4 DEF Page
    <3> QED
      BY <3>2, <3>3, <3>4
  <2>4. \A x \in Pages(b) : (\A y \in Pages(b) : x =< y) <=> x = b[1]
    BY <2>1, <2>3
  <2> QED
    BY <2>1, <2>4 DEF Kernel!Min
<1>5. {Pages(c) : c \in held'} = {Pages(c) : c \in held} \ {Pages(b)}
  <2>1. ASSUME NEW c \in held, c # b PROVE Pages(c) # Pages(b)
    <3>1. b[1] \in Pages(b)
      BY <1>2 DEF Pages
    <3>2. b[1] \notin Pages(c)
      BY <1>2, <2>1 DEF Pages, BlocksOK, Disjoint
    <3> QED
      BY <3>1, <3>2
  <2> QED
    BY <1>3, <2>1
<1>6. {q \in Page : state'[q] = "usable"} = {q \in Page : state[q] = "usable"} \union {b[1]}
  BY <1>1, <1>2
<1>7. Pages(got') = Pages(got)
  BY <1>3
<1> QED
  BY <1>1, <1>4, <1>5, <1>6, <1>7 DEF Kernel!Delete

\* new and delete give what Heap promises, whatever the managers do to their
\* lists, tables and ids in between.
THEOREM HeapRefinement == VSpec => ImplementsHeap
<1>1. VInit => Kernel!Init
  BY DEF VInit, Init, Kernel!Init, Pages
<1>2. IInv /\ VInv /\ [VNext]_<<vars, vvars>> => [Kernel!Next]_(Kernel!vars)
  <2> SUFFICES ASSUME IInv, VInv, [VNext]_<<vars, vvars>>
               PROVE  Kernel!Next \/ UNCHANGED Kernel!vars
    OBVIOUS
  <2>1. ASSUME NEW b \in held, VFree(b) PROVE Kernel!Next
    BY <2>1, FreeRefines DEF Kernel!Next
  <2>2. ASSUME UNCHANGED <<state, status, got, held>> PROVE UNCHANGED Kernel!vars
    BY <2>2 DEF Kernel!vars, Pages
  <2>3. CASE UNCHANGED <<vars, vvars>>
    BY <2>2, <2>3 DEF vars, vvars
  <2>4. CASE SetupPageDirectoryTable \/ MapSystemMemory \/ EnablePaging
    BY <2>2, <2>4 DEF SetupPageDirectoryTable, MapSystemMemory, EnablePaging, vars
  <2>5. ASSUME NEW k \in Sizes, VAllocate(k) PROVE UNCHANGED Kernel!vars
    BY <2>2, <2>5 DEF VAllocate, vars
  <2>6. ASSUME NEW p \in Device, MMap(p) \/ Unmap(p) PROVE UNCHANGED Kernel!vars
    BY <2>2, <2>6 DEF MMap, Unmap, vars
  <2>7. ASSUME NEW v \in VPage, Touch(v) PROVE UNCHANGED Kernel!vars
    BY <2>2, <2>7 DEF Touch, vars
  <2> QED
    BY <2>1, <2>3, <2>4, <2>5, <2>6, <2>7, AllocateRefines DEF VNext
<1> QED
  BY <1>1, <1>2, VInvariance, PTL DEF VSpec, ImplementsHeap, Kernel!Spec

-----------------------------------------------------------------------------
(* The tables are kept as long as the pages in use fit below them *)

\* No allocation has a frame of the tables, because the allocations and what
\* the one in progress still needs fit below; and their entries, once
\* written, stay.
TablesInv ==
  /\ Cardinality(blocks) + left <= MaxUsed
  /\ \A c \in blocks : c.base \notin TableFrames
  /\ \A f \in TableFrames :
       vstatus \in {"video", "test", "running"} \/ (vstatus = "map" /\ f < at) =>
         Entry(f) = KernWord(f)

\* The allocations are as many as their first pages.
LEMMA BlocksFinite ==
  ASSUME IInv
  PROVE  IsFiniteSet(blocks) /\ Cardinality(blocks) \in Nat
<1> DEFINE base == [c \in blocks |-> c.base]
<1>1. base \in Injection(blocks, Page)
  <2>1. base \in [blocks -> Page]
    BY DEF IInv, TypeOK, Block
  <2>2. ASSUME NEW b \in blocks, NEW c \in blocks, base[b] = base[c]
        PROVE  b = c
    <3>1. b.base \in Span(b) /\ b.base \in Span(c)
      BY <2>2 DEF IInv, TypeOK, Block, Span, Page
    <3> QED
      BY <3>1, StringIsBlock DEF IInv, IdsCorrect
  <2> QED
    BY <2>1, <2>2 DEF Injection, IsInjective
<1>2. IsFiniteSet(Page)
  BY PageCountAssumption, FS_Interval DEF Page
<1> HIDE DEF base
<1> QED
  BY <1>1, <1>2, FS_Injection, FS_CardinalityType

\* While there is room below the tables the free pointer is there.
LEMMA FreePtrBelow ==
  ASSUME TablesHaveRoom, IInv, VInv, TablesInv, left > 0, status = "running"
  PROVE  freePagePtr \notin TableFrames
<1>1. PICK p \in BelowTables : state[p] = "usable"
  <2> SUFFICES ASSUME \A p \in BelowTables : state[p] # "usable" PROVE FALSE
    OBVIOUS
  <2>1. \A p \in BelowTables : \E c \in blocks : c.base = p
    <3> SUFFICES ASSUME NEW p \in BelowTables PROVE \E c \in blocks : c.base = p
      OBVIOUS
    <3>1. p \in Page /\ BootState[p] = "usable" /\ state[p] # "usable"
      BY DEF BelowTables
    <3>2. PICK c \in blocks : p \in Span(c)
      BY <3>1 DEF IInv, PagesAccounted
    <3>3. c.len = 1 /\ c.base \in Int
      BY DEF VInv, HeldOK, IInv, TypeOK, Block, Page
    <3> QED
      BY <3>2, <3>3 DEF Span
  <2> DEFINE holder == [p \in BelowTables |-> CHOOSE c \in blocks : c.base = p]
  <2>2. \A p \in BelowTables : holder[p] \in blocks /\ holder[p].base = p
    BY <2>1
  <2> HIDE DEF holder
  <2>3. holder \in Injection(BelowTables, blocks)
    <3>1. holder \in [BelowTables -> blocks]
      BY <2>2 DEF holder
    <3> QED
      BY <2>2, <3>1 DEF Injection, IsInjective
  <2>4. Cardinality(BelowTables) <= Cardinality(blocks) /\ Cardinality(blocks) \in Nat
    BY <2>3, BlocksFinite, FS_Injection
  <2>5. Cardinality(BelowTables) \in Nat
    BY <2>3, BlocksFinite, FS_Injection, FS_CardinalityType
  <2>6. left \in Nat /\ MaxUsed \in Nat
    BY VirtAssumption DEF VInv, BlocksOK
  <2> QED
    BY <2>4, <2>5, <2>6 DEF TablesInv, TablesHaveRoom
<1>2. p \in Page /\ freePagePtr \in Page /\ ~ (p < freePagePtr)
  BY <1>1 DEF BelowTables, IInv, TypeOK, FreePtrIsFirstUsable, IsFirstUsable
<1>3. ASSUME NEW f \in TableFrames PROVE freePagePtr # f
  BY <1>1, <1>2 DEF BelowTables
<1> QED
  BY <1>3

\* The invariant holds when initializeMemory begins.
LEMMA VInitTables == VInit => TablesInv
<1> SUFFICES ASSUME VInit PROVE TablesInv
  OBVIOUS
<1>1. blocks = {} /\ left = 0 /\ vstatus = "directory"
  BY DEF VInit, Init
<1>2. Cardinality(blocks) = 0 /\ MaxUsed \in Nat
  BY <1>1, FS_EmptySet, VirtAssumption
<1> QED
  BY <1>1, <1>2 DEF TablesInv

\* It is kept when nobody allocates and the entries of the tables stay.
LEMMA SameTables ==
  ASSUME TablesInv, UNCHANGED <<blocks, left>>,
         \A f \in TableFrames : Entry(f)' = Entry(f),
         vstatus = "running" \/ UNCHANGED <<vstatus, at>>
           \/ vstatus \in {"video", "test"} \/ vstatus' = "directory"
  PROVE  TablesInv'
BY DEF TablesInv

\* A step keeps it.
LEMMA VNextTables ==
  ASSUME TablesHaveRoom, IInv, VInv, TablesInv, [VNext]_<<vars, vvars>>
  PROVE  TablesInv'
<1> USE DEF VInv
<1>1. /\ TableFrames \subseteq Page /\ TableFrames \subseteq VPage /\ Page \subseteq VPage
      /\ \A f \in TableFrames : BootState[f] = "usable"
  BY TablesAssumption DEF TablesHaveRoom
<1>2. Cardinality(blocks) \in Nat /\ IsFiniteSet(blocks) /\ left \in Nat /\ MaxUsed \in Nat
  BY BlocksFinite, VirtAssumption DEF BlocksOK
<1>3. CASE SetupPageDirectoryTable
  <2>1. UNCHANGED <<left, blocks>> /\ vstatus = "directory"
        /\ (vstatus' = "directory" \/ (vstatus' = "map" /\ at' = 0))
    BY <1>3 DEF SetupPageDirectoryTable, Turn, vars
  <2>2. \A f \in TableFrames : f \in Nat
    BY <1>1 DEF Page
  <2> QED
    BY <2>1, <2>2 DEF TablesInv
<1>4. CASE MapSystemMemory
  <2>1. UNCHANGED <<left, blocks>>
    BY <1>4 DEF MapSystemMemory, vars
  <2>2. CASE vstatus = "map"
    <3>1. /\ at \in Page
          /\ mem' = WriteEntry(mem, at, createPTEntry(at,
                      IF state[at] = "usable" THEN VMM_KERN ELSE VMM_UNMAP))
          /\ Turn(at + 1, N, "video")
      BY <1>4, <2>2 DEF MapSystemMemory, map, BootOK
    <3>2. PICK word \in Own(at) : mem' = WriteEntry(mem, at, word)
                                 /\ (state[at] = "usable" => word = KernWord(at))
      BY <3>1, createPTEntryFacts DEF Own
    <3>3. word \in SUBSET Int
      BY <1>1, <3>1, <3>2, WordFacts DEF Own
    <3>4. \/ at' = at + 1 /\ vstatus' = "map"
          \/ at + 1 = N /\ vstatus' = "video"
      BY <2>2, <3>1, PageCountAssumption DEF Turn, Page
    <3>5. \A u \in VPage : Entry(u)' = IF u = at THEN word ELSE Entry(u)
      BY <1>1, <2>2, <3>1, <3>2, <3>3, <3>4, Store
    <3>6. ASSUME NEW f \in TableFrames PROVE state[f] = "usable"
      <4>1. status = "running"
        BY <2>2 DEF BootOK
      <4>2. \A c \in blocks : f \notin Span(c)
        <5> SUFFICES ASSUME NEW c \in blocks, f \in Span(c) PROVE FALSE
          OBVIOUS
        <5>1. c.len = 1 /\ c.base \in Int /\ c.base \notin TableFrames
          BY DEF HeldOK, IInv, TypeOK, Block, Page, TablesInv
        <5> QED
          BY <5>1 DEF Span
      <4> QED
        BY <1>1, <4>1, <4>2 DEF IInv, PagesAccounted
    <3>7. ASSUME NEW f \in TableFrames, vstatus' = "map" => f < at'
          PROVE  Entry(f)' = KernWord(f)
      <4>1. f \in Page /\ f \in VPage
        BY <1>1
      <4>2. CASE f = at
        BY <3>2, <3>5, <3>6, <4>1, <4>2
      <4>3. CASE f # at
        <5>1. f < at
          BY <3>1, <3>4, <3>7, <4>1, <4>3 DEF Page
        <5> QED
          BY <2>2, <3>5, <4>1, <4>3, <5>1 DEF TablesInv
      <4> QED
        BY <4>2, <4>3
    <3> QED
      BY <2>1, <3>4, <3>7 DEF TablesInv
  <2>3. CASE vstatus = "video"
    <3>1. /\ mem' = WriteEntry(mem, VideoPage, KernWord(VideoPage))
          /\ vstatus' = "test" /\ VideoPage \in VPage
      BY <1>1, <1>4, <2>3, createPTEntryFacts, VirtAssumption DEF MapSystemMemory, map
    <3>2. KernWord(VideoPage) \in SUBSET Int
      BY <3>1, WordFacts
    <3>3. \A u \in VPage : Entry(u)' = IF u = VideoPage THEN KernWord(u) ELSE Entry(u)
      BY <2>3, <3>1, <3>2, Store
    <3> QED
      BY <1>1, <2>1, <2>3, <3>1, <3>3 DEF TablesInv
  <2> QED
    BY <1>4, <2>2, <2>3 DEF MapSystemMemory
<1>5. CASE EnablePaging \/ UNCHANGED <<vars, vvars>>
  <2>1. UNCHANGED <<mem, left, blocks>>
        /\ (UNCHANGED <<vstatus, at>> \/ vstatus = "test")
    BY <1>5 DEF EnablePaging, vars, vvars, bootVars
  <2> QED
    BY <2>1, SameTables DEF Entry
<1>6. ASSUME NEW k \in Sizes, VAllocate(k) PROVE TablesInv'
  <2>1. /\ left' = k /\ Cardinality(blocks) + k <= MaxUsed
        /\ UNCHANGED <<vstatus, at, mem, blocks>>
    BY <1>6 DEF VAllocate, bootVars, vars
  <2> QED
    BY <2>1 DEF TablesInv, Entry
<1>7. CASE VAllocatePage
  <2>1. PICK p \in Page : p = freePagePtr
    BY <1>7, PageAllocated DEF VAllocatePage
  <2>2. /\ status = "running"
        /\ \/ /\ status' = "running"
              /\ blocks' = blocks \union {[id |-> nextAllocID', base |-> p, len |-> 1]}
           \/ /\ status' = "wild"
              /\ blocks' = blocks
    BY <1>7, <2>1, PageAllocated DEF VAllocatePage
  <2>3. left > 0 /\ vstatus = "running" /\ UNCHANGED <<vstatus, at>>
    BY <1>7 DEF VAllocatePage, bootVars, BootOK
  <2>4. p \notin TableFrames
    BY <2>1, <2>2, <2>3, FreePtrBelow
  <2>5. CASE status' = "running"
    <3>1. mem' = WriteEntry(mem, p, KernWord(p)) /\ left' = left - 1
      BY <1>7, <2>1, <2>5, createPTEntryFacts DEF VAllocatePage, map, Collect
    <3>2. p \in VPage /\ KernWord(p) \in SUBSET Int
      BY <1>1, WordFacts
    <3>3. \A u \in VPage : Entry(u)' = IF u = p THEN KernWord(p) ELSE Entry(u)
      BY <2>3, <3>1, <3>2, Store
    <3>4. PICK c : c = [id |-> nextAllocID', base |-> p, len |-> 1]
      OBVIOUS
    <3>5. c.base = p /\ blocks' = blocks \union {c}
      BY <2>2, <2>5, <3>4
    <3>6. Cardinality(blocks') <= Cardinality(blocks) + 1 /\ Cardinality(blocks') \in Nat
      <4>1. Cardinality(blocks \union {c}) =
              IF c \in blocks THEN Cardinality(blocks) ELSE Cardinality(blocks) + 1
        BY <1>2, FS_AddElement, Zenon
      <4> QED
        BY <1>2, <3>5, <4>1
    <3>7. Cardinality(blocks') + left' <= MaxUsed
      BY <1>2, <3>1, <3>6 DEF TablesInv
    <3> QED
      BY <1>1, <2>3, <2>4, <3>3, <3>5, <3>7 DEF TablesInv
  <2>6. CASE status' = "wild"
    <3>1. UNCHANGED <<mem, left, blocks>>
      BY <1>7, <2>2, <2>6 DEF VAllocatePage
    <3> QED
      BY <2>3, <3>1, SameTables DEF Entry
  <2> QED
    BY <2>2, <2>5, <2>6
<1>8. ASSUME NEW b \in held, VFree(b) PROVE TablesInv'
  <2>1. /\ vstatus = "running" /\ left = 0
        /\ \A u \in VPage : Entry(u)' = IF u = b[1] THEN UserWord(0) ELSE Entry(u)
    BY <1>8, VFreeEffect
  <2>2. PICK c \in blocks : c.base = b[1] /\ blocks' = blocks \ {c}
    BY <1>8, VFreeEffect
  <2>3. left' = left /\ vstatus' = vstatus
    BY <1>8 DEF VFree, bootVars
  <2>4. Cardinality(blocks') <= Cardinality(blocks) /\ Cardinality(blocks') \in Nat
    <3>1. Cardinality(blocks \ {c}) = Cardinality(blocks) - 1
      <4>1. Cardinality(blocks \ {c}) =
              IF c \in blocks THEN Cardinality(blocks) - 1 ELSE Cardinality(blocks)
        BY <1>2, FS_RemoveElement, Zenon
      <4> QED
        BY <4>1
    <3>2. Cardinality(blocks \ {c}) \in Nat
      BY <1>2, FS_RemoveElement, FS_CardinalityType, Zenon
    <3> QED
      BY <1>2, <2>2, <3>1, <3>2
  <2>5. b[1] \notin TableFrames
    BY <2>2 DEF TablesInv
  <2> QED
    BY <1>1, <1>2, <2>1, <2>2, <2>3, <2>4, <2>5 DEF TablesInv
<1>9. ASSUME NEW p \in Device, MMap(p) \/ Unmap(p) PROVE TablesInv'
  <2>1. vstatus = "running" /\ UNCHANGED <<vstatus, left, blocks>>
    BY <1>9 DEF MMap, Unmap, Idle, bootVars, vars
  <2>2. p \in VPage /\ p \notin TableFrames /\ 0 \in VPage
    BY <1>1, VirtAssumption, PageCountAssumption DEF Page
  <2>3. PICK word \in {KernWord(p), UserWord(0)} : mem' = WriteEntry(mem, p, word)
    BY <1>9, createPTEntryFacts DEF MMap, Unmap, map, unmap
  <2>4. word \in SUBSET Int
    BY <2>2, WordFacts
  <2>5. \A u \in VPage : Entry(u)' = IF u = p THEN word ELSE Entry(u)
    BY <2>1, <2>2, <2>3, <2>4, Store
  <2> QED
    BY <1>1, <2>1, <2>2, <2>5, SameTables
<1>10. ASSUME NEW v \in VPage, Touch(v) PROVE TablesInv'
  BY <1>10, SameTables DEF Touch, bootVars, Entry, vars
<1> QED
  BY <1>3, <1>4, <1>5, <1>6, <1>7, <1>8, <1>9, <1>10 DEF VNext

\* Where the tables lie in RAM with enough of it below them, no caller is
\* ever given their memory and they stay mapped for the kernel.
THEOREM TablesStayKept == VSpec => []TablesKept
<1> DEFINE Kept == TablesHaveRoom => TablesInv
<1>1. VInit => Kept
  BY VInitTables
<1>2. Kept /\ IInv /\ VInv /\ [VNext]_<<vars, vvars>> => Kept'
  BY VNextTables
<1>3. IInv /\ VInv /\ Kept => TablesKept
  <2> SUFFICES ASSUME TablesHaveRoom, IInv, VInv, TablesInv, vstatus = "running",
                      NEW f \in TableFrames
               PROVE  f \notin HeldPages /\ KernelPage(f)
    BY DEF TablesKept
  <2>1. f \notin HeldPages
    BY DEF VInv, HeldOK, TablesInv
  <2>2. Entry(f) = KernWord(f) /\ f \in VPage
    BY TablesAssumption DEF TablesInv
  <2>3. Walk(f) = [page |-> f, present |-> 0 \in Entry(f), frame |-> FrameOf(Entry(f)),
                   write |-> 1 \in Entry(f), user |-> FALSE]
    BY <2>2, WalkOf DEF VInv
  <2>4. FrameOf(Entry(f)) = f /\ 0 \in Entry(f) /\ 1 \in Entry(f)
    BY <2>2, WordFacts
  <2> QED
    BY <2>1, <2>3, <2>4 DEF KernelPage
<1> QED
  BY <1>1, <1>2, <1>3, VInvariance, PTL DEF VSpec
=============================================================================
