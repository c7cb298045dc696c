---------------------------- MODULE KStdLib_proofs ----------------------------
(***************************************************************************)
(* The vector and the hash table for any page size, number of pages, table *)
(* capacity, keys, values and items, and whatever RAM held at the start:   *)
(* until a wild pointer is followed they hold what was put into them.      *)
(*                                                                         *)
(* The invariant Sound is a shape of memory.  The vector has a run of      *)
(* pages V whose words are the stack (VectorIn).  The table has a page,    *)
(* and each key a page with its list and a page with its node; all these   *)
(* are different, and none is free or the vector's (Apart).  Each bucket   *)
(* is a chain of the lists of its keys that ends in NULL (Linked), and     *)
(* each list leads to a node with the key and its value (Filled).  What    *)
(* Hash takes and what Insert replaces is in no set: it is lost, but       *)
(* nobody writes there.                                                    *)
(*                                                                         *)
(* On this shape the walk along a bucket meets the lists of its keys and   *)
(* ends, within as many steps as there are pages (BucketIs); so Insert     *)
(* finds the list of a key if there is one (HoldingIs) and Get its value   *)
(* (LookupIs).  A write to pages of others leaves the table and the vector *)
(* as they are (TableKept, VectorKept); since new takes free pages only,   *)
(* each step is a write to pages of others, or one to a word of its own    *)
(* (PushInPlaceSound, Replaced, Added).                                    *)
(***************************************************************************)
EXTENDS KStdLib, FiniteSetTheorems, WellFoundedInduction, TLAPS

-----------------------------------------------------------------------------
(* Arithmetic *)

\* Induction: a set of numbers that is not empty has a least one.
LEMMA LeastNat ==
  ASSUME NEW T \in SUBSET Nat, T # {}
  PROVE  \E x \in T : \A y \in T : x <= y
<1>1. \E x \in T : \A y \in T : ~ (<<y, x>> \in OpToRel(<, Nat))
  BY NatLessThanWellFounded, WFMin, Zenon
<1>2. \E x \in T : \A y \in T : ~ (y < x)
  BY <1>1, Zenon DEF OpToRel
<1> QED
  BY <1>2

\* Division, as the provers need it.
LEMMA Divided ==
  ASSUME NEW a \in Nat, NEW d \in Nat \ {0}
  PROVE  /\ a \div d \in Nat /\ a % d \in 0 .. (d - 1)
         /\ a = (a \div d) * d + (a % d)
BY Z3

\* A product grows with its factor.
LEMMA ProductGrows ==
  ASSUME NEW a \in Nat, NEW c \in Nat, NEW d \in Nat
  PROVE  /\ a * d \in Nat
         /\ a < c => a * d + d <= c * d
         /\ a <= c => a * d <= c * d
<1>1. a * d \in Nat /\ c * d \in Nat
  OBVIOUS
<1>2. ASSUME NEW x \in Nat, NEW y \in Nat, x < y
      PROVE  x * d + d <= y * d
  <2>1. PICK k \in Nat : y = x + 1 + k
    <3>1. y - x - 1 \in Nat /\ y = x + 1 + (y - x - 1)
      BY <1>2
    <3> QED
      BY <3>1
  <2>2. y * d = x * d + d + k * d
    BY <2>1
  <2>3. k * d \in Nat /\ x * d \in Nat
    OBVIOUS
  <2> QED
    BY <2>2, <2>3
<1>3. a < c => a * d + d <= c * d
  BY <1>2
<1>4. a <= c => a * d <= c * d
  <2>1. a = c \/ a < c \/ c < a
    OBVIOUS
  <2> QED
    BY <2>1, <1>1, <1>3
<1> QED
  BY <1>1, <1>3, <1>4

\* Quotient and rest determine a number, and it them.
LEMMA QuotientIs ==
  ASSUME NEW q \in Nat, NEW d \in Nat \ {0}, NEW x \in 0 .. (d - 1)
  PROVE  (q * d + x) \div d = q /\ (q * d + x) % d = x
<1> DEFINE a == q * d + x
<1>1. a \in Nat /\ q * d \in Nat
  OBVIOUS
<1>2. a \div d \in Nat /\ a % d \in 0 .. (d - 1) /\ a = (a \div d) * d + (a % d)
  BY <1>1, Divided
<1>3. PICK p \in Nat, y \in 0 .. (d - 1) : p = a \div d /\ y = a % d /\ q * d + x = p * d + y
  BY <1>2
<1>4. p * d \in Nat
  OBVIOUS
<1>5. ~ (p < q)
  <2> SUFFICES ASSUME p < q PROVE FALSE
    OBVIOUS
  <2>1. p * d + d <= q * d
    BY ProductGrows
  <2> QED
    BY <1>1, <1>3, <1>4, <2>1
<1>6. ~ (q < p)
  <2> SUFFICES ASSUME q < p PROVE FALSE
    OBVIOUS
  <2>1. q * d + d <= p * d
    BY ProductGrows
  <2> QED
    BY <1>1, <1>3, <1>4, <2>1
<1>7. p = q
  BY <1>5, <1>6
<1>8. y = x
  BY <1>1, <1>3, <1>7
<1> QED
  BY <1>3, <1>7, <1>8

-----------------------------------------------------------------------------
(* Pages and their words *)

\* The sizes, typed.
LEMMA Sizes ==
  /\ PageWords \in Nat \ {0} /\ 2 <= PageWords /\ NPages \in Nat
  /\ Capacity \in Nat \ {0} /\ Capacity <= PageWords
  /\ Pages \in SUBSET Nat /\ Address \in SUBSET (Nat \ {0})
<1>1. /\ PageWords \in Nat \ {0} /\ 2 <= PageWords /\ NPages \in Nat
      /\ Capacity \in Nat \ {0} /\ Capacity <= PageWords
  BY StdLibAssumption
<1>2. Pages \in SUBSET Nat
  BY <1>1 DEF Pages
<1>3. Address \in SUBSET (Nat \ {0})
  BY <1>1 DEF Address
<1> QED
  BY <1>1, <1>2, <1>3

\* Where page p begins, and the page an address is in.
At(p) == p * PageWords
PageOf(a) == a \div PageWords

\* The words of a page, and that page again.
LEMMA WordOfPage ==
  ASSUME NEW p \in Pages, NEW x \in 0 .. (PageWords - 1)
  PROVE  /\ At(p) + x \in Address /\ PageOf(At(p) + x) = p
         /\ At(p) \in Nat /\ At(p) # NULL
<1>1. PICK d \in Nat \ {0}, n \in Nat : d = PageWords /\ n = NPages
  BY Sizes
<1>2. p \in Nat /\ 1 <= p /\ p <= n
  BY <1>1 DEF Pages
<1>3. p * d \in Nat /\ d <= p * d
  <2>1. 1 * d <= p * d
    BY <1>2, ProductGrows
  <2> QED
    BY <1>2, <2>1
<1>4. p * d + d <= (n + 1) * d
  <2>1. p < n + 1 /\ n + 1 \in Nat
    BY <1>2
  <2> QED
    BY <1>2, <2>1, ProductGrows
<1>5. (n + 1) * d = d * (n + 1) /\ d * (n + 1) \in Nat
  OBVIOUS
<1>6. p * d + x \in d .. (d * (n + 1) - 1)
  BY <1>1, <1>3, <1>4, <1>5
<1>7. (p * d + x) \div d = p
  BY <1>1, <1>2, QuotientIs
<1> QED
  BY <1>1, <1>3, <1>6, <1>7 DEF At, PageOf, Address, NULL

\* The pages of an allocation hold its words, and one page a few of them.
LEMMA PagesForIs ==
  ASSUME NEW words \in Nat \ {0}
  PROVE  /\ PagesFor(words) \in Nat \ {0}
         /\ words <= PagesFor(words) * PageWords
         /\ words <= PageWords => PagesFor(words) = 1
<1>1. PICK d \in Nat \ {0} : d = PageWords
  BY Sizes
<1>2. words + d - 1 \in Nat
  OBVIOUS
<1>3. PICK n \in Nat, r \in 0 .. (d - 1) : n = (words + d - 1) \div d /\ words + d - 1 = n * d + r
  BY <1>2, Divided
<1>4. PagesFor(words) = n
  BY <1>1, <1>3 DEF PagesFor
<1>5. n * d \in Nat /\ words <= n * d
  BY <1>3
<1>6. n # 0
  <2> SUFFICES ASSUME n = 0 PROVE FALSE
    OBVIOUS
  <2>1. n * d = 0
    OBVIOUS
  <2> QED
    BY <1>5, <2>1
<1>7. ASSUME words <= d PROVE n = 1
  <2>1. words - 1 \in 0 .. (d - 1) /\ 1 * d + (words - 1) = words + d - 1
    BY <1>7
  <2>2. (1 * d + (words - 1)) \div d = 1
    BY <2>1, QuotientIs
  <2> QED
    BY <1>3, <2>1, <2>2
<1> QED
  BY <1>1, <1>4, <1>5, <1>6, <1>7

\* Sets of pages are finite, and have a first and a last.
LEMMA PageSets ==
  ASSUME NEW S \in SUBSET Pages
  PROVE  /\ IsFiniteSet(S) /\ Cardinality(S) \in Nat
         /\ S # {} => /\ Min(S) \in S /\ Max(S) \in S
                      /\ \A p \in S : Min(S) <= p /\ p <= Max(S)
<1>1. PICK n \in Nat : n = NPages /\ Pages = 1 .. n
  BY Sizes DEF Pages
<1>2. IsFiniteSet(1 .. n)
  BY FS_Interval
<1>3. IsFiniteSet(S) /\ Cardinality(S) \in Nat
  BY <1>1, <1>2, FS_Subset, FS_CardinalityType
<1>4. ASSUME S # {} PROVE Min(S) \in S /\ \A p \in S : Min(S) <= p
  <2>1. \E x \in S : \A y \in S : x <= y
    BY <1>1, <1>4, LeastNat
  <2> QED
    BY <2>1 DEF Min
<1>5. ASSUME S # {} PROVE Max(S) \in S /\ \A p \in S : p <= Max(S)
  <2> DEFINE T == {n - p : p \in S}
  <2>1. T \in SUBSET Nat /\ T # {}
    BY <1>1, <1>5
  <2>2. PICK x \in T : \A y \in T : x <= y
    <3> HIDE DEF T
    <3> QED
      BY <2>1, LeastNat
  <2>3. PICK p \in S : x = n - p
    OBVIOUS
  <2>4. ASSUME NEW q \in S PROVE p >= q
    <3>1. n - p <= n - q
      BY <2>2, <2>3
    <3> QED
      BY <1>1, <3>1
  <2>5. Max(S) \in S /\ \A q \in S : Max(S) >= q
    BY <2>4 DEF Max
  <2> QED
    BY <1>1, <2>5
<1> QED
  BY <1>3, <1>4, <1>5

\* There are as many lowest pages as are asked for.
LEMMA LowestIs ==
  ASSUME NEW fr \in SUBSET Pages, NEW k \in Nat, k <= Cardinality(fr)
  PROVE  Lowest(fr, k) \in SUBSET fr /\ Cardinality(Lowest(fr, k)) = k
<1>1. PICK n \in Nat : n = NPages /\ Pages = 1 .. n
  BY Sizes DEF Pages
<1> DEFINE Below(t) == {p \in fr : p <= t}
           T == {t \in Nat : k <= Cardinality(Below(t))}
<1>12. \A p \in fr : p \in Nat /\ 1 <= p /\ p <= n
  BY <1>1
<1>2. \A t : Below(t) \in SUBSET Pages
  OBVIOUS
<1>3. \A t : IsFiniteSet(Below(t)) /\ Cardinality(Below(t)) \in Nat
  <2> HIDE DEF Below
  <2> QED
    BY <1>2, PageSets
<1>4. n \in T
  <2>1. Below(n) = fr
    BY <1>12
  <2> QED
    BY <2>1
<1>5. PICK t \in T : \A u \in T : t <= u
  <2>1. T \in SUBSET Nat /\ T # {}
    BY <1>4
  <2> HIDE DEF T
  <2> QED
    BY <2>1, LeastNat
<1>6. t \in Nat /\ k <= Cardinality(Below(t))
  OBVIOUS
<1>7. Cardinality(Below(t)) = k
  <2>1. CASE t = 0
    <3>1. Below(t) = {}
      <4>1. \A p \in fr : ~ (p <= 0)
        BY <1>12
      <4> QED
        BY <2>1, <4>1
    <3> QED
      BY <1>6, <3>1, FS_EmptySet
  <2>2. CASE t # 0
    <3>1. t - 1 \in Nat /\ ~ (t <= t - 1)
      BY <1>6, <2>2
    <3>2. ~ (k <= Cardinality(Below(t - 1)))
      BY <1>5, <3>1
    <3>3. Below(t) \subseteq Below(t - 1) \union {t}
      <4>1. \A p \in fr : p <= t => p <= t - 1 \/ p = t
        BY <1>6, <1>12
      <4> QED
        BY <4>1
    <3>4. Cardinality(Below(t)) <= Cardinality(Below(t - 1)) + 1
      <4> DEFINE B == Below(t - 1)
      <4>1. IsFiniteSet(B) /\ Cardinality(B) \in Nat
        BY <1>3
      <4> HIDE DEF B
      <4>2. /\ IsFiniteSet(B \union {t})
            /\ Cardinality(B \union {t}) <= Cardinality(B) + 1
        BY <4>1, FS_AddElement
      <4>3. Cardinality(Below(t)) <= Cardinality(B \union {t})
        <5>1. Below(t) \in SUBSET (B \union {t})
          BY <3>3 DEF B
        <5> HIDE DEF Below
        <5> QED
          BY <4>2, <5>1, FS_Subset
      <4>4. Cardinality(B \union {t}) \in Nat
        BY <4>2, FS_CardinalityType
      <4>5. Cardinality(Below(t)) \in Nat
        BY <1>3
      <4>6. Cardinality(Below(t)) <= Cardinality(B) + 1
        <5> HIDE DEF Below
        <5> QED
          BY <4>1, <4>2, <4>3, <4>4, <4>5
      <4> QED
        BY <4>6 DEF B
    <3> HIDE DEF Below
    <3>5. Cardinality(Below(t)) \in Nat /\ Cardinality(Below(t - 1)) \in Nat
      BY <1>3
    <3> QED
      BY <1>6, <3>2, <3>4, <3>5
  <2> QED
    BY <2>1, <2>2
<1>8. \A p \in Below(t), q \in fr \ Below(t) : p < q
  BY <1>1, <1>6
<1> DEFINE IsLowest(S) == Cardinality(S) = k /\ \A p \in S, q \in fr \ S : p < q
<1>9. Below(t) \in SUBSET fr /\ IsLowest(Below(t))
  BY <1>7, <1>8
<1>10. Lowest(fr, k) = CHOOSE S \in SUBSET fr : IsLowest(S)
  BY DEF Lowest
<1>11. Lowest(fr, k) \in SUBSET fr /\ IsLowest(Lowest(fr, k))
  <2> HIDE DEF IsLowest, Below
  <2> QED
    BY <1>9, <1>10
<1> QED
  BY <1>11

\* What new gives for some words: T are the pages, and p is the first.
Given(new, fr, words, T, p) ==
  /\ T \in SUBSET fr /\ p \in T /\ Cardinality(T) = PagesFor(words)
  /\ new.ptr = At(p) /\ new.free = fr \ T
  /\ new.whole => T = p .. (p + PagesFor(words) - 1)
  /\ words <= PageWords => T = {p}

\* new takes free pages; if they follow one another they are a run, and for words
\* that fit a page there is one.
LEMMA AllocateIs ==
  ASSUME NEW fr \in SUBSET Pages, NEW words \in Nat \ {0},
         PagesFor(words) <= Cardinality(fr)
  PROVE  \E T, p : Given(Allocate(fr, words), fr, words, T, p)
<1>1. PICK k \in Nat \ {0} : k = PagesFor(words)
  BY PagesForIs
<1>2. PICK T : T = Lowest(fr, k)
  OBVIOUS
<1>3. T \in SUBSET fr /\ Cardinality(T) = k /\ T \in SUBSET Pages
  BY <1>1, <1>2, LowestIs
<1>4. T # {}
  BY <1>3, FS_EmptySet
<1>5. IsFiniteSet(T) /\ Min(T) \in T /\ Max(T) \in T /\ \A q \in T : Min(T) <= q /\ q <= Max(T)
  BY <1>3, <1>4, PageSets
<1>6. PICK p \in Nat, l \in Nat : p = Min(T) /\ l = Max(T)
  BY <1>3, <1>5, Sizes
<1>7. /\ Allocate(fr, words).ptr = At(p)
      /\ Allocate(fr, words).free = fr \ T
      /\ Allocate(fr, words).whole <=> l - p + 1 = k
  BY <1>1, <1>2, <1>6 DEF Allocate, At
<1>8. \A q \in T : p <= q /\ q <= l /\ q \in Nat
  BY <1>3, <1>5, <1>6, Sizes
<1>9. ASSUME l - p + 1 = k PROVE T = p .. (p + k - 1)
  <2>1. p + k - 1 = l
    BY <1>9
  <2>2. T \in SUBSET (p .. l)
    BY <1>8
  <2>3. p \in Int /\ l \in Int /\ p <= l
    BY <1>8, <1>5, <1>6
  <2>4. IsFiniteSet(p .. l) /\ Cardinality(p .. l) = IF p > l THEN 0 ELSE l - p + 1
    BY <2>3, FS_Interval
  <2>5. Cardinality(p .. l) = k
    BY <2>3, <2>4, <1>9
  <2>6. T = p .. l
    BY <2>2, <2>4, <2>5, <1>3, FS_Subset
  <2> QED
    BY <2>1, <2>6
<1>10. ASSUME words <= PageWords PROVE T = {p}
  <2>1. Cardinality(T) = 1
    BY <1>1, <1>3, <1>10, PagesForIs
  <2>2. PICK x : T = {x}
    BY <1>5, <2>1, FS_Singleton
  <2> QED
    BY <1>5, <1>6, <2>2
<1>11. p \in T
  BY <1>5, <1>6
<1> QED
  BY <1>1, <1>3, <1>7, <1>9, <1>10, <1>11 DEF Given

\* new for words that fit a page takes one that is free.
LEMMA OnePage ==
  ASSUME NEW fr \in SUBSET Pages, NEW words \in Nat \ {0}, words <= PageWords,
         NEW k \in Nat, HasRoom(fr, k + 1)
  PROVE  \E p \in fr : /\ Allocate(fr, words).ptr = At(p)
                       /\ Allocate(fr, words).free = fr \ {p}
                       /\ HasRoom(fr \ {p}, k)
<1>1. IsFiniteSet(fr) /\ Cardinality(fr) \in Nat /\ Cardinality(fr) > k + 1
  BY PageSets DEF HasRoom
<1>2. PagesFor(words) = 1
  BY PagesForIs
<1>3. PICK T, p : Given(Allocate(fr, words), fr, words, T, p)
  BY <1>1, <1>2, AllocateIs
<1>4. /\ T = {p} /\ p \in fr
      /\ Allocate(fr, words).ptr = At(p) /\ Allocate(fr, words).free = fr \ {p}
  BY <1>3 DEF Given
<1>5. Cardinality(fr \ {p}) = Cardinality(fr) - 1
  BY <1>1, <1>4, FS_RemoveElement
<1>6. HasRoom(fr \ {p}, k)
  BY <1>1, <1>5 DEF HasRoom
<1> QED
  BY <1>4, <1>6

-----------------------------------------------------------------------------
(* Writing *)

\* A write to one page changes these words of it and no others.
Within(w, m, p, x, s) ==
  /\ w \in [Address -> Int]
  /\ \A q \in Pages, y \in 0 .. (PageWords - 1) :
       w[At(q) + y] = IF q = p /\ y >= x /\ y < x + Len(s)
                      THEN s[y - x + 1] ELSE m[At(q) + y]

\* Those of the sequence, in order.
LEMMA PutIn ==
  ASSUME NEW m \in [Address -> Int], NEW p \in Pages, NEW x \in 0 .. (PageWords - 1),
         NEW s \in Seq(Int), x + Len(s) <= PageWords
  PROVE  Within(Write(m, At(p) + x, s), m, p, x, s)
<1> DEFINE w == Write(m, At(p) + x, s)
<1>1. w = [a \in Address |-> IF a - (At(p) + x) + 1 \in DOMAIN s
                             THEN s[a - (At(p) + x) + 1] ELSE m[a]]
  BY DEF Write
<1>2. PICK n \in Nat : n = Len(s) /\ DOMAIN s = 1 .. n /\ \A i \in 1 .. n : s[i] \in Int
  OBVIOUS
<1>3. w \in [Address -> Int]
  <2> SUFFICES ASSUME NEW a \in Address
               PROVE  (IF a - (At(p) + x) + 1 \in DOMAIN s
                       THEN s[a - (At(p) + x) + 1] ELSE m[a]) \in Int
    BY <1>1
  <2> QED
    BY <1>2
<1>4. ASSUME NEW q \in Pages, NEW y \in 0 .. (PageWords - 1)
      PROVE  w[At(q) + y] = IF q = p /\ y >= x /\ y < x + Len(s)
                            THEN s[y - x + 1] ELSE m[At(q) + y]
  <2>1. /\ At(q) + y \in Address /\ PageOf(At(q) + y) = q
        /\ At(p) \in Nat /\ At(q) \in Nat /\ PageWords \in Nat
    BY WordOfPage, Sizes
  <2>2. w[At(q) + y] = IF At(q) + y - (At(p) + x) + 1 \in 1 .. n
                       THEN s[At(q) + y - (At(p) + x) + 1] ELSE m[At(q) + y]
    BY <1>1, <1>2, <2>1
  <2>3. CASE q = p
    <3>1. At(q) + y - (At(p) + x) + 1 = y - x + 1
      BY <2>1, <2>3
    <3> QED
      BY <1>2, <2>1, <2>2, <2>3, <3>1
  <2>4. CASE q # p
    <3>1. At(q) + y - (At(p) + x) + 1 \notin 1 .. n
      <4> SUFFICES ASSUME At(q) + y - (At(p) + x) + 1 \in 1 .. n PROVE FALSE
        OBVIOUS
      <4>4. PICK i \in 1 .. n : i = At(q) + y - (At(p) + x) + 1
        OBVIOUS
      <4>1. At(q) + y = At(p) + (x + i - 1)
        <5>1. PICK a \in Nat, b \in Nat : a = At(q) /\ b = At(p)
          BY <2>1
        <5>2. i \in Int /\ x \in Int /\ y \in Int
          OBVIOUS
        <5>3. i = a + y - (b + x) + 1
          BY <4>4, <5>1
        <5>4. a + y = b + (x + i - 1)
          BY <5>2, <5>3
        <5> QED
          BY <5>1, <5>4
      <4>2. x + i - 1 \in 0 .. (PageWords - 1)
        BY <1>2, <2>1
      <4>3. PageOf(At(p) + (x + i - 1)) = p
        BY <4>2, WordOfPage
      <4> QED
        BY <2>1, <2>4, <4>1, <4>3
    <3> QED
      BY <2>2, <2>4, <3>1
  <2> QED
    BY <2>3, <2>4
<1> QED
  BY <1>3, <1>4 DEF Within

\* One word of a page, and its first two.
PutOne(w, m, p, x, val) ==
  /\ w \in [Address -> Int]
  /\ \A q \in Pages, y \in 0 .. (PageWords - 1) :
       w[At(q) + y] = IF q = p /\ y = x THEN val ELSE m[At(q) + y]

PutTwo(w, m, p, v1, v2) ==
  /\ w \in [Address -> Int] /\ w[At(p)] = v1 /\ w[At(p) + 1] = v2
  /\ \A q \in Pages \ {p}, y \in 0 .. (PageWords - 1) : w[At(q) + y] = m[At(q) + y]

\* A write of one word.
LEMMA WriteOne ==
  ASSUME NEW m \in [Address -> Int], NEW p \in Pages, NEW x \in 0 .. (PageWords - 1),
         NEW val \in Int
  PROVE  PutOne(Write(m, At(p) + x, <<val>>), m, p, x, val)
<1>1. PICK s : s = <<val>>
  OBVIOUS
<1>2. s \in Seq(Int) /\ Len(s) = 1 /\ s[1] = val /\ x + Len(s) <= PageWords
  <2>1. PageWords \in Nat
    BY Sizes
  <2> QED
    BY <1>1, <2>1
<1>3. PICK w : w = Write(m, At(p) + x, s)
  OBVIOUS
<1>4. Within(w, m, p, x, s)
  BY <1>2, <1>3, PutIn
<1>5. ASSUME NEW q \in Pages, NEW y \in 0 .. (PageWords - 1)
      PROVE  w[At(q) + y] = IF q = p /\ y = x THEN val ELSE m[At(q) + y]
  <2>1. q = p /\ y >= x /\ y < x + Len(s) <=> q = p /\ y = x
    BY <1>2
  <2>2. y = x => s[y - x + 1] = val
    <3>1. y = x => y - x + 1 = 1
      OBVIOUS
    <3> QED
      BY <1>2, <3>1
  <2>3. w[At(q) + y] = IF q = p /\ y >= x /\ y < x + Len(s)
                       THEN s[y - x + 1] ELSE m[At(q) + y]
    BY <1>4 DEF Within
  <2> QED
    BY <2>1, <2>2, <2>3
<1> QED
  BY <1>1, <1>3, <1>4, <1>5 DEF PutOne, Within

\* A write of two words at the start of a page.
LEMMA WriteTwo ==
  ASSUME NEW m \in [Address -> Int], NEW p \in Pages, NEW v1 \in Int, NEW v2 \in Int
  PROVE  PutTwo(Write(m, At(p), <<v1, v2>>), m, p, v1, v2)
<1>1. PICK s : s = <<v1, v2>>
  OBVIOUS
<1>2. /\ s \in Seq(Int) /\ Len(s) = 2 /\ s[1] = v1 /\ s[2] = v2
      /\ 0 \in 0 .. (PageWords - 1) /\ 1 \in 0 .. (PageWords - 1) /\ 0 + Len(s) <= PageWords
  <2>1. PageWords \in Nat /\ 2 <= PageWords
    BY Sizes
  <2> QED
    BY <1>1, <2>1
<1>3. At(p) \in Nat /\ At(p) + 0 = At(p)
  BY <1>2, WordOfPage
<1>4. PICK w : w = Write(m, At(p), s)
  OBVIOUS
<1>5. Within(w, m, p, 0, s)
  <2>1. Within(Write(m, At(p) + 0, s), m, p, 0, s)
    BY <1>2, PutIn
  <2> QED
    BY <1>3, <1>4, <2>1
<1>6. \A q \in Pages, y \in 0 .. (PageWords - 1) :
        w[At(q) + y] = IF q = p /\ y >= 0 /\ y < 0 + Len(s)
                       THEN s[y - 0 + 1] ELSE m[At(q) + y]
  BY <1>5 DEF Within
<1>7. w[At(p) + 0] = s[0 - 0 + 1] /\ w[At(p) + 1] = s[1 - 0 + 1]
  <2>1. 0 < 0 + Len(s) /\ 1 < 0 + Len(s)
    BY <1>2
  <2> QED
    BY <1>2, <1>6, <2>1
<1>8. w[At(p)] = v1 /\ w[At(p) + 1] = v2
  BY <1>2, <1>3, <1>7
<1>9. \A q \in Pages \ {p}, y \in 0 .. (PageWords - 1) : w[At(q) + y] = m[At(q) + y]
  BY <1>6
<1> QED
  BY <1>1, <1>4, <1>5, <1>8, <1>9 DEF PutTwo, Within

\* A word of a run of pages is in one of them.
LEMMA WordOfRun ==
  ASSUME NEW p \in Pages, NEW n \in Nat \ {0}, p .. (p + n - 1) \subseteq Pages,
         NEW i \in Nat, i < n * PageWords
  PROVE  \E q \in p .. (p + n - 1), x \in 0 .. (PageWords - 1) :
           At(p) + i = At(q) + x
<1>1. PICK d \in Nat \ {0} : d = PageWords
  BY Sizes
<1>2. p \in Nat
  BY Sizes
<1>3. PICK k \in Nat, x \in 0 .. (d - 1) : i = k * d + x
  BY Divided
<1>4. k < n
  <2> SUFFICES ASSUME n <= k PROVE FALSE
    OBVIOUS
  <2>1. n * d <= k * d /\ k * d \in Nat
    BY ProductGrows
  <2> QED
    BY <1>1, <1>3, <2>1
<1>5. p + k \in p .. (p + n - 1)
  BY <1>2, <1>4
<1>6. p * d + i = (p + k) * d + x
  <2>1. (p + k) * d = p * d + k * d /\ p * d \in Nat /\ k * d \in Nat
    BY <1>2
  <2> QED
    BY <1>3, <2>1
<1> QED
  BY <1>1, <1>3, <1>5, <1>6 DEF At

\* A write to a run of pages changes no other page.
Across(w, m, p, n, s) ==
  /\ w \in [Address -> Int]
  /\ \A q \in Pages, y \in 0 .. (PageWords - 1) :
       q \notin p .. (p + n - 1) => w[At(q) + y] = m[At(q) + y]
  /\ \A i \in 1 .. Len(s) : w[At(p) + i - 1] = s[i]

\* Those of the sequence, as long as it fits the run.
LEMMA PutAcross ==
  ASSUME NEW m \in [Address -> Int], NEW p \in Pages, NEW n \in Nat \ {0},
         p .. (p + n - 1) \subseteq Pages,
         NEW s \in Seq(Int), Len(s) <= n * PageWords
  PROVE  Across(Write(m, At(p), s), m, p, n, s)
<1> DEFINE w == Write(m, At(p), s)
<1>1. w = [a \in Address |-> IF a - At(p) + 1 \in DOMAIN s
                             THEN s[a - At(p) + 1] ELSE m[a]]
  BY DEF Write
<1>2. PICK l \in Nat : l = Len(s) /\ DOMAIN s = 1 .. l /\ \A i \in 1 .. l : s[i] \in Int
  OBVIOUS
<1>3. w \in [Address -> Int]
  <2> SUFFICES ASSUME NEW a \in Address
               PROVE  (IF a - At(p) + 1 \in DOMAIN s
                       THEN s[a - At(p) + 1] ELSE m[a]) \in Int
    BY <1>1
  <2> QED
    BY <1>2
<1>9. \A a \in Address : w[a] = IF a - At(p) + 1 \in 1 .. l
                               THEN s[a - At(p) + 1] ELSE m[a]
  BY <1>1, <1>2
<1>4. PICK c \in Nat : c = n * PageWords
  <2>1. PageWords \in Nat
    BY Sizes
  <2> QED
    BY <2>1
<1>5. At(p) \in Nat /\ PageWords \in Nat \ {0} /\ 0 \in 0 .. (PageWords - 1)
  <2>1. PageWords \in Nat \ {0}
    BY Sizes
  <2>2. 0 \in 0 .. (PageWords - 1)
    BY <2>1
  <2> QED
    BY <2>1, <2>2, WordOfPage
<1>6. ASSUME NEW i \in 0 .. (l - 1)
      PROVE  \E q \in p .. (p + n - 1), x \in 0 .. (PageWords - 1) : At(p) + i = At(q) + x
  <2>1. i \in Nat /\ i < n * PageWords
    BY <1>2, <1>4
  <2> QED
    BY <2>1, WordOfRun
<1>7. ASSUME NEW q \in Pages, NEW y \in 0 .. (PageWords - 1), q \notin p .. (p + n - 1)
      PROVE  w[At(q) + y] = m[At(q) + y]
  <2>1. At(q) + y \in Address /\ PageOf(At(q) + y) = q /\ At(q) \in Nat
    BY WordOfPage
  <2>2. PICK a \in Nat, b \in Nat : a = At(q) + y /\ b = At(p)
    BY <1>5, <2>1, Sizes
  <2>3. a - b + 1 \notin 1 .. l
    <3> SUFFICES ASSUME a - b + 1 \in 1 .. l PROVE FALSE
      OBVIOUS
    <3>1. PICK i \in 0 .. (l - 1) : a = b + i
      <4>1. a - b \in 0 .. (l - 1) /\ a = b + (a - b)
        OBVIOUS
      <4> QED
        BY <4>1
    <3>2. PICK r \in p .. (p + n - 1), x \in 0 .. (PageWords - 1) : At(p) + i = At(r) + x
      BY <1>6
    <3>3. PageOf(At(r) + x) = r
      BY <3>2, WordOfPage
    <3> QED
      BY <1>7, <2>1, <2>2, <3>1, <3>2, <3>3
  <2>4. a \in Address /\ a - At(p) + 1 \notin 1 .. l
    BY <2>1, <2>2, <2>3
  <2>5. w[a] = m[a]
    <3> HIDE DEF w
    <3> QED
      BY <1>9, <2>4
  <2> QED
    BY <2>2, <2>5
<1>8. ASSUME NEW i \in 1 .. Len(s)
      PROVE  w[At(p) + i - 1] = s[i]
  <2>1. i - 1 \in 0 .. (l - 1)
    BY <1>2
  <2>2. PICK r \in p .. (p + n - 1), x \in 0 .. (PageWords - 1) : At(p) + (i - 1) = At(r) + x
    BY <1>6, <2>1
  <2>3. At(r) + x \in Address
    BY <2>2, WordOfPage
  <2>4. At(p) + i - 1 \in Address /\ (At(p) + i - 1) - At(p) + 1 = i
    BY <1>5, <2>2, <2>3
  <2> QED
    BY <1>1, <2>4
<1> QED
  BY <1>3, <1>7, <1>8 DEF Across
-----------------------------------------------------------------------------
(* The invariant *)

\* The vector is in the pages V and holds the stack.
VectorAt(m, v, stk, V, q) ==
  /\ q \in Pages /\ v.store = At(q)
  /\ V = q .. (q + PagesFor(v.capacity) - 1) /\ V \subseteq Pages
  /\ 2 <= v.capacity /\ v.length <= v.capacity
  /\ \A i \in 1 .. Len(stk) : m[v.store + i - 1] = stk[i]

VectorIn(m, v, stk, V) ==
  /\ v \in [length : Nat, capacity : Nat, store : Nat]
  /\ stk \in Seq(Int) /\ v.length = Len(stk)
  /\ IF v.store = NULL THEN V = {} /\ stk = << >>
     ELSE \E q : VectorAt(m, v, stk, V, q)

\* The table tp and, for each key, the page lp of its list and the page np of
\* its node are different pages, none of them among the pages O of others.
Apart(O, mp, tp, lp, np) ==
  /\ tp \in Pages \ O
  /\ lp \in [DOMAIN mp -> Pages \ O] /\ np \in [DOMAIN mp -> Pages \ O]
  /\ \A k \in DOMAIN mp : lp[k] # tp /\ np[k] # tp
  /\ \A k, j \in DOMAIN mp :
       lp[k] # np[j] /\ (k # j => lp[k] # lp[j] /\ np[k] # np[j])

Hashes == 0 .. (Capacity - 1)

\* The keys of a bucket, in the order of its lists.
Kept(sl, mp, ks) ==
  /\ DOMAIN mp \in SUBSET Keys /\ mp \in [DOMAIN mp -> Int]
  /\ ks \in [Hashes -> Seq(Keys)]
  /\ \A h \in Hashes : \A i \in 1 .. Len(ks[h]) :
       /\ ks[h][i] \in DOMAIN mp /\ Hash(ks[h][i]) = h
       /\ \A j \in 1 .. Len(ks[h]) : ks[h][i] = ks[h][j] => i = j
  /\ \A k \in DOMAIN mp :
       Hash(k) \notin sl /\ \E i \in 1 .. Len(ks[Hash(k)]) : ks[Hash(k)][i] = k

\* A list points to its node, and a node has the key and its value.
Filled(m, mp, lp, np) ==
  \A k \in DOMAIN mp :
    m[At(lp[k])] = At(np[k]) /\ m[At(np[k])] = k /\ m[At(np[k]) + 1] = mp[k]

\* The list behind the first n lists of the keys s.
Behind(lp, s, n) == IF n < Len(s) THEN At(lp[s[n + 1]]) ELSE NULL

Linked(m, sl, tp, lp, ks) ==
  \A h \in Hashes \ sl :
    /\ m[At(tp) + h] = Behind(lp, ks[h], 0)
    /\ \A i \in 1 .. Len(ks[h]) : m[At(lp[ks[h][i]]) + 1] = Behind(lp, ks[h], i)

TableAt(m, O, st, sl, mp, tp, lp, np, ks) ==
  /\ st = At(tp) /\ Apart(O, mp, tp, lp, np) /\ Kept(sl, mp, ks)
  /\ Filled(m, mp, lp, np) /\ Linked(m, sl, tp, lp, ks)

TableIn(m, O, st, sl, mp) ==
  IF st = NULL THEN mp = [k \in {} |-> 0]
  ELSE \E tp, lp, np, ks : TableAt(m, O, st, sl, mp, tp, lp, np, ks)

\* What holds until a wild pointer is followed.
Sound(m, fr, v, st, sl, stk, mp) ==
  /\ m \in [Address -> Int] /\ fr \in SUBSET Pages
  /\ \E V : /\ VectorIn(m, v, stk, V) /\ fr \intersect V = {}
            /\ TableIn(m, fr \union V, st, sl, mp)

Inv == Running => Sound(mem, free, vec, store, stale, stack, map)

-----------------------------------------------------------------------------
(* The table *)

\* What is written to pages of others leaves the table as it is.
LEMMA TableKept ==
  ASSUME NEW m \in [Address -> Int], NEW m2 \in [Address -> Int],
         NEW O, NEW O2 \in SUBSET O, NEW st, NEW sl, NEW mp,
         \A p \in Pages \ O, x \in 0 .. (PageWords - 1) : m2[At(p) + x] = m[At(p) + x],
         TableIn(m, O, st, sl, mp)
  PROVE  TableIn(m2, O2, st, sl, mp)
<1>1. CASE st = NULL
  BY <1>1 DEF TableIn
<1>2. CASE st # NULL
  <2>1. PICK tp, lp, np, ks : TableAt(m, O, st, sl, mp, tp, lp, np, ks)
    BY <1>2 DEF TableIn
  <2>2. Apart(O2, mp, tp, lp, np)
    <3>1. Apart(O, mp, tp, lp, np)
      BY <2>1 DEF TableAt
    <3>2. Pages \ O \subseteq Pages \ O2
      OBVIOUS
    <3>3. tp \in Pages \ O2
      BY <3>1, <3>2 DEF Apart
    <3>4. lp \in [DOMAIN mp -> Pages \ O2] /\ np \in [DOMAIN mp -> Pages \ O2]
      BY <3>1, <3>2 DEF Apart
    <3> QED
      BY <3>1, <3>3, <3>4 DEF Apart
  <2>3. 0 \in 0 .. (PageWords - 1) /\ 1 \in 0 .. (PageWords - 1)
    BY Sizes
  <2>4. \A p \in Pages \ O : m2[At(p)] = m[At(p)] /\ m2[At(p) + 1] = m[At(p) + 1]
    <3> SUFFICES ASSUME NEW p \in Pages \ O
                 PROVE  m2[At(p)] = m[At(p)] /\ m2[At(p) + 1] = m[At(p) + 1]
      OBVIOUS
    <3>1. m2[At(p) + 0] = m[At(p) + 0] /\ m2[At(p) + 1] = m[At(p) + 1]
      BY <2>3
    <3>2. At(p) + 0 = At(p)
      BY <2>3, WordOfPage
    <3> QED
      BY <3>1, <3>2
  <2>5. /\ tp \in Pages \ O
        /\ \A k \in DOMAIN mp : lp[k] \in Pages \ O /\ np[k] \in Pages \ O
    BY <2>1 DEF TableAt, Apart
  <2>6. Filled(m2, mp, lp, np)
    BY <2>1, <2>4, <2>5 DEF TableAt, Filled
  <2>7. Linked(m2, sl, tp, lp, ks)
    <3> SUFFICES ASSUME NEW h \in Hashes \ sl
                 PROVE  /\ m2[At(tp) + h] = Behind(lp, ks[h], 0)
                        /\ \A i \in 1 .. Len(ks[h]) :
                             m2[At(lp[ks[h][i]]) + 1] = Behind(lp, ks[h], i)
      BY DEF Linked
    <3>1. h \in 0 .. (PageWords - 1)
      BY Sizes DEF Hashes
    <3>2. /\ m[At(tp) + h] = Behind(lp, ks[h], 0)
          /\ \A i \in 1 .. Len(ks[h]) : m[At(lp[ks[h][i]]) + 1] = Behind(lp, ks[h], i)
      BY <2>1 DEF TableAt, Linked
    <3>3. m2[At(tp) + h] = m[At(tp) + h]
      BY <2>5, <3>1
    <3>4. ASSUME NEW i \in 1 .. Len(ks[h])
          PROVE  m2[At(lp[ks[h][i]]) + 1] = m[At(lp[ks[h][i]]) + 1]
      <4>1. ks[h][i] \in DOMAIN mp
        BY <2>1 DEF TableAt, Kept
      <4> QED
        BY <2>4, <2>5, <4>1
    <3> QED
      BY <3>2, <3>3, <3>4
  <2>8. TableAt(m2, O2, st, sl, mp, tp, lp, np, ks)
    BY <2>1, <2>2, <2>6, <2>7 DEF TableAt
  <2> QED
    BY <1>2, <2>8 DEF TableIn
<1> QED
  BY <1>1, <1>2

\* The minimum is the element below all others.
LEMMA MinIs ==
  ASSUME NEW S \in SUBSET Nat, NEW n \in S, \A y \in S : n <= y
  PROVE  Min(S) = n
<1>1. \A x \in S : (\A y \in S : x <= y) => x = n
  OBVIOUS
<1> QED
  BY <1>1 DEF Min

\* A bucket has no more keys than there are pages: each has a list on its own.
LEMMA FewKeys ==
  ASSUME NEW O, NEW sl, NEW mp, NEW tp, NEW lp, NEW np, NEW ks,
         Apart(O, mp, tp, lp, np), Kept(sl, mp, ks), NEW h \in Hashes
  PROVE  Len(ks[h]) \in Nat /\ Len(ks[h]) <= NPages
<1>1. PICK s : s = ks[h] /\ s \in Seq(Keys)
  BY DEF Kept
<1>2. PICK l \in Nat : l = Len(s)
  BY <1>1
<1>3. \A i, j \in 1 .. l : s[i] \in DOMAIN mp /\ (s[i] = s[j] => i = j)
  BY <1>1, <1>2 DEF Kept
<1>4. PICK n \in Nat : n = NPages /\ Pages = 1 .. n
  BY Sizes DEF Pages
<1>5. \A i, j \in 1 .. l : lp[s[i]] \in 1 .. n /\ (lp[s[i]] = lp[s[j]] => i = j)
  BY <1>3, <1>4 DEF Apart
<1>6. ASSUME n < l PROVE FALSE
  <2>1. 1 \in Int /\ n \in Int /\ l \in Int
    OBVIOUS
  <2>2. /\ IsFiniteSet(1 .. n) /\ Cardinality(1 .. n) = IF 1 > n THEN 0 ELSE n - 1 + 1
        /\ IsFiniteSet(1 .. l) /\ Cardinality(1 .. l) = IF 1 > l THEN 0 ELSE l - 1 + 1
    BY <2>1, FS_Interval
  <2>3. Cardinality(1 .. n) = n /\ Cardinality(1 .. l) = l
    BY <2>1, <2>2
  <2>4. PICK f \in [1 .. l -> 1 .. n] : \A i \in 1 .. l : f[i] = lp[s[i]]
    <3>1. [i \in 1 .. l |-> lp[s[i]]] \in [1 .. l -> 1 .. n]
      BY <1>5
    <3> QED
      BY <3>1
  <2>5. \E x, y \in 1 .. l : x # y /\ f[x] = f[y]
    BY <2>2, <2>3, <1>6, FS_PigeonHole
  <2> QED
    BY <1>5, <2>4, <2>5
<1> QED
  BY <1>1, <1>2, <1>4, <1>6

\* The walk along a bucket that was NULL at first meets the lists of its keys.
LEMMA BucketIs ==
  ASSUME mem \in [Address -> Int], NEW O, NEW tp, NEW lp, NEW np, NEW ks,
         TableAt(mem, O, store, stale, map, tp, lp, np, ks),
         NEW h \in Hashes \ stale
  PROVE  Bucket(h) = [i \in 1 .. Len(ks[h]) |-> At(lp[ks[h][i]])]
<1>1. PICK s : s = ks[h] /\ s \in Seq(Keys)
  BY DEF TableAt, Kept
<1>2. PICK l \in Nat, N \in Nat : l = Len(s) /\ N = NPages /\ l <= N
  BY <1>1, FewKeys, Sizes DEF TableAt
<1> DEFINE Step(p, n) == IF n = 0 THEN mem[store + h]
                         ELSE IF p[n - 1] = NULL THEN NULL ELSE mem[p[n - 1] + 1]
           at == CHOOSE p : p = [n \in 0 .. N |-> Step(p, n)]
<1>3. Bucket(h) = [n \in 1 .. Min({n \in DOMAIN at : at[n] = NULL}) |-> at[n - 1]]
  BY <1>2 DEF Bucket
<1>4. PICK g : g = [n \in 0 .. N |-> Behind(lp, s, n)]
  OBVIOUS
<1>5. \A i \in 1 .. l : s[i] \in DOMAIN map /\ lp[s[i]] \in Pages
  BY <1>1, <1>2 DEF TableAt, Kept, Apart
<1>6. /\ mem[store + h] = Behind(lp, s, 0)
      /\ \A i \in 1 .. l : mem[At(lp[s[i]]) + 1] = Behind(lp, s, i)
  BY <1>1, <1>2 DEF TableAt, Linked
<1>7. \A n \in 0 .. N : (n < l => g[n] = At(lp[s[n + 1]]) /\ g[n] # NULL) /\ (l <= n => g[n] = NULL)
  <2> SUFFICES ASSUME NEW n \in 0 .. N
               PROVE  (n < l => g[n] = At(lp[s[n + 1]]) /\ g[n] # NULL) /\ (l <= n => g[n] = NULL)
    OBVIOUS
  <2>1. g[n] = IF n < l THEN At(lp[s[n + 1]]) ELSE NULL
    BY <1>2, <1>4 DEF Behind
  <2>2. ASSUME n < l PROVE At(lp[s[n + 1]]) # NULL
    <3>1. n + 1 \in 1 .. l
      BY <2>2
    <3>2. lp[s[n + 1]] \in Pages /\ 0 \in 0 .. (PageWords - 1)
      BY <3>1, <1>5, Sizes
    <3> QED
      BY <3>2, WordOfPage
  <2> QED
    BY <2>1, <2>2
<1>8. \A n \in 0 .. N : g[n] = Step(g, n)
  <2> SUFFICES ASSUME NEW n \in 0 .. N PROVE g[n] = Step(g, n)
    OBVIOUS
  <2>0. g[n] = Behind(lp, s, n)
    BY <1>4
  <2>1. CASE n = 0
    BY <1>6, <2>0, <2>1
  <2>2. CASE n # 0 /\ n <= l
    <3>1. n \in 1 .. l /\ n - 1 \in 0 .. N /\ n - 1 < l /\ (n - 1) + 1 = n
      BY <1>2, <2>2
    <3>2. g[n - 1] = At(lp[s[n]]) /\ g[n - 1] # NULL
      BY <1>7, <3>1
    <3> QED
      BY <1>6, <2>0, <2>2, <3>1, <3>2
  <2>3. CASE l < n
    <3>1. n - 1 \in 0 .. N /\ l <= n - 1 /\ n # 0 /\ l <= n
      BY <1>2, <2>3
    <3>2. g[n - 1] = NULL /\ g[n] = NULL
      BY <1>7, <3>1
    <3> QED
      BY <3>1, <3>2
  <2> QED
    BY <1>2, <2>1, <2>2, <2>3
<1>9. g = [n \in 0 .. N |-> Step(g, n)]
  BY <1>4, <1>8
<1>10. PICK a : a = at
  OBVIOUS
<1>11. a = [n \in 0 .. N |-> Step(a, n)]
  BY <1>9, <1>10
<1>12. \A n \in 0 .. N : a[n] = Step(a, n)
  BY <1>11
<1>13. \A n \in 0 .. N : a[n] = g[n]
  <2> DEFINE T == {n \in 0 .. N : a[n] # g[n]}
  <2>1. SUFFICES ASSUME T # {} PROVE FALSE
    OBVIOUS
  <2>2. T \in SUBSET Nat
    OBVIOUS
  <2>3. PICK x \in T : \A y \in T : x <= y
    <3> HIDE DEF T
    <3> QED
      BY <2>1, <2>2, LeastNat
  <2>4. x \in 0 .. N /\ a[x] # g[x]
    OBVIOUS
  <2>5. a[x] = Step(a, x) /\ g[x] = Step(g, x)
    BY <1>8, <1>12, <2>4
  <2>6. x # 0
    BY <2>4, <2>5
  <2>7. x - 1 \in 0 .. N /\ x - 1 \notin T
    BY <2>3, <2>4, <2>6
  <2>8. a[x - 1] = g[x - 1]
    BY <2>7
  <2> QED
    BY <2>4, <2>5, <2>6, <2>8
<1>14. DOMAIN a = 0 .. N
  BY <1>11
<1>15. Min({n \in DOMAIN a : a[n] = NULL}) = l
  <2> DEFINE E == {n \in DOMAIN a : a[n] = NULL}
  <2>1. E \in SUBSET Nat
    BY <1>14
  <2>2. l \in E
    BY <1>2, <1>7, <1>13, <1>14
  <2>3. \A y \in E : l <= y
    <3> SUFFICES ASSUME NEW y \in 0 .. N, a[y] = NULL PROVE l <= y
      BY <1>14
    <3>1. ~ (y < l)
      BY <1>7, <1>13
    <3> QED
      BY <3>1
  <2> HIDE DEF E
  <2>4. Min(E) = l
    BY <2>1, <2>2, <2>3, MinIs
  <2> QED
    BY <2>4 DEF E
<1>16. \A i \in 1 .. l : a[i - 1] = At(lp[s[i]])
  <2> SUFFICES ASSUME NEW i \in 1 .. l PROVE a[i - 1] = At(lp[s[i]])
    OBVIOUS
  <2>1. i - 1 \in 0 .. N /\ i - 1 < l /\ (i - 1) + 1 = i
    BY <1>2
  <2> QED
    BY <1>7, <1>13, <2>1
<1>17. Bucket(h) = [n \in 1 .. l |-> a[n - 1]]
  <2> HIDE DEF at
  <2> QED
    BY <1>3, <1>10, <1>15
<1> QED
  BY <1>1, <1>2, <1>16, <1>17

\* A hash is a place in the table.
LEMMA HashIs ==
  ASSUME NEW key \in Keys
  PROVE  key \in Nat /\ Hash(key) \in Hashes
<1>1. key \in Nat /\ Capacity \in Nat \ {0}
  BY Sizes, StdLibAssumption
<1>2. key % 256 \in Nat
  BY <1>1, Divided
<1>3. PICK k \in Nat, c \in Nat \ {0} : k = key % 256 /\ c = Capacity
  BY <1>1, <1>2
<1>4. k % c \in 0 .. (c - 1)
  BY Divided
<1> QED
  BY <1>1, <1>3, <1>4 DEF Hash, Hashes

\* The walk of Insert and of Get stops at the list of the key, if there is one.
LEMMA HoldingIs ==
  ASSUME mem \in [Address -> Int], NEW O, NEW tp, NEW lp, NEW np, NEW ks,
         TableAt(mem, O, store, stale, map, tp, lp, np, ks),
         NEW key \in Keys, Hash(key) \notin stale
  PROVE  /\ key \notin DOMAIN map <=> Holding(key) = {}
         /\ key \in DOMAIN map => Bucket(Hash(key))[Min(Holding(key))] = At(lp[key])
<1>1. PICK h \in Hashes : h = Hash(key) /\ h \notin stale
  BY HashIs
<1>2. PICK s : s = ks[h] /\ s \in Seq(Keys)
  BY DEF TableAt, Kept
<1>3. PICK l \in Nat : l = Len(s)
  BY <1>2
<1>4. PICK b : b = Bucket(h)
  OBVIOUS
<1>5. b = [i \in 1 .. l |-> At(lp[s[i]])]
  BY <1>1, <1>2, <1>3, <1>4, BucketIs
<1>6. Holding(key) = {n \in 1 .. l : KeyOf(b[n]) = key}
  BY <1>1, <1>4, <1>5 DEF Holding
<1>7. \A i \in 1 .. l : s[i] \in DOMAIN map /\ \A j \in 1 .. l : s[i] = s[j] => i = j
  BY <1>2, <1>3 DEF TableAt, Kept
<1>8. \A i \in 1 .. l : KeyOf(b[i]) = s[i]
  BY <1>5, <1>7 DEF TableAt, Filled, KeyOf
<1>9. Holding(key) = {n \in 1 .. l : s[n] = key}
  BY <1>6, <1>8
<1>10. key \notin DOMAIN map => Holding(key) = {}
  BY <1>7, <1>9
<1>11. ASSUME key \in DOMAIN map
       PROVE  Holding(key) # {} /\ b[Min(Holding(key))] = At(lp[key])
  <2>1. PICK i \in 1 .. l : s[i] = key
    BY <1>1, <1>2, <1>3, <1>11 DEF TableAt, Kept
  <2>2. Holding(key) = {i}
    BY <1>7, <1>9, <2>1
  <2>3. Min({i}) = i
    <3>1. {i} \in SUBSET Nat /\ i \in {i} /\ \A y \in {i} : i <= y
      OBVIOUS
    <3> QED
      BY <3>1, MinIs
  <2> QED
    BY <1>5, <2>1, <2>2, <2>3
<1> QED
  BY <1>1, <1>4, <1>10, <1>11

\* The table finds what the map has.
LEMMA LookupIs ==
  ASSUME mem \in [Address -> Int], NEW O, store # NULL, TableIn(mem, O, store, stale, map),
         NEW key \in Keys, Hash(key) \notin stale
  PROVE  Lookup(key) = IF key \in DOMAIN map THEN map[key] ELSE 0
<1>1. PICK tp, lp, np, ks : TableAt(mem, O, store, stale, map, tp, lp, np, ks)
  BY DEF TableIn
<1>2. /\ key \notin DOMAIN map <=> Holding(key) = {}
      /\ key \in DOMAIN map => Bucket(Hash(key))[Min(Holding(key))] = At(lp[key])
  BY <1>1, HoldingIs
<1>3. key \in DOMAIN map => mem[At(lp[key])] = At(np[key]) /\ mem[At(np[key]) + 1] = map[key]
  BY <1>1 DEF TableAt, Filled
<1> QED
  BY <1>2, <1>3 DEF Lookup

-----------------------------------------------------------------------------
(* What the invariant says *)

\* The pages of the vector hold the stack.
LEMMA SoundVector == Inv => VectorIsStack
<1> SUFFICES ASSUME Inv, Running, vec.store # NULL
             PROVE  Read(vec.store, vec.length) = stack
  BY DEF VectorIsStack
<1>1. PICK V : VectorIn(mem, vec, stack, V)
  BY DEF Inv, Sound
<1>2. PICK q : VectorAt(mem, vec, stack, V, q)
  BY <1>1 DEF VectorIn
<1>3. PICK l \in Nat : l = Len(stack) /\ l = vec.length /\ stack \in Seq(Int)
  BY <1>1 DEF VectorIn
<1>4. \A i \in 1 .. l : mem[vec.store + i - 1] = stack[i]
  BY <1>2, <1>3 DEF VectorAt
<1>5. Read(vec.store, vec.length) = [i \in 1 .. l |-> stack[i]]
  BY <1>3, <1>4 DEF Read
<1>6. stack = [i \in 1 .. l |-> stack[i]]
  <2>1. \A s \in Seq(Int) : s = [i \in 1 .. Len(s) |-> s[i]]
    OBVIOUS
  <2> QED
    BY <1>3, <2>1
<1> QED
  BY <1>5, <1>6

\* The walk of Get gives each key what was inserted last.
LEMMA SoundTable == Inv => TableIsMap
<1> SUFFICES ASSUME Inv, Running, store # NULL, NEW k \in Keys, Hash(k) \notin stale
             PROVE  Lookup(k) = IF k \in DOMAIN map THEN map[k] ELSE 0
  BY DEF TableIsMap
<1>1. mem \in [Address -> Int]
  BY DEF Inv, Sound
<1>2. PICK V : TableIn(mem, free \union V, store, stale, map)
  BY DEF Inv, Sound
<1> QED
  BY <1>1, <1>2, LookupIs

-----------------------------------------------------------------------------
(* The steps of the vector *)

\* The words of the vector are in its pages.
WordOf(V, a) == \E r \in V, y \in 0 .. (PageWords - 1) : a = At(r) + y

\* The run is long enough for the capacity.
LEMMA VectorWord ==
  ASSUME NEW m, NEW v \in [length : Nat, capacity : Nat, store : Nat], NEW stk, NEW V, NEW q,
         VectorAt(m, v, stk, V, q), NEW i \in Nat, i < v.capacity
  PROVE  WordOf(V, At(q) + i)
<1>1. PICK c \in Nat \ {0} : c = v.capacity
  <2>1. v.capacity \in Nat /\ 2 <= v.capacity
    BY DEF VectorAt
  <2> QED
    BY <2>1
<1>2. PICK n \in Nat \ {0} : n = PagesFor(c) /\ c <= n * PageWords
  BY PagesForIs
<1>3. PICK w \in Nat : w = n * PageWords
  BY Sizes
<1>4. i < n * PageWords
  BY <1>1, <1>2, <1>3
<1>5. q \in Pages /\ V = q .. (q + n - 1) /\ V \subseteq Pages
  BY <1>1, <1>2 DEF VectorAt
<1> QED
  BY <1>4, <1>5, WordOfRun DEF WordOf

\* What is written to pages of others leaves the vector as it is.
LEMMA VectorKept ==
  ASSUME NEW m, NEW m2, NEW v, NEW stk, NEW V, VectorIn(m, v, stk, V),
         \A r \in V, y \in 0 .. (PageWords - 1) : m2[At(r) + y] = m[At(r) + y]
  PROVE  VectorIn(m2, v, stk, V)
<1>1. CASE v.store = NULL
  BY <1>1 DEF VectorIn
<1>2. CASE v.store # NULL
  <2>1. PICK q : VectorAt(m, v, stk, V, q)
    BY <1>2 DEF VectorIn
  <2>2. PICK l \in Nat : /\ l = Len(stk) /\ l = v.length
                        /\ v \in [length : Nat, capacity : Nat, store : Nat]
    BY DEF VectorIn
  <2>3. PICK b \in Nat, c \in Nat : b = At(q) /\ b = v.store /\ c = v.capacity /\ l <= c
    BY <2>1, <2>2 DEF VectorAt
  <2>4. ASSUME NEW i \in 1 .. l PROVE m2[b + i - 1] = m[b + i - 1]
    <3>1. i - 1 \in Nat /\ i - 1 < v.capacity /\ b + i - 1 = b + (i - 1)
      BY <2>3
    <3>3. WordOf(V, At(q) + (i - 1))
      BY <2>1, <2>2, <3>1, VectorWord
    <3>2. PICK r \in V, y \in 0 .. (PageWords - 1) : At(q) + (i - 1) = At(r) + y
      BY <3>3 DEF WordOf
    <3> QED
      BY <2>3, <3>1, <3>2
  <2>5. VectorAt(m2, v, stk, V, q)
    BY <2>1, <2>2, <2>3, <2>4 DEF VectorAt
  <2> QED
    BY <1>2, <2>5 DEF VectorIn
<1> QED
  BY <1>1, <1>2

\* An empty vector gets a free page.
LEMMA NewVectorSound ==
  ASSUME NEW m, NEW fr, NEW v, NEW st, NEW sl, NEW stk, NEW mp,
         Sound(m, fr, v, st, sl, stk, mp), v.store = NULL, HasRoom(fr, PagesFor(2))
  PROVE  LET new == Allocate(fr, 2) IN
         Sound(m, new.free, [length |-> 0, capacity |-> 2, store |-> new.ptr], st, sl, stk, mp)
<1>1. m \in [Address -> Int] /\ fr \in SUBSET Pages
  BY DEF Sound
<1>2. stk = << >> /\ TableIn(m, fr, st, sl, mp)
  <2>1. PICK V : VectorIn(m, v, stk, V) /\ TableIn(m, fr \union V, st, sl, mp)
    BY DEF Sound
  <2>2. V = {} /\ stk = << >> /\ fr \union {} = fr
    BY <2>1 DEF VectorIn
  <2> QED
    BY <2>1, <2>2
<1>3. 2 \in Nat \ {0} /\ 2 <= PageWords /\ 0 \in Nat
  BY Sizes
<1>4. PagesFor(2) = 1 /\ HasRoom(fr, 0 + 1)
  <2>1. PagesFor(2) = 1
    BY <1>3, PagesForIs
  <2> QED
    BY <2>1
<1>5. PICK p \in fr : Allocate(fr, 2).ptr = At(p) /\ Allocate(fr, 2).free = fr \ {p}
  BY <1>1, <1>3, <1>4, OnePage
<1>6. p \in Nat /\ p \in Pages /\ p .. (p + 1 - 1) = {p}
  BY <1>1, Sizes
<1>7. At(p) \in Nat /\ At(p) # NULL
  <2>1. 0 \in 0 .. (PageWords - 1)
    BY Sizes
  <2> QED
    BY <1>6, <2>1, WordOfPage
<1>8. PICK w : w = [length |-> 0, capacity |-> 2, store |-> At(p)]
  OBVIOUS
<1>9. /\ w \in [length : Nat, capacity : Nat, store : Nat]
      /\ w.length = 0 /\ w.capacity = 2 /\ w.store = At(p)
  BY <1>7, <1>8
<1>10. VectorAt(m, w, stk, {p}, p)
  BY <1>2, <1>4, <1>6, <1>9 DEF VectorAt
<1>11. VectorIn(m, w, stk, {p})
  <2>1. stk \in Seq(Int) /\ Len(stk) = 0
    BY <1>2
  <2> QED
    BY <1>7, <1>9, <1>10, <2>1 DEF VectorIn
<1>12. TableIn(m, (fr \ {p}) \union {p}, st, sl, mp)
  <2>1. (fr \ {p}) \union {p} = fr
    OBVIOUS
  <2> QED
    BY <1>2, <2>1
<1>13. Sound(m, fr \ {p}, w, st, sl, stk, mp)
  BY <1>1, <1>11, <1>12 DEF Sound
<1> QED
  BY <1>5, <1>8, <1>13

\* The item is written behind the others, and into no other word of the vector.
LEMMA PushInPlaceSound ==
  ASSUME NEW m, NEW fr, NEW v, NEW st, NEW sl, NEW stk, NEW mp,
         Sound(m, fr, v, st, sl, stk, mp), v.store # NULL, v.length # v.capacity,
         NEW x \in Int
  PROVE  Sound(Write(m, v.store + v.length, <<x>>), fr, [v EXCEPT !.length = @ + 1],
               st, sl, Append(stk, x), mp)
<1>1. m \in [Address -> Int] /\ fr \in SUBSET Pages
  BY DEF Sound
<1>2. PICK V : VectorIn(m, v, stk, V) /\ fr \intersect V = {} /\ TableIn(m, fr \union V, st, sl, mp)
  BY DEF Sound
<1>3. PICK q : VectorAt(m, v, stk, V, q)
  BY <1>2 DEF VectorIn
<1>4. v \in [length : Nat, capacity : Nat, store : Nat] /\ stk \in Seq(Int)
  BY <1>2 DEF VectorIn
<1>5. PICK l \in Nat, c \in Nat, b \in Nat :
        l = v.length /\ l = Len(stk) /\ c = v.capacity /\ b = v.store /\ b = At(q) /\ l < c
  <2>1. v.length \in Nat /\ v.capacity \in Nat /\ v.store \in Nat /\ v.length <= v.capacity
    BY <1>3, <1>4 DEF VectorAt
  <2>2. v.length < v.capacity
    BY <2>1
  <2> QED
    BY <1>2, <1>3, <2>1, <2>2 DEF VectorIn, VectorAt
<1>6. V \subseteq Pages
  BY <1>3 DEF VectorAt
<1>7. ASSUME NEW i \in Nat, i < c
      PROVE  \E r \in V, y \in 0 .. (PageWords - 1) : b + i = At(r) + y
  <2>1. i < v.capacity /\ v \in [length : Nat, capacity : Nat, store : Nat]
    BY <1>4, <1>5, <1>7
  <2>2. WordOf(V, At(q) + i)
    BY <1>3, <2>1, VectorWord
  <2> QED
    BY <1>5, <2>2 DEF WordOf
<1>8. PICK r \in V, y \in 0 .. (PageWords - 1) : b + l = At(r) + y
  BY <1>5, <1>7
<1>11. PICK m2 : m2 = Write(m, At(r) + y, <<x>>)
  OBVIOUS
<1>12. PutOne(m2, m, r, y, x)
  BY <1>1, <1>6, <1>11, WriteOne
<1>13. /\ m2 \in [Address -> Int]
       /\ \A p \in Pages, z \in 0 .. (PageWords - 1) :
            m2[At(p) + z] = IF p = r /\ z = y THEN x ELSE m[At(p) + z]
  BY <1>12 DEF PutOne
<1>14. m2[b + l] = x
  BY <1>6, <1>8, <1>13
<1>15. ASSUME NEW i \in 1 .. l PROVE m2[b + i - 1] = stk[i]
  <2>1. i - 1 \in Nat /\ i - 1 < c /\ b + i - 1 = b + (i - 1) /\ b + (i - 1) # b + l
    BY <1>5
  <2>2. PICK t \in V, z \in 0 .. (PageWords - 1) : b + (i - 1) = At(t) + z
    BY <1>7, <2>1
  <2>3. ~ (t = r /\ z = y)
    BY <1>8, <2>1, <2>2
  <2>4. m2[At(t) + z] = m[At(t) + z]
    BY <1>6, <1>13, <2>3
  <2>5. m[b + i - 1] = stk[i]
    BY <1>3, <1>5 DEF VectorAt
  <2> QED
    BY <2>1, <2>2, <2>4, <2>5
<1>16. PICK v2 : v2 = [v EXCEPT !.length = @ + 1]
  OBVIOUS
<1>17. /\ v2 \in [length : Nat, capacity : Nat, store : Nat]
       /\ v2.length = l + 1 /\ v2.capacity = c /\ v2.store = b
  <2>1. PICK k \in Nat : k = l + 1
    OBVIOUS
  <2>2. v2 = [v EXCEPT !.length = k]
    BY <1>5, <1>16, <2>1
  <2>3. /\ v2 \in [length : Nat, capacity : Nat, store : Nat]
        /\ v2.length = k /\ v2.capacity = v.capacity /\ v2.store = v.store
    BY <1>4, <2>2
  <2> QED
    BY <1>5, <2>1, <2>3
<1>18. PICK stk2 : stk2 = Append(stk, x)
  OBVIOUS
<1>19. /\ stk2 \in Seq(Int) /\ Len(stk2) = l + 1 /\ stk2[l + 1] = x
       /\ \A i \in 1 .. l : stk2[i] = stk[i]
  BY <1>4, <1>5, <1>18
<1>20. \A i \in 1 .. (l + 1) : m2[b + i - 1] = stk2[i]
  <2> SUFFICES ASSUME NEW i \in 1 .. (l + 1) PROVE m2[b + i - 1] = stk2[i]
    OBVIOUS
  <2>1. CASE i = l + 1
    <3>1. b + i - 1 = b + l
      BY <2>1
    <3> QED
      BY <1>14, <1>19, <2>1, <3>1
  <2>2. CASE i # l + 1
    <3>1. i \in 1 .. l
      BY <2>2
    <3> QED
      BY <1>15, <1>19, <3>1
  <2> QED
    BY <2>1, <2>2
<1>21. VectorAt(m2, v2, stk2, V, q)
  <2>1. q \in Pages /\ V = q .. (q + PagesFor(c) - 1) /\ V \subseteq Pages /\ 2 <= c
    BY <1>3, <1>5 DEF VectorAt
  <2>2. l + 1 <= c
    BY <1>5
  <2> QED
    BY <1>5, <1>17, <1>19, <1>20, <2>1, <2>2 DEF VectorAt
<1>22. VectorIn(m2, v2, stk2, V)
  BY <1>5, <1>17, <1>19, <1>21 DEF VectorIn
<1>23. TableIn(m2, fr \union V, st, sl, mp)
  <2>1. \A p \in Pages \ (fr \union V), z \in 0 .. (PageWords - 1) : m2[At(p) + z] = m[At(p) + z]
    BY <1>13
  <2> QED
    BY <1>1, <1>2, <1>13, <2>1, TableKept
<1>24. Sound(m2, fr, v2, st, sl, stk2, mp)
  BY <1>1, <1>2, <1>13, <1>22, <1>23 DEF Sound
<1> QED
  BY <1>5, <1>8, <1>11, <1>16, <1>18, <1>24

\* The items are copied into a run of free pages, and only then is the first of
\* the old pages free.
LEMMA ExpandAndPushSound ==
  ASSUME NEW m, NEW fr, NEW v, NEW st, NEW sl, NEW stk, NEW mp,
         Sound(m, fr, v, st, sl, stk, mp), v.store # NULL, v.length = v.capacity,
         HasRoom(fr, PagesFor(2 * v.capacity)), Allocate(fr, 2 * v.capacity).whole,
         NEW x \in Int, NEW old, old = [i \in 1 .. v.length |-> m[v.store + i - 1]]
  PROVE  LET new == Allocate(fr, 2 * v.capacity) IN
         Sound(Write(m, new.ptr, Append(old, x)), Free(new.free, v.store),
               [length |-> v.length + 1, capacity |-> 2 * v.capacity, store |-> new.ptr],
               st, sl, Append(stk, x), mp)
<1>1. m \in [Address -> Int] /\ fr \in SUBSET Pages
  BY DEF Sound
<1>2. PICK V : VectorIn(m, v, stk, V) /\ fr \intersect V = {} /\ TableIn(m, fr \union V, st, sl, mp)
  BY DEF Sound
<1>3. PICK q : VectorAt(m, v, stk, V, q)
  BY <1>2 DEF VectorIn
<1>4. v \in [length : Nat, capacity : Nat, store : Nat] /\ stk \in Seq(Int)
  BY <1>2 DEF VectorIn
<1>5. PICK l \in Nat, b \in Nat :
        l = v.length /\ l = Len(stk) /\ l = v.capacity /\ b = v.store /\ b = At(q) /\ 2 <= l
  BY <1>2, <1>3, <1>4 DEF VectorIn, VectorAt
<1>6. old = stk
  <2>1. \A i \in 1 .. l : m[b + i - 1] = stk[i]
    BY <1>3, <1>5 DEF VectorAt
  <2>2. old = [i \in 1 .. l |-> stk[i]]
    BY <1>5, <2>1
  <2>3. \A s \in Seq(Int) : s = [i \in 1 .. Len(s) |-> s[i]]
    OBVIOUS
  <2> QED
    BY <1>4, <1>5, <2>2, <2>3
<1>7. PICK s : s = Append(stk, x)
  OBVIOUS
<1>8. s \in Seq(Int) /\ Len(s) = l + 1
  <2>1. \A t \in Seq(Int) : Append(t, x) \in Seq(Int) /\ Len(Append(t, x)) = Len(t) + 1
    OBVIOUS
  <2> QED
    BY <1>4, <1>5, <1>7, <2>1
<1>9. PICK w \in Nat \ {0} : w = 2 * v.capacity /\ w = 2 * l /\ l + 1 <= w /\ 2 <= w
  <2>1. 2 * l \in Nat \ {0} /\ l + 1 <= 2 * l /\ 2 <= 2 * l
    BY <1>5
  <2> QED
    BY <1>5, <2>1
<1>10. PICK n \in Nat \ {0} : n = PagesFor(w) /\ w <= n * PageWords
  BY PagesForIs
<1>11. PagesFor(w) <= Cardinality(fr)
  <2>1. Cardinality(fr) \in Nat /\ Cardinality(fr) > n
    BY <1>1, <1>9, <1>10, PageSets DEF HasRoom
  <2> QED
    BY <1>10, <2>1
<1>12. PICK T, p : Given(Allocate(fr, w), fr, w, T, p)
  BY <1>1, <1>11, AllocateIs
<1>13. /\ T \in SUBSET fr /\ p \in Pages /\ T = p .. (p + n - 1)
       /\ Allocate(fr, w).ptr = At(p) /\ Allocate(fr, w).free = fr \ T
  BY <1>1, <1>9, <1>10, <1>12 DEF Given
<1>14. PICK m2 : m2 = Write(m, At(p), s)
  OBVIOUS
<1>15. /\ m2 \in [Address -> Int]
       /\ \A r \in Pages, y \in 0 .. (PageWords - 1) : r \notin T => m2[At(r) + y] = m[At(r) + y]
       /\ \A i \in 1 .. Len(s) : m2[At(p) + i - 1] = s[i]
  <2>1. Len(s) <= n * PageWords
    <3>1. PICK u \in Nat : u = n * PageWords
      BY Sizes
    <3> QED
      BY <1>8, <1>9, <1>10, <3>1
  <2>2. p .. (p + n - 1) \subseteq Pages
    BY <1>1, <1>13
  <2>3. p \in Pages /\ s \in Seq(Int) /\ m \in [Address -> Int]
    BY <1>1, <1>8, <1>13
  <2>4. Across(Write(m, At(p), s), m, p, n, s)
    BY <2>1, <2>2, <2>3, PutAcross
  <2>5. Across(m2, m, p, n, s)
    BY <1>14, <2>4
  <2> QED
    BY <1>13, <2>5 DEF Across
<1>16. At(p) \in Nat /\ At(p) # NULL /\ PageOf(b) = q /\ q \in Pages
  <2>1. 0 \in 0 .. (PageWords - 1)
    BY Sizes
  <2>2. q \in Pages
    BY <1>3 DEF VectorAt
  <2>3. PageOf(At(q) + 0) = q /\ At(q) + 0 = At(q)
    BY <2>1, <2>2, WordOfPage
  <2> QED
    BY <1>5, <1>13, <2>1, <2>2, <2>3, WordOfPage
<1>17. PICK v2 : v2 = [length |-> l + 1, capacity |-> w, store |-> At(p)]
  OBVIOUS
<1>18. /\ v2 \in [length : Nat, capacity : Nat, store : Nat]
       /\ v2.length = l + 1 /\ v2.capacity = w /\ v2.store = At(p)
  BY <1>16, <1>17
<1>19. VectorAt(m2, v2, s, T, p)
  <2>1. T \subseteq Pages
    BY <1>1, <1>13
  <2> QED
    BY <1>9, <1>10, <1>13, <1>15, <1>18, <2>1 DEF VectorAt
<1>20. VectorIn(m2, v2, s, T)
  BY <1>8, <1>16, <1>18, <1>19 DEF VectorIn
<1>21. PICK fr2 : fr2 = (fr \ T) \union {q}
  OBVIOUS
<1>22. Free(fr \ T, b) = fr2
  BY <1>16, <1>21 DEF Free, PageOf
<1>23. fr2 \in SUBSET Pages /\ fr2 \intersect T = {} /\ fr2 \union T \in SUBSET (fr \union V)
  <2>1. q \in V
    <3>1. V = q .. (q + PagesFor(l) - 1)
      BY <1>3, <1>5 DEF VectorAt
    <3>2. l \in Nat \ {0}
      BY <1>5
    <3>3. PICK k \in Nat \ {0} : k = PagesFor(l)
      BY <3>2, PagesForIs
    <3>4. q \in Nat
      BY <1>16, Sizes
    <3>5. q \in q .. (q + k - 1)
      BY <3>4
    <3> QED
      BY <3>1, <3>3, <3>5
  <2> QED
    BY <1>1, <1>2, <1>13, <1>16, <1>21, <2>1
<1>24. TableIn(m2, fr2 \union T, st, sl, mp)
  <2>1. \A r \in Pages \ (fr \union V), y \in 0 .. (PageWords - 1) : m2[At(r) + y] = m[At(r) + y]
    BY <1>13, <1>15
  <2> QED
    BY <1>1, <1>2, <1>15, <1>23, <2>1, TableKept
<1>25. Sound(m2, fr2, v2, st, sl, s, mp)
  BY <1>15, <1>20, <1>23, <1>24 DEF Sound
<1> QED
  BY <1>5, <1>6, <1>7, <1>9, <1>13, <1>14, <1>17, <1>22, <1>25

\* What is left is where it was.
LEMMA PopSound ==
  ASSUME NEW m, NEW fr, NEW v, NEW st, NEW sl, NEW stk, NEW mp,
         Sound(m, fr, v, st, sl, stk, mp), v.store # NULL, v.length # 0
  PROVE  Sound(m, fr, [v EXCEPT !.length = @ - 1], st, sl,
               SubSeq(stk, 1, Len(stk) - 1), mp)
<1>1. PICK V : VectorIn(m, v, stk, V) /\ fr \intersect V = {} /\ TableIn(m, fr \union V, st, sl, mp)
  BY DEF Sound
<1>2. PICK q : VectorAt(m, v, stk, V, q)
  BY <1>1 DEF VectorIn
<1>3. v \in [length : Nat, capacity : Nat, store : Nat] /\ stk \in Seq(Int)
  BY <1>1 DEF VectorIn
<1>4. PICK l \in Nat, c \in Nat, b \in Nat :
        l = v.length /\ l = Len(stk) /\ c = v.capacity /\ b = v.store /\ l # 0 /\ l <= c
  BY <1>1, <1>2, <1>3 DEF VectorIn, VectorAt
<1>5. PICK v2 : v2 = [v EXCEPT !.length = @ - 1]
  OBVIOUS
<1>6. /\ v2 \in [length : Nat, capacity : Nat, store : Nat]
      /\ v2.length = l - 1 /\ v2.capacity = c /\ v2.store = b
  <2>1. PICK k \in Nat : k = l - 1
    BY <1>4
  <2>2. v2 = [v EXCEPT !.length = k]
    BY <1>4, <1>5, <2>1
  <2>3. /\ v2 \in [length : Nat, capacity : Nat, store : Nat]
        /\ v2.length = k /\ v2.capacity = v.capacity /\ v2.store = v.store
    BY <1>3, <2>2
  <2> QED
    BY <1>4, <2>1, <2>3
<1>7. PICK s : s = SubSeq(stk, 1, Len(stk) - 1)
  OBVIOUS
<1>8. s \in Seq(Int) /\ Len(s) = l - 1 /\ \A i \in 1 .. (l - 1) : s[i] = stk[i]
  BY <1>3, <1>4, <1>7
<1>9. \A i \in 1 .. Len(s) : m[b + i - 1] = s[i]
  <2>1. \A i \in 1 .. (l - 1) : i \in 1 .. l
    BY <1>4
  <2>2. \A i \in 1 .. l : m[b + i - 1] = stk[i]
    BY <1>2, <1>4 DEF VectorAt
  <2> QED
    BY <1>8, <2>1, <2>2
<1>10. VectorAt(m, v2, s, V, q)
  <2>1. /\ q \in Pages /\ b = At(q) /\ V = q .. (q + PagesFor(c) - 1)
        /\ V \subseteq Pages /\ 2 <= c
    BY <1>2, <1>4 DEF VectorAt
  <2>2. l - 1 <= c
    BY <1>4
  <2> QED
    BY <1>6, <1>9, <2>1, <2>2 DEF VectorAt
<1>11. VectorIn(m, v2, s, V)
  BY <1>4, <1>6, <1>8, <1>10 DEF VectorIn
<1>12. Sound(m, fr, v2, st, sl, s, mp)
  BY <1>1, <1>11 DEF Sound
<1> QED
  BY <1>5, <1>7, <1>12

-----------------------------------------------------------------------------
(* The steps of the table *)

\* The buckets of a new table that are NULL are empty, and the others are stale.
LEMMA NewTableSound ==
  ASSUME NEW m, NEW fr, NEW v, NEW st, NEW sl, NEW stk, NEW mp,
         Sound(m, fr, v, st, sl, stk, mp), st = NULL, HasRoom(fr, 2)
  PROVE  LET new == Allocate(Allocate(fr, 2).free, Capacity) IN
         Sound(m, new.free, v, new.ptr, {h \in 0 .. Capacity - 1 : m[new.ptr + h] # NULL},
               stk, mp)
<1>1. m \in [Address -> Int] /\ fr \in SUBSET Pages
  BY DEF Sound
<1>2. PICK V : VectorIn(m, v, stk, V) /\ fr \intersect V = {} /\ TableIn(m, fr \union V, st, sl, mp)
  BY DEF Sound
<1>3. mp = [k \in {} |-> 0]
  BY <1>2 DEF TableIn
<1>4. /\ 2 \in Nat \ {0} /\ 2 <= PageWords /\ Capacity \in Nat \ {0} /\ Capacity <= PageWords
      /\ 0 \in Nat /\ 1 \in Nat /\ 0 \in 0 .. (PageWords - 1) /\ HasRoom(fr, 1 + 1)
  BY Sizes
<1>5. PICK c \in fr : Allocate(fr, 2).free = fr \ {c} /\ HasRoom(fr \ {c}, 1)
  BY <1>1, <1>4, OnePage
<1>6. PICK f : f = fr \ {c} /\ f \in SUBSET Pages /\ HasRoom(f, 0 + 1)
  BY <1>1, <1>5
<1>7. PICK t \in f : Allocate(f, Capacity).ptr = At(t) /\ Allocate(f, Capacity).free = f \ {t}
  BY <1>4, <1>6, OnePage
<1>8. t \in Pages /\ At(t) # NULL /\ t \in fr /\ t \notin (f \ {t}) \union V
  BY <1>2, <1>4, <1>6, <1>7, WordOfPage
<1>9. PICK sl2 : sl2 = {h \in 0 .. Capacity - 1 : m[At(t) + h] # NULL}
  OBVIOUS
<1>10. PICK e, ks : e = [k \in {} |-> 0] /\ ks = [h \in Hashes |-> << >>]
  OBVIOUS
<1>11. mp = e /\ DOMAIN mp = {} /\ DOMAIN e = {}
  BY <1>3, <1>10
<1>12. \A h \in Hashes : ks[h] = << >> /\ Len(ks[h]) = 0 /\ 1 .. Len(ks[h]) = {}
  BY <1>10
<1>13. Apart((f \ {t}) \union V, mp, t, e, e)
  BY <1>8, <1>11, <1>10 DEF Apart
<1>14. Kept(sl2, mp, ks)
  <2>1. ks \in [Hashes -> Seq(Keys)]
    BY <1>10
  <2>2. mp \in [DOMAIN mp -> Int]
    BY <1>10, <1>11
  <2> QED
    BY <1>11, <1>12, <2>1, <2>2 DEF Kept
<1>15. Filled(m, mp, e, e)
  BY <1>11 DEF Filled
<1>16. Linked(m, sl2, t, e, ks)
  <2>1. \A h \in Hashes \ sl2 : m[At(t) + h] = NULL
    BY <1>9 DEF Hashes
  <2>2. \A h \in Hashes : Behind(e, ks[h], 0) = NULL
    BY <1>12 DEF Behind
  <2> QED
    BY <1>12, <2>1, <2>2 DEF Linked
<1>17. TableIn(m, (f \ {t}) \union V, At(t), sl2, mp)
  BY <1>8, <1>13, <1>14, <1>15, <1>16 DEF TableIn, TableAt
<1>18. Sound(m, f \ {t}, v, At(t), sl2, stk, mp)
  BY <1>1, <1>2, <1>6, <1>17 DEF Sound
<1> QED
  BY <1>5, <1>6, <1>7, <1>9, <1>18

\* The page for the hash was free and is lost.
LEMMA GetSound ==
  ASSUME NEW m, NEW fr, NEW v, NEW st, NEW sl, NEW stk, NEW mp,
         Sound(m, fr, v, st, sl, stk, mp), HasRoom(fr, 1)
  PROVE  Sound(m, Allocate(fr, 2).free, v, st, sl, stk, mp)
<1>1. m \in [Address -> Int] /\ fr \in SUBSET Pages
  BY DEF Sound
<1>2. PICK V : VectorIn(m, v, stk, V) /\ fr \intersect V = {} /\ TableIn(m, fr \union V, st, sl, mp)
  BY DEF Sound
<1>3. 2 \in Nat \ {0} /\ 2 <= PageWords /\ 0 \in Nat /\ HasRoom(fr, 0 + 1)
  BY Sizes
<1>4. PICK c \in fr : Allocate(fr, 2).free = fr \ {c}
  BY <1>1, <1>3, OnePage
<1>5. TableIn(m, (fr \ {c}) \union V, st, sl, mp)
  <2>1. (fr \ {c}) \union V \in SUBSET (fr \union V)
    OBVIOUS
  <2> QED
    BY <1>1, <1>2, <2>1, TableKept
<1>6. Sound(m, fr \ {c}, v, st, sl, stk, mp)
  BY <1>1, <1>2, <1>5 DEF Sound
<1> QED
  BY <1>4, <1>6

\* f with val for key.
With(f, key, val) == [k \in DOMAIN f \union {key} |-> IF k = key THEN val ELSE f[k]]

HasAlso(w, f, D, S, key, val) ==
  /\ w \in [D \union {key} -> S] /\ w[key] = val
  /\ \A k \in D : k # key => w[k] = f[k]

\* What With gives.
LEMMA WithIs ==
  ASSUME NEW f, NEW D, NEW S, f \in [D -> S], NEW key, NEW val \in S
  PROVE  HasAlso(With(f, key, val), f, D, S, key, val)
<1>1. DOMAIN f = D
  OBVIOUS
<1>2. \A k \in D \union {key} : (IF k = key THEN val ELSE f[k]) \in S
  OBVIOUS
<1>3. With(f, key, val) = [k \in D \union {key} |-> IF k = key THEN val ELSE f[k]]
  BY <1>1 DEF With
<1> QED
  BY <1>2, <1>3 DEF HasAlso

\* The node of a key that is in the table is a new one, in page a.
LEMMA Replaced ==
  ASSUME NEW m, NEW O, NEW st, NEW sl, NEW mp, NEW tp, NEW lp, NEW np, NEW ks,
         TableAt(m, O, st, sl, mp, tp, lp, np, ks),
         NEW key \in DOMAIN mp, NEW val \in Int,
         NEW a \in O, a \in Pages, NEW O2 \in SUBSET (O \ {a}),
         NEW m2, m2[At(a)] = key, m2[At(a) + 1] = val, m2[At(lp[key])] = At(a),
         \A q \in Pages \ {a}, y \in 0 .. (PageWords - 1) :
           ~ (q = lp[key] /\ y = 0) => m2[At(q) + y] = m[At(q) + y]
  PROVE  TableAt(m2, O2, st, sl, With(mp, key, val), tp, lp, With(np, key, a), ks)
<1>1. PICK mp2, np2 : mp2 = With(mp, key, val) /\ np2 = With(np, key, a)
  OBVIOUS
<1>2. /\ st = At(tp) /\ Apart(O, mp, tp, lp, np) /\ Kept(sl, mp, ks)
      /\ Filled(m, mp, lp, np) /\ Linked(m, sl, tp, lp, ks)
  BY DEF TableAt
<1>3. DOMAIN np = DOMAIN mp /\ DOMAIN lp = DOMAIN mp
  BY <1>2 DEF Apart
<1>4. /\ DOMAIN mp2 = DOMAIN mp /\ mp2[key] = val
      /\ \A k \in DOMAIN mp : k # key => mp2[k] = mp[k]
      /\ mp2 \in [DOMAIN mp -> Int]
  <2>1. mp \in [DOMAIN mp -> Int]
    BY <1>2 DEF Kept
  <2>2. HasAlso(mp2, mp, DOMAIN mp, Int, key, val)
    BY <1>1, <2>1, WithIs
  <2>3. DOMAIN mp \union {key} = DOMAIN mp
    OBVIOUS
  <2> QED
    BY <2>2, <2>3 DEF HasAlso
<1>5. /\ DOMAIN np2 = DOMAIN mp /\ np2[key] = a
      /\ \A k \in DOMAIN mp : k # key => np2[k] = np[k]
      /\ np2 \in [DOMAIN mp -> Pages \ O2]
  <2>1. np \in [DOMAIN mp -> Pages \ O2] /\ a \in Pages \ O2
    BY <1>2, <1>3 DEF Apart
  <2>2. HasAlso(np2, np, DOMAIN mp, Pages \ O2, key, a)
    BY <1>1, <2>1, WithIs
  <2>3. DOMAIN mp \union {key} = DOMAIN mp
    OBVIOUS
  <2> QED
    BY <2>2, <2>3 DEF HasAlso
<1>6. \A k \in DOMAIN mp :
        /\ lp[k] \in Pages /\ np[k] \in Pages /\ lp[k] # tp /\ np[k] # tp
        /\ lp[k] # a /\ np[k] # a /\ lp[k] \notin O2 /\ np[k] \notin O2
        /\ \A j \in DOMAIN mp : lp[k] # np[j] /\ (k # j => lp[k] # lp[j] /\ np[k] # np[j])
  BY <1>2 DEF Apart
<1>7. tp \in Pages /\ tp # a /\ tp \notin O2
  BY <1>2 DEF Apart
<1>8. Apart(O2, mp2, tp, lp, np2)
  <2>1. lp \in [DOMAIN mp -> Pages \ O2]
    BY <1>2 DEF Apart
  <2>2. \A k \in DOMAIN mp : lp[k] # tp /\ np2[k] # tp
    BY <1>5, <1>6, <1>7
  <2>3. ASSUME NEW k \in DOMAIN mp, NEW j \in DOMAIN mp
        PROVE  lp[k] # np2[j] /\ (k # j => lp[k] # lp[j] /\ np2[k] # np2[j])
    BY <1>5, <1>6
  <2> QED
    BY <1>4, <1>5, <1>7, <2>1, <2>2, <2>3 DEF Apart
<1>9. Kept(sl, mp2, ks)
  BY <1>2, <1>4 DEF Kept
<1>10. 0 \in 0 .. (PageWords - 1) /\ 1 \in 0 .. (PageWords - 1)
  BY Sizes
<1>11. \A q \in Pages \ {a} :
         /\ q # lp[key] => m2[At(q)] = m[At(q)]
         /\ m2[At(q) + 1] = m[At(q) + 1]
  <2> SUFFICES ASSUME NEW q \in Pages \ {a}
               PROVE  /\ q # lp[key] => m2[At(q)] = m[At(q)]
                      /\ m2[At(q) + 1] = m[At(q) + 1]
    OBVIOUS
  <2>1. At(q) + 0 = At(q)
    BY <1>10, WordOfPage
  <2>2. /\ q # lp[key] => m2[At(q) + 0] = m[At(q) + 0]
        /\ m2[At(q) + 1] = m[At(q) + 1]
    BY <1>10
  <2> QED
    BY <2>1, <2>2
<1>12. Filled(m2, mp2, lp, np2)
  <2> SUFFICES ASSUME NEW k \in DOMAIN mp
               PROVE  /\ m2[At(lp[k])] = At(np2[k]) /\ m2[At(np2[k])] = k
                      /\ m2[At(np2[k]) + 1] = mp2[k]
    BY <1>4 DEF Filled
  <2>1. CASE k = key
    BY <1>4, <1>5, <2>1
  <2>2. CASE k # key
    <3>1. m[At(lp[k])] = At(np[k]) /\ m[At(np[k])] = k /\ m[At(np[k]) + 1] = mp[k]
      BY <1>2 DEF Filled
    <3>2. /\ lp[k] \in Pages \ {a} /\ np[k] \in Pages \ {a}
          /\ lp[k] # lp[key] /\ np[k] # lp[key]
      BY <1>6, <2>2
    <3> QED
      BY <1>4, <1>5, <1>11, <2>2, <3>1, <3>2
  <2> QED
    BY <2>1, <2>2
<1>13. Linked(m2, sl, tp, lp, ks)
  <2> SUFFICES ASSUME NEW h \in Hashes \ sl
               PROVE  /\ m2[At(tp) + h] = Behind(lp, ks[h], 0)
                      /\ \A i \in 1 .. Len(ks[h]) :
                           m2[At(lp[ks[h][i]]) + 1] = Behind(lp, ks[h], i)
    BY DEF Linked
  <2>1. h \in 0 .. (PageWords - 1)
    BY Sizes DEF Hashes
  <2>2. /\ m[At(tp) + h] = Behind(lp, ks[h], 0)
        /\ \A i \in 1 .. Len(ks[h]) : m[At(lp[ks[h][i]]) + 1] = Behind(lp, ks[h], i)
    BY <1>2 DEF Linked
  <2>3. m2[At(tp) + h] = m[At(tp) + h]
    <3>1. tp # lp[key]
      BY <1>6
    <3> QED
      BY <1>7, <2>1, <3>1
  <2>4. \A i \in 1 .. Len(ks[h]) : ks[h][i] \in DOMAIN mp
    BY <1>2 DEF Kept
  <2>5. ASSUME NEW i \in 1 .. Len(ks[h])
        PROVE  m2[At(lp[ks[h][i]]) + 1] = m[At(lp[ks[h][i]]) + 1]
    BY <1>6, <1>11, <2>4
  <2> QED
    BY <2>2, <2>3, <2>5
<1> QED
  BY <1>1, <1>2, <1>8, <1>9, <1>12, <1>13 DEF TableAt

\* The word that points to the list a new one is put behind: its page and its
\* place there.
Link(tp, lp, s, h, u, x) ==
  IF s = << >> THEN u = tp /\ x = h ELSE u = lp[s[Len(s)]] /\ x = 1

\* Page a becomes the node of a key, page b its list, and one word leads there.
Chained(m2, m, a, b, u, x, key, val) ==
  /\ m2[At(a)] = key /\ m2[At(a) + 1] = val
  /\ m2[At(b)] = At(a) /\ m2[At(b) + 1] = NULL /\ m2[At(u) + x] = At(b)
  /\ \A q \in Pages \ {a, b}, y \in 0 .. (PageWords - 1) :
       ~ (q = u /\ y = x) => m2[At(q) + y] = m[At(q) + y]

\* A key that is not in the table gets a node in page a and a list in page b,
\* behind the lists of its bucket.
LEMMA Added ==
  ASSUME NEW m, NEW O, NEW st, NEW sl, NEW mp, NEW tp, NEW lp, NEW np, NEW ks,
         TableAt(m, O, st, sl, mp, tp, lp, np, ks),
         NEW key \in Keys, key \notin DOMAIN mp, Hash(key) \notin sl, NEW val \in Int,
         NEW a \in O, a \in Pages, NEW b \in O, b \in Pages, a # b,
         NEW O2 \in SUBSET (O \ {a, b}),
         NEW u, NEW x, Link(tp, lp, ks[Hash(key)], Hash(key), u, x),
         NEW m2, Chained(m2, m, a, b, u, x, key, val)
  PROVE  TableAt(m2, O2, st, sl, With(mp, key, val), tp, With(lp, key, b), With(np, key, a),
                 [ks EXCEPT ![Hash(key)] = Append(@, key)])
<1>1. PICK mp2, lp2, np2 :
        mp2 = With(mp, key, val) /\ lp2 = With(lp, key, b) /\ np2 = With(np, key, a)
  OBVIOUS
<1>2. PICK h \in Hashes : h = Hash(key)
  BY HashIs
<1>3. PICK ks2 : ks2 = [ks EXCEPT ![h] = Append(@, key)]
  OBVIOUS
<1>4. /\ st = At(tp) /\ Apart(O, mp, tp, lp, np) /\ Kept(sl, mp, ks)
      /\ Filled(m, mp, lp, np) /\ Linked(m, sl, tp, lp, ks)
  BY DEF TableAt
<1>5. PICK D : D = DOMAIN mp /\ D \in SUBSET Keys
  BY <1>4 DEF Kept
<1>6. /\ mp2 \in [D \union {key} -> Int] /\ mp2[key] = val
      /\ \A k \in D : mp2[k] = mp[k]
  <2>1. mp \in [D -> Int]
    BY <1>4, <1>5 DEF Kept
  <2>2. HasAlso(mp2, mp, D, Int, key, val)
    BY <1>1, <2>1, WithIs
  <2> QED
    BY <1>5, <2>2 DEF HasAlso
<1>7. /\ lp2 \in [D \union {key} -> Pages \ O2] /\ lp2[key] = b
      /\ \A k \in D : lp2[k] = lp[k]
  <2>1. lp \in [D -> Pages \ O2] /\ b \in Pages \ O2
    BY <1>4, <1>5 DEF Apart
  <2>2. HasAlso(lp2, lp, D, Pages \ O2, key, b)
    BY <1>1, <2>1, WithIs
  <2> QED
    BY <1>5, <2>2 DEF HasAlso
<1>8. /\ np2 \in [D \union {key} -> Pages \ O2] /\ np2[key] = a
      /\ \A k \in D : np2[k] = np[k]
  <2>1. np \in [D -> Pages \ O2] /\ a \in Pages \ O2
    BY <1>4, <1>5 DEF Apart
  <2>2. HasAlso(np2, np, D, Pages \ O2, key, a)
    BY <1>1, <2>1, WithIs
  <2> QED
    BY <1>5, <2>2 DEF HasAlso
<1>9. DOMAIN mp2 = D \union {key} /\ D \union {key} \in SUBSET Keys
  BY <1>5, <1>6
<1>10. \A k \in D :
         /\ lp[k] \in Pages \ {a, b} /\ np[k] \in Pages \ {a, b} /\ lp[k] # tp /\ np[k] # tp
         /\ \A j \in D : lp[k] # np[j] /\ (k # j => lp[k] # lp[j] /\ np[k] # np[j])
  BY <1>4, <1>5 DEF Apart
<1>11. tp \in Pages \ {a, b} /\ tp \notin O2
  BY <1>4 DEF Apart
<1>12. Apart(O2, mp2, tp, lp2, np2)
  <2>1. \A k \in D \union {key} : lp2[k] # tp /\ np2[k] # tp
    BY <1>7, <1>8, <1>10, <1>11
  <2>2. ASSUME NEW k \in D \union {key}, NEW j \in D \union {key}
        PROVE  lp2[k] # np2[j] /\ (k # j => lp2[k] # lp2[j] /\ np2[k] # np2[j])
    <3>1. CASE k = key /\ j = key
      BY <1>7, <1>8, <3>1
    <3>2. CASE k = key /\ j # key
      <4>1. j \in D /\ lp2[j] = lp[j] /\ np2[j] = np[j]
        BY <1>7, <1>8, <3>2
      <4> QED
        BY <1>7, <1>8, <1>10, <3>2, <4>1
    <3>3. CASE k # key /\ j = key
      <4>1. k \in D /\ lp2[k] = lp[k] /\ np2[k] = np[k]
        BY <1>7, <1>8, <3>3
      <4> QED
        BY <1>7, <1>8, <1>10, <3>3, <4>1
    <3>4. CASE k # key /\ j # key
      <4>1. k \in D /\ lp2[k] = lp[k] /\ np2[k] = np[k]
        BY <1>7, <1>8, <3>4
      <4>2. j \in D /\ lp2[j] = lp[j] /\ np2[j] = np[j]
        BY <1>7, <1>8, <3>4
      <4> QED
        BY <1>10, <3>4, <4>1, <4>2
    <3> QED
      BY <3>1, <3>2, <3>3, <3>4
  <2> QED
    BY <1>7, <1>8, <1>9, <1>11, <2>1, <2>2 DEF Apart
<1>13. PICK s, s2 : s = ks[h] /\ s \in Seq(Keys) /\ s2 = Append(s, key)
  BY <1>4 DEF Kept
<1>14. PICK l \in Nat : l = Len(s)
  BY <1>13
<1>15. /\ s2 \in Seq(Keys) /\ Len(s2) = l + 1 /\ s2[l + 1] = key
       /\ \A i \in 1 .. l : s2[i] = s[i]
  BY <1>13, <1>14
<1>16. /\ ks2 \in [Hashes -> Seq(Keys)] /\ ks2[h] = s2
       /\ \A g \in Hashes : g # h => ks2[g] = ks[g]
  <2>1. ks \in [Hashes -> Seq(Keys)]
    BY <1>4 DEF Kept
  <2> QED
    BY <1>3, <1>13, <1>15, <2>1
<1>17. \A g \in Hashes : \A i \in 1 .. Len(ks[g]) :
         /\ ks[g][i] \in D /\ Hash(ks[g][i]) = g
         /\ \A j \in 1 .. Len(ks[g]) : ks[g][i] = ks[g][j] => i = j
  BY <1>4, <1>5 DEF Kept
<1>18. \A i \in 1 .. l : s[i] \in D /\ s[i] # key /\ \A j \in 1 .. l : s[i] = s[j] => i = j
  BY <1>5, <1>13, <1>14, <1>17
<1>19. Kept(sl, mp2, ks2)
  <2>1. ASSUME NEW g \in Hashes, NEW i \in 1 .. Len(ks2[g])
        PROVE  /\ ks2[g][i] \in D \union {key} /\ Hash(ks2[g][i]) = g
               /\ \A j \in 1 .. Len(ks2[g]) : ks2[g][i] = ks2[g][j] => i = j
    <3>1. CASE g # h
      BY <1>16, <1>17, <3>1
    <3>2. CASE g = h
      <4>1. ks2[g] = s2 /\ i \in 1 .. (l + 1)
        BY <1>15, <1>16, <3>2
      <4>2. CASE i = l + 1
        <5>1. s2[i] = key
          BY <1>15, <4>2
        <5>2. ASSUME NEW j \in 1 .. (l + 1), s2[j] = key PROVE i = j
          <6>1. j \in 1 .. l => FALSE
            BY <1>15, <1>18, <5>2
          <6> QED
            BY <4>2, <6>1
        <5> QED
          BY <1>2, <1>15, <3>2, <4>1, <5>1, <5>2
      <4>3. CASE i # l + 1
        <5>1. i \in 1 .. l
          BY <4>1, <4>3
        <5>2. s2[i] = s[i] /\ s[i] \in D /\ Hash(s[i]) = h
          BY <1>13, <1>14, <1>15, <1>17, <5>1
        <5>3. ASSUME NEW j \in 1 .. (l + 1), s2[i] = s2[j] PROVE i = j
          <6>1. j # l + 1
            BY <1>15, <1>18, <5>1, <5>2, <5>3
          <6>2. j \in 1 .. l
            BY <6>1
          <6> QED
            BY <1>15, <1>18, <5>1, <5>2, <5>3, <6>2
        <5> QED
          BY <1>15, <3>2, <4>1, <5>2, <5>3
      <4> QED
        BY <4>2, <4>3
    <3> QED
      BY <3>1, <3>2
  <2>2. ASSUME NEW k \in D \union {key}
        PROVE  Hash(k) \notin sl /\ \E i \in 1 .. Len(ks2[Hash(k)]) : ks2[Hash(k)][i] = k
    <3>1. CASE k = key
      <4>1. ks2[Hash(k)] = s2 /\ l + 1 \in 1 .. Len(s2) /\ s2[l + 1] = k
        BY <1>2, <1>15, <1>16, <3>1
      <4> QED
        BY <3>1, <4>1
    <3>2. CASE k # key
      <4>1. k \in D
        BY <3>2
      <4>2. PICK g \in Hashes : g = Hash(k)
        BY <1>5, <4>1, HashIs
      <4>3. Hash(k) \notin sl /\ \E i \in 1 .. Len(ks[g]) : ks[g][i] = k
        BY <1>4, <1>5, <4>1, <4>2 DEF Kept
      <4>4. PICK i \in 1 .. Len(ks[g]) : ks[g][i] = k
        BY <4>3
      <4>5. i \in 1 .. Len(ks2[g]) /\ ks2[g][i] = k
        <5>1. CASE g # h
          BY <1>16, <4>4, <5>1
        <5>2. CASE g = h
          <6>1. i \in 1 .. l /\ i \in 1 .. (l + 1) /\ s[i] = k
            BY <1>13, <1>14, <4>4, <5>2
          <6> QED
            BY <1>15, <1>16, <5>2, <6>1
        <5> QED
          BY <5>1, <5>2
      <4> QED
        BY <4>2, <4>3, <4>5
    <3> QED
      BY <3>1, <3>2
  <2> QED
    BY <1>6, <1>9, <1>16, <2>1, <2>2 DEF Kept
<1>20. 0 \in 0 .. (PageWords - 1) /\ 1 \in 0 .. (PageWords - 1) /\ h \in 0 .. (PageWords - 1)
  BY Sizes DEF Hashes
<1>22. s # << >> => l \in 1 .. l /\ l # 0
  BY <1>13, <1>14
<1>23. /\ s = << >> => u = tp /\ x = h
       /\ s # << >> => u = lp[s[l]] /\ x = 1
  BY <1>2, <1>13, <1>14 DEF Link
<1>24. \A k \in D : ~ (lp[k] = u /\ 0 = x) /\ np[k] # u
  <2>1. CASE s = << >>
    BY <1>10, <1>23, <2>1
  <2>2. CASE s # << >>
    <3>1. s[l] \in D /\ u = lp[s[l]] /\ x = 1
      BY <1>18, <1>22, <1>23, <2>2
    <3> QED
      BY <1>10, <3>1
  <2> QED
    BY <2>1, <2>2
<1>25. \A q \in Pages \ {a, b} :
         /\ ~ (q = u /\ x = 0) => m2[At(q)] = m[At(q)]
         /\ ~ (q = u /\ x = 1) => m2[At(q) + 1] = m[At(q) + 1]
  <2> SUFFICES ASSUME NEW q \in Pages \ {a, b}
               PROVE  /\ ~ (q = u /\ x = 0) => m2[At(q)] = m[At(q)]
                      /\ ~ (q = u /\ x = 1) => m2[At(q) + 1] = m[At(q) + 1]
    OBVIOUS
  <2>1. At(q) + 0 = At(q)
    BY <1>20, WordOfPage
  <2>2. /\ ~ (q = u /\ x = 0) => m2[At(q) + 0] = m[At(q) + 0]
        /\ ~ (q = u /\ x = 1) => m2[At(q) + 1] = m[At(q) + 1]
    BY <1>20 DEF Chained
  <2> QED
    BY <2>1, <2>2
<1>26. Filled(m2, mp2, lp2, np2)
  <2> SUFFICES ASSUME NEW k \in D \union {key}
               PROVE  /\ m2[At(lp2[k])] = At(np2[k]) /\ m2[At(np2[k])] = k
                      /\ m2[At(np2[k]) + 1] = mp2[k]
    BY <1>9 DEF Filled
  <2>1. CASE k = key
    BY <1>6, <1>7, <1>8, <2>1 DEF Chained
  <2>2. CASE k # key
    <3>1. k \in D /\ lp2[k] = lp[k] /\ np2[k] = np[k] /\ mp2[k] = mp[k]
      BY <1>6, <1>7, <1>8, <2>2
    <3>2. m[At(lp[k])] = At(np[k]) /\ m[At(np[k])] = k /\ m[At(np[k]) + 1] = mp[k]
      BY <1>4, <1>5, <3>1 DEF Filled
    <3>3. /\ lp[k] \in Pages \ {a, b} /\ np[k] \in Pages \ {a, b}
          /\ ~ (lp[k] = u /\ x = 0) /\ np[k] # u
      BY <1>10, <1>24, <3>1
    <3> QED
      BY <1>25, <3>1, <3>2, <3>3
  <2> QED
    BY <2>1, <2>2
\* A bucket the link is not in.
<1>27. ASSUME NEW g \in Hashes \ sl, g # h
       PROVE  /\ m2[At(tp) + g] = Behind(lp2, ks2[g], 0)
              /\ \A i \in 1 .. Len(ks2[g]) : m2[At(lp2[ks2[g][i]]) + 1] = Behind(lp2, ks2[g], i)
  <2>1. PICK r : r = ks[g] /\ r = ks2[g] /\ r \in Seq(Keys)
    BY <1>4, <1>16, <1>27 DEF Kept
  <2>2. PICK n \in Nat : n = Len(r)
    BY <2>1
  <2>3. \A i \in 1 .. n : r[i] \in D /\ r[i] \notin {s[j] : j \in 1 .. l}
    <3> SUFFICES ASSUME NEW i \in 1 .. n, NEW j \in 1 .. l PROVE r[i] \in D /\ r[i] # s[j]
      BY <1>17, <2>1, <2>2
    <3>1. Hash(r[i]) = g /\ Hash(s[j]) = h /\ r[i] \in D
      BY <1>13, <1>14, <1>17, <2>1, <2>2
    <3> QED
      BY <1>27, <3>1
  <2>4. /\ m[At(tp) + g] = Behind(lp, r, 0)
        /\ \A i \in 1 .. n : m[At(lp[r[i]]) + 1] = Behind(lp, r, i)
    <3>1. /\ m[At(tp) + g] = Behind(lp, ks[g], 0)
          /\ \A i \in 1 .. Len(ks[g]) : m[At(lp[ks[g][i]]) + 1] = Behind(lp, ks[g], i)
      BY <1>4 DEF Linked
    <3> QED
      BY <2>1, <2>2, <3>1
  <2>5. \A i \in 0 .. n : Behind(lp2, r, i) = Behind(lp, r, i)
    <3> SUFFICES ASSUME NEW i \in 0 .. n PROVE Behind(lp2, r, i) = Behind(lp, r, i)
      OBVIOUS
    <3>1. CASE i < n
      <4>1. i + 1 \in 1 .. n
        BY <3>1
      <4>2. lp2[r[i + 1]] = lp[r[i + 1]]
        BY <1>7, <2>3, <4>1
      <4> QED
        BY <4>2 DEF Behind
    <3>2. CASE ~ (i < n)
      BY <2>2, <3>2 DEF Behind
    <3> QED
      BY <3>1, <3>2
  <2>6. m2[At(tp) + g] = m[At(tp) + g]
    <3>1. ~ (tp = u /\ g = x)
      <4>1. CASE s = << >>
        BY <1>23, <1>27, <4>1
      <4>2. CASE s # << >>
        <5>1. s[l] \in D
          BY <1>18, <1>22, <4>2
        <5> QED
          BY <1>10, <1>23, <4>2, <5>1
      <4> QED
        BY <4>1, <4>2
    <3>2. g \in 0 .. (PageWords - 1)
      BY Sizes DEF Hashes
    <3> QED
      BY <1>11, <3>1, <3>2 DEF Chained
  <2>7. ASSUME NEW i \in 1 .. n
        PROVE  m2[At(lp2[r[i]]) + 1] = m[At(lp[r[i]]) + 1]
    <3>1. r[i] \in D /\ lp2[r[i]] = lp[r[i]] /\ lp[r[i]] \in Pages \ {a, b}
      BY <1>7, <1>10, <2>3
    <3>2. lp[r[i]] # u
      <4>1. CASE s = << >>
        BY <1>10, <1>23, <3>1, <4>1
      <4>2. CASE s # << >>
        <5>1. s[l] \in D /\ r[i] # s[l]
          BY <1>18, <1>22, <2>3, <4>2
        <5> QED
          BY <1>10, <1>23, <3>1, <4>2, <5>1
      <4> QED
        BY <4>1, <4>2
    <3> QED
      BY <1>25, <3>1, <3>2
  <2>8. m2[At(tp) + g] = Behind(lp2, r, 0)
    BY <2>2, <2>4, <2>5, <2>6
  <2>9. \A i \in 1 .. n : m2[At(lp2[r[i]]) + 1] = Behind(lp2, r, i)
    BY <2>2, <2>4, <2>5, <2>7
  <2> QED
    BY <2>1, <2>2, <2>8, <2>9
\* The bucket the key is put in.
<1>28. h \notin sl => /\ m[At(tp) + h] = Behind(lp, s, 0)
                      /\ \A i \in 1 .. l : m[At(lp[s[i]]) + 1] = Behind(lp, s, i)
  BY <1>4, <1>13, <1>14 DEF Linked
<1>29. h \notin sl
  BY <1>2
<1>30. \A i \in 0 .. (l + 1) : Behind(lp2, s2, i) =
         IF i < l THEN Behind(lp, s, i) ELSE IF i = l THEN At(b) ELSE NULL
  <2> SUFFICES ASSUME NEW i \in 0 .. (l + 1)
               PROVE  Behind(lp2, s2, i) =
                        IF i < l THEN Behind(lp, s, i) ELSE IF i = l THEN At(b) ELSE NULL
    OBVIOUS
  <2>1. CASE i < l
    <3>1. i + 1 \in 1 .. l /\ i < l + 1
      BY <2>1
    <3>2. s2[i + 1] = s[i + 1] /\ s[i + 1] \in D
      BY <1>15, <1>18, <3>1
    <3>3. lp2[s2[i + 1]] = lp[s[i + 1]]
      BY <1>7, <3>2
    <3> QED
      BY <1>14, <1>15, <2>1, <3>1, <3>3 DEF Behind
  <2>2. CASE i = l
    <3>1. i < l + 1 /\ s2[i + 1] = key
      BY <1>15, <2>2
    <3> QED
      BY <1>7, <1>15, <2>2, <3>1 DEF Behind
  <2>3. CASE l < i
    <3>1. ~ (i < l + 1) /\ i # l /\ ~ (i < l)
      BY <2>3
    <3> QED
      BY <1>15, <3>1 DEF Behind
  <2> QED
    BY <2>1, <2>2, <2>3
<1>31. m2[At(tp) + h] = Behind(lp2, s2, 0)
  <2>1. CASE s = << >>
    <3>1. l = 0 /\ u = tp /\ x = h
      BY <1>14, <1>23, <2>1
    <3>2. Behind(lp2, s2, 0) = At(b)
      BY <1>30, <3>1
    <3> QED
      BY <3>1, <3>2 DEF Chained
  <2>2. CASE s # << >>
    <3>1. 0 < l /\ s[l] \in D /\ u = lp[s[l]]
      BY <1>18, <1>22, <1>23, <2>2
    <3>2. Behind(lp2, s2, 0) = Behind(lp, s, 0)
      BY <1>30, <3>1
    <3>3. m2[At(tp) + h] = m[At(tp) + h]
      BY <1>10, <1>11, <1>20, <3>1 DEF Chained
    <3> QED
      BY <1>28, <1>29, <3>2, <3>3
  <2> QED
    BY <2>1, <2>2
<1>32. ASSUME NEW i \in 1 .. (l + 1)
       PROVE  m2[At(lp2[s2[i]]) + 1] = Behind(lp2, s2, i)
  <2>1. CASE i = l + 1
    <3>1. lp2[s2[i]] = b
      BY <1>7, <1>15, <2>1
    <3>2. Behind(lp2, s2, i) = NULL
      <4>1. i \in 0 .. (l + 1) /\ ~ (i < l) /\ i # l
        BY <2>1
      <4> QED
        BY <1>30, <4>1
    <3> QED
      BY <3>1, <3>2 DEF Chained
  <2>2. CASE i # l + 1
    <3>1. i \in 1 .. l /\ i \in 0 .. (l + 1)
      BY <2>2
    <3>2. s2[i] = s[i] /\ s[i] \in D /\ lp2[s2[i]] = lp[s[i]]
      BY <1>7, <1>15, <1>18, <3>1
    <3>3. s # << >> /\ u = lp[s[l]] /\ x = 1 /\ s[l] \in D
      <4>1. s # << >>
        BY <1>14, <3>1
      <4> QED
        BY <1>18, <1>22, <1>23, <4>1
    <3>4. CASE i = l
      <4>1. Behind(lp2, s2, i) = At(b)
        BY <1>30, <3>1, <3>4
      <4> QED
        BY <3>2, <3>3, <3>4, <4>1 DEF Chained
    <3>5. CASE i # l
      <4>1. i < l
        BY <3>1, <3>5
      <4>2. Behind(lp2, s2, i) = Behind(lp, s, i)
        BY <1>30, <3>1, <4>1
      <4>3. s[i] # s[l]
        BY <1>18, <1>22, <3>1, <3>3, <3>5
      <4>4. lp[s[i]] # u /\ lp[s[i]] \in Pages \ {a, b}
        BY <1>10, <3>2, <3>3, <4>3
      <4>5. m2[At(lp[s[i]]) + 1] = m[At(lp[s[i]]) + 1]
        BY <1>25, <4>4
      <4> QED
        BY <1>28, <1>29, <3>1, <3>2, <4>2, <4>5
    <3> QED
      BY <3>4, <3>5
  <2> QED
    BY <2>1, <2>2
<1>33. Linked(m2, sl, tp, lp2, ks2)
  BY <1>15, <1>16, <1>27, <1>31, <1>32 DEF Linked
<1> QED
  BY <1>1, <1>2, <1>3, <1>4, <1>12, <1>19, <1>26, <1>33 DEF TableAt

\* The vector's pages are pages.
LEMMA VectorPages ==
  ASSUME NEW m, NEW v, NEW stk, NEW V, VectorIn(m, v, stk, V)
  PROVE  V \in SUBSET Pages
BY DEF VectorIn, VectorAt

\* Three pages: for the hash, the node and the list.
Three(fr, c, a, b) ==
  LET node == Allocate(Allocate(fr, 2).free, 2)
      list == Allocate(node.free, 2)
  IN /\ a # b /\ c # a /\ c # b
     /\ node.ptr = At(a) /\ node.free = (fr \ {c}) \ {a}
     /\ list.ptr = At(b) /\ list.free = ((fr \ {c}) \ {a}) \ {b}

\* Each allocation takes another page.
LEMMA ThreePages ==
  ASSUME NEW fr \in SUBSET Pages, HasRoom(fr, 3)
  PROVE  \E c, a, b \in fr : Three(fr, c, a, b)
<1>1. 2 \in Nat \ {0} /\ 2 <= PageWords /\ 0 \in Nat /\ 1 \in Nat /\ 2 \in Nat /\ HasRoom(fr, 2 + 1)
  BY Sizes
<1>2. PICK c \in fr : Allocate(fr, 2).free = fr \ {c} /\ HasRoom(fr \ {c}, 2)
  BY <1>1, OnePage
<1>3. PICK f : f = fr \ {c} /\ f \in SUBSET Pages /\ HasRoom(f, 1 + 1)
  BY <1>2
<1>4. PICK a \in f : /\ Allocate(f, 2).ptr = At(a) /\ Allocate(f, 2).free = f \ {a}
                    /\ HasRoom(f \ {a}, 1)
  BY <1>1, <1>3, OnePage
<1>5. PICK g : g = f \ {a} /\ g \in SUBSET Pages /\ HasRoom(g, 0 + 1)
  BY <1>3, <1>4
<1>6. PICK b \in g : Allocate(g, 2).ptr = At(b) /\ Allocate(g, 2).free = g \ {b}
  <2>1. \E b \in g : /\ Allocate(g, 2).ptr = At(b) /\ Allocate(g, 2).free = g \ {b}
                    /\ HasRoom(g \ {b}, 0)
    BY <1>1, <1>5, OnePage
  <2> QED
    BY <2>1
<1>7. a \in fr /\ b \in fr /\ a # b /\ c # a /\ c # b
  BY <1>3, <1>4, <1>5, <1>6
<1>8. Allocate(Allocate(fr, 2).free, 2).ptr = At(a) /\ Allocate(Allocate(fr, 2).free, 2).free = g
  BY <1>2, <1>3, <1>4, <1>5
<1>9. g = (fr \ {c}) \ {a}
  BY <1>3, <1>5
<1> QED
  BY <1>6, <1>7, <1>8, <1>9 DEF Three

\* Insert of a key that is in the table: the new node is written to a free page,
\* and then the word of the list that leads to it.
LEMMA ReplaceSound ==
  ASSUME NEW m \in [Address -> Int], NEW fr \in SUBSET Pages, NEW v, NEW st, NEW sl, NEW stk,
         NEW mp, NEW V, VectorIn(m, v, stk, V), fr \intersect V = {},
         NEW tp, NEW lp, NEW np, NEW ks, TableAt(m, fr \union V, st, sl, mp, tp, lp, np, ks),
         st # NULL, HasRoom(fr, 3), NEW key \in DOMAIN mp, NEW val \in Int
  PROVE  LET node == Allocate(Allocate(fr, 2).free, 2) IN
         Sound(Write(Write(m, node.ptr, <<key, val>>), At(lp[key]), <<node.ptr>>),
               node.free, v, st, sl, stk, With(mp, key, val))
<1>1. PICK c, a \in fr :
        /\ c # a /\ Allocate(Allocate(fr, 2).free, 2).ptr = At(a)
        /\ Allocate(Allocate(fr, 2).free, 2).free = (fr \ {c}) \ {a}
  <2>1. PICK c, a, b \in fr : Three(fr, c, a, b)
    BY ThreePages
  <2> QED
    BY <2>1 DEF Three
<1>2. PICK f : f = (fr \ {c}) \ {a}
  OBVIOUS
<1>3. key \in Int
  <2>1. key \in Keys
    BY DEF TableAt, Kept
  <2> QED
    BY <2>1, HashIs
<1>4. lp[key] \in Pages /\ lp[key] \notin fr \union V /\ lp[key] # a
  BY DEF TableAt, Apart
<1>5. V \in SUBSET Pages /\ a \in Pages /\ a \notin V
  BY VectorPages
<1>6. 0 \in 0 .. (PageWords - 1) /\ 1 \in 0 .. (PageWords - 1)
  BY Sizes
<1>7. /\ At(a) \in Int
      /\ At(lp[key]) + 0 = At(lp[key])
  <2>1. At(a) \in Nat /\ At(lp[key]) \in Nat
    BY <1>4, <1>5, <1>6, WordOfPage
  <2> QED
    BY <2>1
<1>8. PICK m1 : m1 = Write(m, At(a), <<key, val>>)
  OBVIOUS
<1>9. PutTwo(m1, m, a, key, val)
  BY <1>3, <1>5, <1>8, WriteTwo
<1>10. PICK m2 : m2 = Write(m1, At(lp[key]), <<At(a)>>)
  OBVIOUS
<1>11. PutOne(m2, m1, lp[key], 0, At(a))
  <2>1. m1 \in [Address -> Int]
    BY <1>9 DEF PutTwo
  <2>2. PutOne(Write(m1, At(lp[key]) + 0, <<At(a)>>), m1, lp[key], 0, At(a))
    BY <1>4, <1>6, <1>7, <2>1, WriteOne
  <2> QED
    BY <1>7, <1>10, <2>2
<1>12. \A q \in Pages, y \in 0 .. (PageWords - 1) :
         m2[At(q) + y] = IF q = lp[key] /\ y = 0 THEN At(a) ELSE m1[At(q) + y]
  BY <1>11 DEF PutOne
<1>13. \A q \in Pages \ {a}, y \in 0 .. (PageWords - 1) :
         ~ (q = lp[key] /\ y = 0) => m2[At(q) + y] = m[At(q) + y]
  BY <1>9, <1>12 DEF PutTwo
<1>14. m2[At(a)] = key /\ m2[At(a) + 1] = val
  <2>1. m2[At(a) + 0] = m1[At(a) + 0] /\ m2[At(a) + 1] = m1[At(a) + 1]
    BY <1>4, <1>5, <1>6, <1>12
  <2>2. At(a) + 0 = At(a)
    BY <1>7
  <2> QED
    BY <1>9, <2>1, <2>2 DEF PutTwo
<1>15. m2[At(lp[key])] = At(a)
  <2>1. m2[At(lp[key]) + 0] = At(a)
    BY <1>4, <1>6, <1>12
  <2> QED
    BY <1>7, <2>1
<1>16. f \union V \in SUBSET ((fr \union V) \ {a}) /\ a \in fr \union V
  BY <1>2, <1>5
<1>17. TableAt(m2, f \union V, st, sl, With(mp, key, val), tp, lp, With(np, key, a), ks)
  BY <1>5, <1>13, <1>14, <1>15, <1>16, Replaced
<1>18. TableIn(m2, f \union V, st, sl, With(mp, key, val))
  BY <1>17 DEF TableIn
<1>19. VectorIn(m2, v, stk, V)
  <2>1. \A r \in V, y \in 0 .. (PageWords - 1) : m2[At(r) + y] = m[At(r) + y]
    BY <1>4, <1>5, <1>13
  <2> QED
    BY <2>1, VectorKept
<1>20. m2 \in [Address -> Int] /\ f \in SUBSET Pages /\ f \intersect V = {}
  BY <1>2, <1>11 DEF PutOne
<1>21. Sound(m2, f, v, st, sl, stk, With(mp, key, val))
  BY <1>18, <1>19, <1>20 DEF Sound
<1> QED
  BY <1>1, <1>2, <1>8, <1>10, <1>21

\* Insert of a key that is not: node and list are written to free pages, and then
\* the word the bucket ends in.
LEMMA AddSound ==
  ASSUME NEW m \in [Address -> Int], NEW fr \in SUBSET Pages, NEW v, NEW st, NEW sl, NEW stk,
         NEW mp, NEW V, VectorIn(m, v, stk, V), fr \intersect V = {},
         NEW tp, NEW lp, NEW np, NEW ks, TableAt(m, fr \union V, st, sl, mp, tp, lp, np, ks),
         st # NULL, HasRoom(fr, 3), NEW key \in Keys, key \notin DOMAIN mp,
         Hash(key) \notin sl, NEW val \in Int,
         NEW u \in Pages \ (fr \union V), NEW x \in 0 .. (PageWords - 1),
         Link(tp, lp, ks[Hash(key)], Hash(key), u, x)
  PROVE  LET node == Allocate(Allocate(fr, 2).free, 2)
             list == Allocate(node.free, 2)
         IN Sound(Write(Write(Write(m, node.ptr, <<key, val>>), list.ptr, <<node.ptr, NULL>>),
                        At(u) + x, <<list.ptr>>),
                  list.free, v, st, sl, stk, With(mp, key, val))
<1>1. PICK c, a, b \in fr :
        /\ a # b /\ c # a /\ c # b
        /\ Allocate(Allocate(fr, 2).free, 2).ptr = At(a)
        /\ Allocate(Allocate(fr, 2).free, 2).free = (fr \ {c}) \ {a}
        /\ Allocate((fr \ {c}) \ {a}, 2).ptr = At(b)
        /\ Allocate((fr \ {c}) \ {a}, 2).free = ((fr \ {c}) \ {a}) \ {b}
  <2>1. PICK c, a, b \in fr : Three(fr, c, a, b)
    BY ThreePages
  <2>2. Allocate(Allocate(fr, 2).free, 2).free = (fr \ {c}) \ {a}
    BY <2>1 DEF Three
  <2> QED
    BY <2>1, <2>2 DEF Three
<1>2. PICK f : f = ((fr \ {c}) \ {a}) \ {b}
  OBVIOUS
<1>3. key \in Int
  BY HashIs
<1>4. u # a /\ u # b /\ u \in Pages
  OBVIOUS
<1>5. V \in SUBSET Pages /\ a \in Pages /\ b \in Pages /\ a \notin V /\ b \notin V
  BY VectorPages
<1>6. 0 \in 0 .. (PageWords - 1) /\ 1 \in 0 .. (PageWords - 1)
  BY Sizes
<1>7. At(a) \in Int /\ At(b) \in Int /\ At(a) + 0 = At(a) /\ At(b) + 0 = At(b) /\ NULL \in Int
  <2>1. At(a) \in Nat /\ At(b) \in Nat
    BY <1>5, <1>6, WordOfPage
  <2> QED
    BY <2>1 DEF NULL
<1>8. PICK m1 : m1 = Write(m, At(a), <<key, val>>)
  OBVIOUS
<1>9. PutTwo(m1, m, a, key, val)
  BY <1>3, <1>5, <1>8, WriteTwo
<1>10. PICK w : w = Write(m1, At(b), <<At(a), NULL>>)
  OBVIOUS
<1>11. PutTwo(w, m1, b, At(a), NULL)
  <2>1. m1 \in [Address -> Int]
    BY <1>9 DEF PutTwo
  <2> QED
    BY <1>5, <1>7, <1>10, <2>1, WriteTwo
<1>12. PICK m2 : m2 = Write(w, At(u) + x, <<At(b)>>)
  OBVIOUS
<1>13. PutOne(m2, w, u, x, At(b))
  <2>1. w \in [Address -> Int]
    BY <1>11 DEF PutTwo
  <2> QED
    BY <1>4, <1>7, <1>12, <2>1, WriteOne
<1>14. \A q \in Pages, y \in 0 .. (PageWords - 1) :
         m2[At(q) + y] = IF q = u /\ y = x THEN At(b) ELSE w[At(q) + y]
  BY <1>13 DEF PutOne
<1>15. \A q \in Pages \ {a, b}, y \in 0 .. (PageWords - 1) : w[At(q) + y] = m[At(q) + y]
  BY <1>9, <1>11 DEF PutTwo
<1>16. \A q \in Pages \ {a, b}, y \in 0 .. (PageWords - 1) :
         ~ (q = u /\ y = x) => m2[At(q) + y] = m[At(q) + y]
  BY <1>14, <1>15
<1>17. m2[At(a)] = w[At(a)] /\ m2[At(a) + 1] = w[At(a) + 1]
  <2>1. m2[At(a) + 0] = w[At(a) + 0] /\ m2[At(a) + 1] = w[At(a) + 1]
    BY <1>4, <1>5, <1>6, <1>14
  <2> QED
    BY <1>7, <2>1
<1>18. m2[At(b)] = w[At(b)] /\ m2[At(b) + 1] = w[At(b) + 1]
  <2>1. m2[At(b) + 0] = w[At(b) + 0] /\ m2[At(b) + 1] = w[At(b) + 1]
    BY <1>4, <1>5, <1>6, <1>14
  <2> QED
    BY <1>7, <2>1
<1>19. w[At(a)] = m1[At(a)] /\ w[At(a) + 1] = m1[At(a) + 1]
  <2>1. w[At(a) + 0] = m1[At(a) + 0] /\ w[At(a) + 1] = m1[At(a) + 1]
    BY <1>1, <1>5, <1>6, <1>11 DEF PutTwo
  <2> QED
    BY <1>7, <2>1
<1>20. m2[At(a)] = key /\ m2[At(a) + 1] = val
  BY <1>9, <1>17, <1>19 DEF PutTwo
<1>21. m2[At(b)] = At(a) /\ m2[At(b) + 1] = NULL
  BY <1>11, <1>18 DEF PutTwo
<1>22. m2[At(u) + x] = At(b)
  BY <1>4, <1>14
<1>23. f \union V \in SUBSET ((fr \union V) \ {a, b}) /\ a \in fr \union V /\ b \in fr \union V
  BY <1>2, <1>5
<1>25. TableAt(m2, f \union V, st, sl, With(mp, key, val), tp,
               With(lp, key, b), With(np, key, a),
               [ks EXCEPT ![Hash(key)] = Append(@, key)])
  <2>1. Chained(m2, m, a, b, u, x, key, val)
    BY <1>16, <1>20, <1>21, <1>22 DEF Chained
  <2> QED
    BY <1>1, <1>5, <1>23, <2>1, Added
<1>26. TableIn(m2, f \union V, st, sl, With(mp, key, val))
  BY <1>25 DEF TableIn
<1>27. VectorIn(m2, v, stk, V)
  <2>1. \A r \in V, y \in 0 .. (PageWords - 1) : m2[At(r) + y] = m[At(r) + y]
    BY <1>5, <1>16
  <2> QED
    BY <2>1, VectorKept
<1>28. m2 \in [Address -> Int] /\ f \in SUBSET Pages /\ f \intersect V = {}
  BY <1>2, <1>13 DEF PutOne
<1>29. Sound(m2, f, v, st, sl, stk, With(mp, key, val))
  BY <1>26, <1>27, <1>28 DEF Sound
<1> QED
  BY <1>1, <1>2, <1>8, <1>10, <1>12, <1>29

-----------------------------------------------------------------------------
(* The steps *)

\* There is neither a vector nor a table.
LEMMA InitSound == Init => Inv
<1> SUFFICES ASSUME Init PROVE Sound(mem, free, vec, store, stale, stack, map)
  BY DEF Inv
<1>1. mem \in [Address -> Int]
  <2>1. PICK dirty \in SUBSET DirtyPages :
          mem = [a \in Address |-> IF a \div PageWords \in dirty THEN Junk ELSE 0]
    BY DEF Init
  <2>2. Junk \in Int /\ 0 \in Int
    BY DEF Junk
  <2> QED
    BY <2>1, <2>2
<1>2. VectorIn(mem, vec, stack, {})
  <2>1. vec = [length |-> 0, capacity |-> 0, store |-> 0] /\ stack = << >>
    BY DEF Init, NULL
  <2>2. vec \in [length : Nat, capacity : Nat, store : Nat] /\ vec.length = 0 /\ vec.store = 0
    BY <2>1
  <2>3. stack \in Seq(Int) /\ Len(stack) = 0
    BY <2>1
  <2> QED
    BY <2>1, <2>2, <2>3 DEF VectorIn, NULL
<1>3. TableIn(mem, free \union {}, store, stale, map)
  BY DEF TableIn, Init
<1>4. free \in SUBSET Pages /\ free \intersect {} = {}
  BY DEF Init
<1> QED
  BY <1>1, <1>2, <1>3, <1>4 DEF Sound

\* The constructor of Vector keeps the invariant.
LEMMA NewVectorStep == Inv /\ NewVector => Inv'
<1> SUFFICES ASSUME Inv, NewVector PROVE Inv'
  OBVIOUS
<1>1. /\ Sound(mem, free, vec, store, stale, stack, map)
      /\ vec.store = NULL /\ HasRoom(free, PagesFor(2))
  BY DEF Inv, NewVector
<1>2. PICK new : new = Allocate(free, 2)
  OBVIOUS
<1>3. Sound(mem, new.free, [length |-> 0, capacity |-> 2, store |-> new.ptr],
            store, stale, stack, map)
  BY <1>1, <1>2, NewVectorSound
<1> QED
  BY <1>2, <1>3 DEF Inv, NewVector

\* Push keeps it, as long as the pages follow one another.
LEMMA PushStep == ASSUME NEW x \in Items PROVE Inv /\ Push(x) => Inv'
<1> SUFFICES ASSUME Inv, Push(x), Running' PROVE Inv'
  BY DEF Inv
<1>1. /\ Sound(mem, free, vec, store, stale, stack, map) /\ vec.store # NULL
      /\ stack' = Append(stack, x) /\ UNCHANGED <<store, stale, map>>
  BY DEF Inv, Push
<1>2. x \in Int
  BY StdLibAssumption
<1>3. CASE PushInPlace(x)
  <2>1. Sound(Write(mem, vec.store + vec.length, <<x>>), free, [vec EXCEPT !.length = @ + 1],
              store, stale, Append(stack, x), map)
    BY <1>1, <1>2, <1>3, PushInPlaceSound DEF PushInPlace
  <2> QED
    BY <1>1, <1>3, <2>1 DEF Inv, PushInPlace
<1>4. CASE ExpandAndPush(x)
  <2>1. PICK new : new = Allocate(free, 2 * vec.capacity)
    OBVIOUS
  <2>2. new.whole
    BY <1>4, <2>1 DEF ExpandAndPush, Running
  <2>3. PICK old : old = Read(vec.store, vec.length)
    OBVIOUS
  <2>4. old = [i \in 1 .. vec.length |-> mem[vec.store + i - 1]]
    BY <2>3 DEF Read
  <2>5. Sound(Write(mem, new.ptr, Append(old, x)), Free(new.free, vec.store),
              [length |-> vec.length + 1, capacity |-> 2 * vec.capacity, store |-> new.ptr],
              store, stale, Append(stack, x), map)
    BY <1>1, <1>2, <1>4, <2>1, <2>2, <2>4, ExpandAndPushSound DEF ExpandAndPush
  <2> QED
    BY <1>1, <1>4, <2>1, <2>3, <2>5 DEF Inv, ExpandAndPush
<1> QED
  BY <1>3, <1>4 DEF Push

\* Pop keeps it.
LEMMA PopStep == Inv /\ Pop => Inv'
<1> SUFFICES ASSUME Inv, Pop PROVE Inv'
  OBVIOUS
<1>1. Sound(mem, free, vec, store, stale, stack, map) /\ vec.store # NULL /\ vec.length # 0
  BY DEF Inv, Pop
<1>2. Sound(mem, free, [vec EXCEPT !.length = @ - 1], store, stale,
            SubSeq(stack, 1, Len(stack) - 1), map)
  BY <1>1, PopSound
<1> QED
  BY <1>2 DEF Inv, Pop

\* The constructor of HashTable keeps it.
LEMMA NewTableStep == Inv /\ NewTable => Inv'
<1> SUFFICES ASSUME Inv, NewTable PROVE Inv'
  OBVIOUS
<1>1. Sound(mem, free, vec, store, stale, stack, map) /\ store = NULL /\ HasRoom(free, 2)
  BY DEF Inv, NewTable
<1>2. PICK new : new = Allocate(Allocate(free, 2).free, Capacity)
  OBVIOUS
<1>3. Sound(mem, new.free, vec, new.ptr, {h \in 0 .. Capacity - 1 : mem[new.ptr + h] # NULL},
            stack, map)
  BY <1>1, <1>2, NewTableSound
<1> QED
  BY <1>2, <1>3 DEF Inv, NewTable

\* Get keeps it.
LEMMA GetStep == ASSUME NEW key \in Keys PROVE Inv /\ Get(key) => Inv'
<1> SUFFICES ASSUME Inv, Get(key) PROVE Inv'
  OBVIOUS
<1>1. Sound(mem, free, vec, store, stale, stack, map) /\ HasRoom(free, 1)
  BY DEF Inv, Get
<1>2. Sound(mem, Allocate(free, 2).free, vec, store, stale, stack, map)
  BY <1>1, GetSound
<1> QED
  BY <1>2 DEF Inv, Get

\* Insert keeps it: a bucket that is not stale is walked to the list of the key or
\* to the end.
LEMMA InsertStep ==
  ASSUME NEW key \in Keys, NEW val \in Values
  PROVE  Inv /\ Insert(key, val) => Inv'
<1> SUFFICES ASSUME Inv, Insert(key, val), Running' PROVE Inv'
  BY DEF Inv
<1>1. /\ Sound(mem, free, vec, store, stale, stack, map) /\ store # NULL /\ HasRoom(free, 3)
      /\ UNCHANGED <<vec, store, stale, stack>>
  BY DEF Inv, Insert
<1>2. val \in Int
  BY StdLibAssumption
<1>3. ~ GoWild(key)
  BY DEF GoWild, Running
<1>4. Replace(key, val) \/ Add(key, val)
  BY <1>3 DEF Insert
<1>5. map' = With(map, key, val)
  BY <1>3 DEF Insert, With
<1>6. mem \in [Address -> Int] /\ free \in SUBSET Pages
  BY <1>1 DEF Sound
<1>7. PICK V : /\ VectorIn(mem, vec, stack, V) /\ free \intersect V = {}
               /\ TableIn(mem, free \union V, store, stale, map)
  BY <1>1 DEF Sound
<1>8. PICK tp, lp, np, ks : TableAt(mem, free \union V, store, stale, map, tp, lp, np, ks)
  BY <1>1, <1>7 DEF TableIn
<1>9. Hash(key) \notin stale
  BY <1>4 DEF Replace, Add
<1>10. /\ key \notin DOMAIN map <=> Holding(key) = {}
       /\ key \in DOMAIN map => Bucket(Hash(key))[Min(Holding(key))] = At(lp[key])
  BY <1>6, <1>8, <1>9, HoldingIs
<1>11. CASE Replace(key, val)
  <2>1. key \in DOMAIN map
    BY <1>10, <1>11 DEF Replace
  <2>2. PICK node, list : /\ node = Allocate(Allocate(free, 2).free, 2)
                          /\ list = Bucket(Hash(key))[Min(Holding(key))]
    OBVIOUS
  <2>3. list = At(lp[key])
    BY <1>10, <2>1, <2>2
  <2>4. Sound(Write(Write(mem, node.ptr, <<key, val>>), At(lp[key]), <<node.ptr>>),
              node.free, vec, store, stale, stack, With(map, key, val))
    BY <1>1, <1>2, <1>6, <1>7, <1>8, <2>1, <2>2, ReplaceSound
  <2> QED
    BY <1>1, <1>5, <1>11, <2>2, <2>3, <2>4 DEF Inv, Replace
<1>12. CASE Add(key, val)
  <2>1. key \notin DOMAIN map
    BY <1>10, <1>12 DEF Add
  <2>2. PICK h \in Hashes : h = Hash(key) /\ h \notin stale
    BY <1>9, HashIs
  <2>3. PICK s : s = ks[h] /\ s \in Seq(Keys)
    BY <1>8 DEF TableAt, Kept
  <2>4. PICK l \in Nat : l = Len(s)
    BY <2>3
  <2>5. PICK bucket : bucket = Bucket(h)
    OBVIOUS
  <2>6. bucket = [i \in 1 .. l |-> At(lp[s[i]])]
    BY <1>6, <1>8, <2>2, <2>3, <2>4, <2>5, BucketIs
  <2>7. PICK link : link = IF bucket = << >> THEN store + h ELSE bucket[Len(bucket)] + 1
    OBVIOUS
  <2>8. \E u \in Pages \ (free \union V), y \in 0 .. (PageWords - 1) :
          Link(tp, lp, s, h, u, y) /\ link = At(u) + y
    <3>1. CASE s = << >>
      <4>1. bucket = << >>
        <5>1. 1 .. l = {}
          BY <2>4, <3>1
        <5> QED
          BY <2>6, <5>1
      <4>2. link = At(tp) + h /\ tp \in Pages \ (free \union V)
        BY <1>8, <2>7, <4>1 DEF TableAt, Apart
      <4>3. h \in 0 .. (PageWords - 1) /\ Link(tp, lp, s, h, tp, h)
        BY <3>1, Sizes DEF Hashes, Link
      <4> QED
        BY <4>2, <4>3
    <3>2. CASE s # << >>
      <4>1. l \in 1 .. l
        BY <2>3, <2>4, <3>2
      <4>2. Len(bucket) = l /\ bucket # << >> /\ bucket[l] = At(lp[s[l]])
        <5>1. \A b : b = [i \in 1 .. l |-> At(lp[s[i]])] =>
                Len(b) = l /\ b[l] = At(lp[s[l]])
          BY <4>1
        <5>2. Len(bucket) = l /\ bucket[l] = At(lp[s[l]])
          BY <2>6, <5>1
        <5>3. Len(<< >>) = 0 /\ l # 0
          BY <4>1
        <5> QED
          BY <5>2, <5>3
      <4>3. s[l] \in DOMAIN map
        BY <1>8, <2>3, <2>4, <4>1 DEF TableAt, Kept
      <4>4. lp[s[l]] \in Pages \ (free \union V)
        BY <1>8, <4>3 DEF TableAt, Apart
      <4>5. link = At(lp[s[l]]) + 1
        BY <2>7, <4>2
      <4>6. 1 \in 0 .. (PageWords - 1) /\ Link(tp, lp, s, h, lp[s[l]], 1)
        BY <2>4, <3>2, Sizes DEF Link
      <4> QED
        BY <4>4, <4>5, <4>6
    <3> QED
      BY <3>1, <3>2
  <2>9. PICK u \in Pages \ (free \union V), y \in 0 .. (PageWords - 1) :
          Link(tp, lp, ks[Hash(key)], Hash(key), u, y) /\ link = At(u) + y
    BY <2>2, <2>3, <2>8
  <2>10. PICK node, list : /\ node = Allocate(Allocate(free, 2).free, 2)
                           /\ list = Allocate(node.free, 2)
    OBVIOUS
  <2>11. Sound(Write(Write(Write(mem, node.ptr, <<key, val>>), list.ptr, <<node.ptr, NULL>>),
                     At(u) + y, <<list.ptr>>),
               list.free, vec, store, stale, stack, With(map, key, val))
    BY <1>1, <1>2, <1>6, <1>7, <1>8, <1>9, <2>1, <2>9, <2>10, AddSound
  <2>12. /\ mem' = Write(Write(Write(mem, node.ptr, <<key, val>>), list.ptr, <<node.ptr, NULL>>),
                         link, <<list.ptr>>)
         /\ free' = list.free
    BY <1>12, <2>2, <2>5, <2>7, <2>10 DEF Add
  <2> QED
    BY <1>1, <1>5, <2>9, <2>11, <2>12 DEF Inv
<1> QED
  BY <1>4, <1>11, <1>12

-----------------------------------------------------------------------------
(* The theorems *)

\* Whatever is pushed, popped, inserted and looked up, in whatever order, memory
\* keeps the shape that the vector and the table rely on, until a wild pointer is
\* followed.
THEOREM Invariance == Spec => []Inv
<1>1. Init => Inv
  BY InitSound
<1>2. Inv /\ [Next]_vars => Inv'
  <2> SUFFICES ASSUME Inv, [Next]_vars PROVE Inv'
    OBVIOUS
  <2>1. CASE NewVector
    BY <2>1, NewVectorStep
  <2>2. CASE Pop
    BY <2>2, PopStep
  <2>3. ASSUME NEW x \in Items, Push(x) PROVE Inv'
    BY <2>3, PushStep
  <2>4. CASE NewTable
    BY <2>4, NewTableStep
  <2>5. ASSUME NEW k \in Keys, NEW v \in Values, Insert(k, v) PROVE Inv'
    BY <2>5, InsertStep
  <2>6. ASSUME NEW k \in Keys, Get(k) PROVE Inv'
    BY <2>6, GetStep
  <2>7. CASE UNCHANGED vars
    BY <2>7 DEF vars, Inv, Running
  <2> QED
    BY <2>1, <2>2, <2>3, <2>4, <2>5, <2>6, <2>7 DEF Next
<1> QED
  BY <1>1, <1>2, PTL DEF Spec

\* Vector::Push, expandStore and Pop: until a wild pointer is followed the store
\* holds what was pushed and not popped, in order.
THEOREM VectorIsStackAlways == Spec => []VectorIsStack
<1>1. Inv => VectorIsStack
  BY SoundVector
<1> QED
  BY <1>1, Invariance, PTL

\* HashTable::Insert and Get: until a wild pointer is followed every key whose
\* bucket was NULL at first has the value inserted last, and the others have 0.
THEOREM TableIsMapAlways == Spec => []TableIsMap
<1>1. Inv => TableIsMap
  BY SoundTable
<1> QED
  BY <1>1, Invariance, PTL
=============================================================================
