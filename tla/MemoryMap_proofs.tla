--------------------------- MODULE MemoryMap_proofs ---------------------------
(***************************************************************************)
(* Proofs about MemoryMap, for any BIOS, page size and kernel size.        *)
(*                                                                         *)
(* The constructor's loop keeps that the list is in order and covers the   *)
(* addresses below prevRegionEndAddr; that the descriptors it reads are    *)
(* the regions the BIOS reported; and, for page-aligned regions, that page *)
(* i is at address i pages and has its region's state.  The rest is about  *)
(* a list that is complete: what the self tests say of it, what is left    *)
(* when the kernel's memory is reserved, and where the binary search ends. *)
(***************************************************************************)
EXTENDS MemoryMap, FiniteSetTheorems, WellFoundedInduction, TLAPS

-----------------------------------------------------------------------------
(* Arithmetic *)

\* Induction: a set of numbers that is not empty has a least one.
LEMMA LeastNat ==
  ASSUME NEW T \in SUBSET Nat, T # {}
  PROVE  \E x \in T : \A y \in T : x <= y
<1>1. \E x \in T : \A y \in T : ~ (<<y, x>> \in OpToRel(<, Nat))
  BY NatLessThanWellFounded, WFMin, Zenon
<1>2. \E x \in T : \A y \in T : ~ (y < x)
  BY <1>1, Zenon DEF OpToRel
<1> QED
  BY <1>2

\* Division, as the provers need it.
LEMMA Divided ==
  ASSUME NEW a \in Nat, NEW d \in Nat \ {0}
  PROVE  /\ a \div d \in Nat /\ a % d \in 0 .. (d - 1)
         /\ a = (a \div d) * d + (a % d)
BY Z3

\* The middle of a half-open interval is in it.
LEMMA Middle ==
  ASSUME NEW l \in Nat, NEW r \in Nat, l < r
  PROVE  /\ l + ((r - l) \div 2) \in l .. (r - 1)
         /\ l + ((r - l) \div 2) = l => r = l + 1
OBVIOUS

\* What is smaller than the divisor is its own rest.
LEMMA SmallRest ==
  ASSUME NEW d \in Nat \ {0}, NEW x \in 0 .. (d - 1)
  PROVE  x % d = x /\ x \div d = 0
<1>4. x \in Nat
  OBVIOUS
<1>1. /\ x \in Nat /\ x \div d \in Nat /\ x % d \in 0 .. (d - 1)
      /\ x = (x \div d) * d + (x % d)
  BY <1>4, Divided
<1>2. ASSUME x \div d # 0 PROVE FALSE
  <2>1. PICK k \in Nat : x \div d = 1 + k
    BY <1>1, <1>2
  <2>2. (x \div d) * d = d + k * d /\ k * d \in Nat
    BY <2>1
  <2> QED
    BY <1>1, <2>2
<1>3. (x \div d) * d = 0
  BY <1>2
<1> QED
  BY <1>1, <1>2, <1>3

\* A product grows with its factor.
LEMMA ProductGrows ==
  ASSUME NEW a \in Nat, NEW c \in Nat, NEW d \in Nat \ {0}
  PROVE  /\ a * d \in Nat
         /\ a < c => a * d + d <= c * d
         /\ a <= c => a * d <= c * d
         /\ a * d <= c * d => a <= c
<1>1. a * d \in Nat /\ c * d \in Nat
  OBVIOUS
<1>2. ASSUME NEW x \in Nat, NEW y \in Nat, x < y
      PROVE  x * d + d <= y * d
  <2>1. PICK k \in Nat : y = x + 1 + k
    <3>1. y - x - 1 \in Nat /\ y = x + 1 + (y - x - 1)
      BY <1>2
    <3> QED
      BY <3>1
  <2>2. y * d = x * d + d + k * d
    BY <2>1
  <2>3. k * d \in Nat /\ x * d \in Nat
    OBVIOUS
  <2> QED
    BY <2>2, <2>3
<1>3. a < c => a * d + d <= c * d
  BY <1>2
<1>4. a <= c => a * d <= c * d
  <2>1. a = c \/ a < c \/ c < a
    OBVIOUS
  <2> QED
    BY <2>1, <1>1, <1>3
<1>5. c < a => c * d + d <= a * d
  BY <1>2
<1> QED
  BY <1>1, <1>3, <1>4, <1>5

\* A number without a rest is a multiple.
LEMMA Multiple ==
  ASSUME NEW x \in Nat, NEW d \in Nat \ {0}, x % d = 0
  PROVE  x \div d \in Nat /\ x = (x \div d) * d
<1>1. x \div d \in Nat /\ x = (x \div d) * d + (x % d)
  BY Divided
<1>2. (x \div d) * d \in Nat
  BY <1>1
<1> QED
  BY <1>1, <1>2

\* A multiple has no rest.
LEMMA MultipleHasNoRest ==
  ASSUME NEW q \in Nat, NEW d \in Nat \ {0}
  PROVE  (q * d) % d = 0 /\ (q * d) \div d = q
<1> DEFINE x == q * d
<1>1. x \in Nat
  OBVIOUS
<1>2. x \div d \in Nat /\ x % d \in 0 .. (d - 1) /\ x = (x \div d) * d + (x % d)
  BY <1>1, Divided
<1>3. ASSUME x \div d < q PROVE FALSE
  <2>1. (x \div d) * d + d <= q * d
    BY <1>2, <1>3, ProductGrows
  <2>2. (x \div d) * d \in Nat
    BY <1>2
  <2> QED
    BY <1>2, <2>1, <2>2
<1>4. ASSUME q < x \div d PROVE FALSE
  <2>1. q * d + d <= (x \div d) * d
    BY <1>2, <1>4, ProductGrows
  <2> QED
    BY <1>1, <1>2, <2>1
<1>5. x \div d = q
  BY <1>2, <1>3, <1>4
<1>6. x = x + (x % d)
  BY <1>2, <1>5
<1> QED
  BY <1>1, <1>2, <1>5, <1>6

-----------------------------------------------------------------------------
(* The binary search *)

\* Where the search for a base between l and r ends, v being the bases.
Answer(v, base, l, r) ==
  IF l >= r THEN l + ((r - l) \div 2) + 1
  ELSE IF \E i \in (l + 1) .. r : v[i] = base
       THEN CHOOSE i \in (l + 1) .. r : v[i] = base
       ELSE IF v[l + 1] < base THEN NotFound ELSE l + 1

\* One turn of the search's loop; above and below are where the search of a
\* half ends.
Turn(v, above, below, base, l, r, mid) ==
  IF l >= r \/ v[mid + 1] = base THEN mid + 1
  ELSE IF v[mid + 1] <= base
       THEN IF mid = l THEN NotFound ELSE above
       ELSE below

\* On an ordered list one turn of the loop does not change the answer.
LEMMA TurnAnswers ==
  ASSUME NEW above, NEW below, NEW base \in Int, NEW L \in Nat, NEW v \in [1 .. L -> Int],
         \A i, j \in 1 .. L : i < j => v[i] < v[j],
         NEW l \in 0 .. L, NEW r \in 0 .. L, l < r,
         NEW mid \in l .. (r - 1), mid = l => r = l + 1,
         mid # l => above = Answer(v, base, mid, r),
         mid # l => below = Answer(v, base, l, mid),
         mid = l => below = l + 1
  PROVE  Turn(v, above, below, base, l, r, mid) = Answer(v, base, l, r)
<1>1. mid + 1 \in 1 .. L /\ mid + 1 \in (l + 1) .. r /\ l + 1 \in 1 .. L
  OBVIOUS
<1>2. \A i \in (l + 1) .. r : i \in 1 .. L
  OBVIOUS
<1>3. \A i, j \in 1 .. L : i < j => v[i] < v[j]
  OBVIOUS
<1>4. ASSUME NEW i \in (l + 1) .. r, v[i] = base
      PROVE  Answer(v, base, l, r) = i
  <2>1. \A j \in (l + 1) .. r : v[j] = base => j = i
    <3>1. SUFFICES ASSUME NEW j \in (l + 1) .. r, v[j] = base, j < i \/ i < j
                   PROVE  FALSE
      OBVIOUS
    <3> QED
      BY <3>1, <1>2, <1>3, <1>4
  <2>2. (CHOOSE j \in (l + 1) .. r : v[j] = base) = i
    BY <2>1, <1>4
  <2> QED
    BY <2>2, <1>4 DEF Answer
<1>5. CASE v[mid + 1] = base
  BY <1>5, <1>1, <1>4 DEF Turn
<1>6. CASE v[mid + 1] < base
  <2>1. \A i \in (l + 1) .. r : v[i] = base => i \in (mid + 2) .. r
    <3>1. SUFFICES ASSUME NEW i \in (l + 1) .. r, v[i] = base, i <= mid + 1
                   PROVE  FALSE
      OBVIOUS
    <3>2. i = mid + 1 \/ i < mid + 1
      BY <3>1
    <3> QED
      BY <3>1, <3>2, <1>1, <1>2, <1>3, <1>6
  <2>2. v[l + 1] < base
    <3>1. l + 1 = mid + 1 \/ l + 1 < mid + 1
      OBVIOUS
    <3>2. v[l + 1] \in Int /\ v[mid + 1] \in Int
      BY <1>1
    <3> QED
      BY <3>1, <3>2, <1>1, <1>3, <1>6
  <2>3. CASE mid = l
    <3>1. ~ \E i \in (l + 1) .. r : v[i] = base
      BY <2>1, <2>3
    <3>2. Turn(v, above, below, base, l, r, mid) = NotFound
      BY <1>1, <1>6, <2>3 DEF Turn
    <3>3. Answer(v, base, l, r) = NotFound
      BY <2>2, <3>1 DEF Answer
    <3> QED
      BY <3>2, <3>3
  <2>4. CASE mid # l
    <3>1. Turn(v, above, below, base, l, r, mid) = Answer(v, base, mid, r)
      BY <1>1, <1>6, <2>4 DEF Turn
    <3>2. CASE \E i \in (l + 1) .. r : v[i] = base
      <4>1. PICK i \in (l + 1) .. r : v[i] = base
        BY <3>2
      <4>2. i \in (mid + 1) .. r
        BY <4>1, <2>1
      <4>3. \A j \in (mid + 1) .. r : v[j] = base => j = i
        <5>1. SUFFICES ASSUME NEW j \in (mid + 1) .. r, v[j] = base
                       PROVE  j = i
          OBVIOUS
        <5>2. j \in (l + 1) .. r
          OBVIOUS
        <5> QED
          BY <5>1, <5>2, <4>1, <1>4
      <4>4. (CHOOSE j \in (mid + 1) .. r : v[j] = base) = i
        BY <4>1, <4>2, <4>3
      <4>5. Answer(v, base, mid, r) = i
        BY <4>1, <4>2, <4>4 DEF Answer
      <4> QED
        BY <3>1, <4>1, <4>5, <1>4
    <3>3. CASE ~ \E i \in (l + 1) .. r : v[i] = base
      <4>1. ~ \E i \in (mid + 1) .. r : v[i] = base
        <5>1. \A i \in (mid + 1) .. r : i \in (l + 1) .. r
          OBVIOUS
        <5> QED
          BY <5>1, <3>3
      <4>2. Answer(v, base, mid, r) = NotFound
        BY <4>1, <1>6 DEF Answer
      <4>3. Answer(v, base, l, r) = NotFound
        BY <3>3, <2>2 DEF Answer
      <4> QED
        BY <3>1, <4>2, <4>3
    <3> QED
      BY <3>2, <3>3
  <2> QED
    BY <2>3, <2>4
<1>8. v[mid + 1] \in Int
  BY <1>1
<1>7. CASE v[mid + 1] > base
  <2>1. /\ mid # l => Turn(v, above, below, base, l, r, mid) = Answer(v, base, l, mid)
        /\ mid = l => Turn(v, above, below, base, l, r, mid) = l + 1
    <3>1. Turn(v, above, below, base, l, r, mid) = below
      BY <1>1, <1>7 DEF Turn
    <3> QED
      BY <3>1
  <2>2. \A i \in (l + 1) .. r : v[i] = base => i \in (l + 1) .. mid
    <3>1. SUFFICES ASSUME NEW i \in (l + 1) .. r, v[i] = base, mid + 1 <= i
                   PROVE  FALSE
      OBVIOUS
    <3>2. i = mid + 1 \/ mid + 1 < i
      BY <3>1
    <3> QED
      BY <3>1, <3>2, <1>1, <1>2, <1>3, <1>7
  <2>3. CASE \E i \in (l + 1) .. r : v[i] = base
    <3>1. PICK i \in (l + 1) .. r : v[i] = base
      BY <2>3
    <3>2. i \in (l + 1) .. mid /\ l < mid
      BY <3>1, <2>2
    <3>3. \A j \in (l + 1) .. mid : v[j] = base => j = i
      <4>1. SUFFICES ASSUME NEW j \in (l + 1) .. mid, v[j] = base
                     PROVE  j = i
        OBVIOUS
      <4>2. j \in (l + 1) .. r
        OBVIOUS
      <4> QED
        BY <4>1, <4>2, <3>1, <1>4
    <3>4. (CHOOSE j \in (l + 1) .. mid : v[j] = base) = i
      BY <3>1, <3>2, <3>3
    <3>5. Answer(v, base, l, mid) = i
      BY <3>1, <3>2, <3>4 DEF Answer
    <3> QED
      BY <2>1, <3>1, <3>2, <3>5, <1>4
  <2>4. CASE ~ \E i \in (l + 1) .. r : v[i] = base
    <3>1. ~ \E i \in (l + 1) .. mid : v[i] = base
      <4>1. \A i \in (l + 1) .. mid : i \in (l + 1) .. r
        OBVIOUS
      <4> QED
        BY <4>1, <2>4
    <3>2. CASE mid = l
      <4>1. ~ (v[l + 1] < base) /\ ~ (l >= r)
        BY <3>2, <1>7, <1>8
      <4>2. Answer(v, base, l, r) = l + 1
        BY <2>4, <4>1, Zenon DEF Answer
      <4> QED
        BY <4>2, <2>1, <3>2
    <3>3. CASE mid # l
      <4>1. Answer(v, base, l, mid) = IF v[l + 1] < base THEN NotFound ELSE l + 1
        BY <3>1, <3>3 DEF Answer
      <4>2. Answer(v, base, l, r) = IF v[l + 1] < base THEN NotFound ELSE l + 1
        BY <2>4 DEF Answer
      <4> QED
        BY <3>3, <4>1, <4>2, <2>1
    <3> QED
      BY <3>2, <3>3
  <2> QED
    BY <2>3, <2>4
<1> QED
  BY <1>5, <1>6, <1>7, <1>8

\* GetPageAt ends, and with the page that starts at the page boundary below
\* the address whenever there is one.
LEMMA SearchEnds ==
  ASSUME NEW addr \in Int, PageAligned(addr) \in Int,
         NEW L \in Nat, Len(pages) = L,
         NEW v \in [1 .. L -> Int], \A i \in 1 .. L : pages[i].base = v[i],
         \A i, j \in 1 .. L : i < j => v[i] < v[j]
  PROVE  GetPageAt(addr) = Answer(v, PageAligned(addr), 0, L)
<1> DEFINE base == PageAligned(addr)
           P == (0 .. L) \X (0 .. L)
           Mid(l, r) == l + ((r - l) \div 2)
           turn(f, l, r) ==
             IF l >= r \/ pages[Mid(l, r) + 1].base = base THEN Mid(l, r) + 1
             ELSE IF pages[Mid(l, r) + 1].base <= base
                  THEN IF Mid(l, r) = l THEN NotFound ELSE f[<<Mid(l, r), r>>]
                  ELSE f[<<l, Mid(l, r)>>]
           search == CHOOSE f : f = [b \in P |-> turn(f, b[1], b[2])]
           w == [b \in P |-> Answer(v, base, b[1], b[2])]
<1>1. GetPageAt(addr) = search[<<0, L>>]
  BY Zenon DEF GetPageAt
<1>2. ASSUME NEW f, NEW l \in 0 .. L, NEW r \in 0 .. L, l < r
      PROVE  turn(f, l, r) = Turn(v, f[<<Mid(l, r), r>>], f[<<l, Mid(l, r)>>], base, l, r, Mid(l, r))
  <2>1. Mid(l, r) \in l .. (r - 1)
    BY <1>2, Middle
  <2>2. Mid(l, r) + 1 \in 1 .. L
    BY <2>1
  <2>3. pages[Mid(l, r) + 1].base = v[Mid(l, r) + 1]
    BY <2>2
  <2> HIDE DEF Mid, base
  <2> QED
    BY <2>3, Zenon DEF Turn
<1>3. ASSUME NEW f, NEW l \in 0 .. L, NEW r \in 0 .. L, l >= r
      PROVE  turn(f, l, r) = Answer(v, base, l, r)
  BY <1>3 DEF Answer
<1>4. ASSUME NEW f, NEW l \in 0 .. L, NEW r \in 0 .. L, l < r,
             \A x, y \in 0 .. L : y - x < r - l => f[<<x, y>>] = w[<<x, y>>]
      PROVE  turn(f, l, r) = Answer(v, base, l, r)
  <2> DEFINE mid == Mid(l, r)
  <2>1. mid \in l .. (r - 1) /\ (mid = l => r = l + 1)
    BY <1>4, Middle
  <2>2. mid \in 0 .. L
    BY <2>1
  <2>3. \A x, y \in 0 .. L : w[<<x, y>>] = Answer(v, base, x, y)
    <3> HIDE DEF base
    <3> QED
      OBVIOUS
  <2> HIDE DEF mid, w, base
  <2>4. mid # l => f[<<mid, r>>] = Answer(v, base, mid, r)
    BY <1>4, <2>1, <2>2, <2>3
  <2>5. f[<<l, mid>>] = Answer(v, base, l, mid)
    BY <1>4, <2>1, <2>2, <2>3
  <2>6. mid = l => Answer(v, base, l, mid) = l + 1
    BY <2>1 DEF Answer
  <2>7. base \in Int
    BY DEF base
  <2>8. mid = l => f[<<l, mid>>] = l + 1
    BY <2>5, <2>6
  <2>9. Turn(v, f[<<mid, r>>], f[<<l, mid>>], base, l, r, mid) = Answer(v, base, l, r)
    <3> DEFINE a == f[<<mid, r>>]
               c == f[<<l, mid>>]
    <3>1. (mid # l => a = Answer(v, base, mid, r)) /\ (mid # l => c = Answer(v, base, l, mid))
          /\ (mid = l => c = l + 1)
      BY <2>4, <2>5, <2>8
    <3>2. mid \in l .. (r - 1) /\ (mid = l => r = l + 1) /\ l < r
      BY <1>4, <2>1
    <3> HIDE DEF a, c
    <3>3. Turn(v, a, c, base, l, r, mid) = Answer(v, base, l, r)
      BY <3>1, <3>2, <2>7, TurnAnswers
    <3> QED
      BY <3>3 DEF a, c
  <2> HIDE DEF turn
  <2>10. turn(f, l, r) = Turn(v, f[<<Mid(l, r), r>>], f[<<l, Mid(l, r)>>], base, l, r, Mid(l, r))
    BY <1>2, <1>4
  <2> QED
    BY <2>9, <2>10 DEF mid
<1>5. w = [b \in P |-> turn(w, b[1], b[2])]
  <2> SUFFICES ASSUME NEW b \in P
               PROVE  turn(w, b[1], b[2]) = Answer(v, base, b[1], b[2])
    OBVIOUS
  <2> DEFINE l == b[1]
             r == b[2]
  <2>1. l \in 0 .. L /\ r \in 0 .. L
    OBVIOUS
  <2> HIDE DEF l, r, turn
  <2>4. \A x, y \in 0 .. L : y - x < r - l => w[<<x, y>>] = w[<<x, y>>]
    OBVIOUS
  <2> HIDE DEF w
  <2>2. CASE l >= r
    BY <2>1, <2>2, <1>3 DEF l, r
  <2>3. CASE l < r
    <3>1. turn(w, l, r) = Answer(v, base, l, r)
      BY <2>1, <2>3, <2>4, <1>4
    <3> QED
      BY <3>1 DEF l, r
  <2> QED
    BY <2>1, <2>2, <2>3
<1>6. search = [b \in P |-> turn(search, b[1], b[2])]
  <2> HIDE DEF turn, P, w
  <2> QED
    BY <1>5, Zenon
<1> HIDE DEF search, turn, w
<1>7. \A l, r \in 0 .. L : l >= r => search[<<l, r>>] = w[<<l, r>>]
  <2> SUFFICES ASSUME NEW l \in 0 .. L, NEW r \in 0 .. L, l >= r
               PROVE  search[<<l, r>>] = w[<<l, r>>]
    OBVIOUS
  <2>1. turn(search, l, r) = Answer(v, base, l, r)
    BY <1>3
  <2>2. search[<<l, r>>] = turn(search, l, r)
    BY <1>6
  <2>3. w[<<l, r>>] = Answer(v, base, l, r)
    BY DEF w
  <2> QED
    BY <2>1, <2>2, <2>3
<1> DEFINE T == {n \in Nat : \E l, r \in 0 .. L :
                    l < r /\ n = r - l /\ search[<<l, r>>] # w[<<l, r>>]}
<1>11. T \in SUBSET Nat
  OBVIOUS
<1>12. \A l, r \in 0 .. L :
         l < r /\ search[<<l, r>>] # w[<<l, r>>] => r - l \in T
  <2>1. \A l, r \in 0 .. L : l < r => r - l \in Nat
    OBVIOUS
  <2> QED
    BY <2>1, Zenon
<1>13. \A n \in T : \E l, r \in 0 .. L :
         l < r /\ n = r - l /\ search[<<l, r>>] # w[<<l, r>>]
  OBVIOUS
<1> HIDE DEF T
<1>8. T = {}
  <2> SUFFICES ASSUME T # {} PROVE FALSE
    OBVIOUS
  <2>1. PICK n \in T : \A k \in T : n <= k
    BY <1>11, LeastNat
  <2>2. PICK l \in 0 .. L, r \in 0 .. L :
          l < r /\ n = r - l /\ search[<<l, r>>] # w[<<l, r>>]
    BY <2>1, <1>13
  <2>3. ASSUME NEW x \in 0 .. L, NEW y \in 0 .. L, y - x < r - l
        PROVE  search[<<x, y>>] = w[<<x, y>>]
    <3>1. CASE x >= y
      BY <3>1, <1>7
    <3>2. CASE x < y
      <4>1. n \in Nat /\ y - x \in Nat /\ ~ (n <= y - x)
        BY <3>2, <1>11, <2>1, <2>2, <2>3
      <4>2. y - x \notin T
        BY <4>1, <2>1
      <4> QED
        BY <4>2, <3>2, <1>12
    <3> QED
      BY <3>1, <3>2
  <2>4. turn(search, l, r) = Answer(v, base, l, r)
    BY <2>2, <2>3, <1>4
  <2>5. search[<<l, r>>] = turn(search, l, r)
    BY <1>6
  <2>6. w[<<l, r>>] = Answer(v, base, l, r)
    BY DEF w
  <2> QED
    BY <2>2, <2>4, <2>5, <2>6
<1>9. search[<<0, L>>] = w[<<0, L>>]
  <2>1. CASE L = 0
    BY <2>1, <1>7
  <2>2. CASE L # 0
    <3>1. 0 < L /\ 0 \in 0 .. L /\ L \in 0 .. L
      BY <2>2
    <3> QED
      BY <3>1, <1>8, <1>12
  <2> QED
    BY <2>1, <2>2
<1>10. w[<<0, L>>] = Answer(v, base, 0, L)
  BY DEF w
<1> QED
  BY <1>1, <1>9, <1>10

-----------------------------------------------------------------------------
(* The list of pages *)

Region == [base : Nat, size : Nat, state : 1 .. 5]
PageRec == [base : 0 .. (WORD - 1), state : 1 .. 6, region : Nat]

\* The units of a page that starts at b.
UnitsAt(b) == b .. (b + PAGE_SIZE_BYTES - 1)

\* A list of pages in order, from address 0 on and below prev.
Listed(ps, prev) ==
  /\ ps \in Seq(PageRec)
  /\ \A i, j \in DOMAIN ps : i < j => ps[i].base < ps[j].base
  /\ \A i \in DOMAIN ps : ps[i].base < prev
  /\ ps # << >> => ps[1].base = 0

\* It has a page for every address below prev.
Covers(ps, prev) ==
  \A u \in 0 .. (prev - 1) : \E i \in DOMAIN ps : u \in UnitsAt(ps[i].base)

\* The usable pages are RAM.
Ram(ps) ==
  \A i \in DOMAIN ps : ps[i].state = usable =>
    \E k \in DOMAIN regions :
      regions[k].state = usable /\ UnitsAt(ps[i].base) \subseteq RegionUnits(k)

\* Page i is at address i pages, and the list ends at prev.
Exact(ps, prev) ==
  /\ Len(ps) * PAGE_SIZE_BYTES = prev
  /\ \A i \in DOMAIN ps : ps[i].base = (i - 1) * PAGE_SIZE_BYTES

\* The pages of the first n regions have the states of their regions.
StatesKept(ps, n) ==
  \A k \in 1 .. n : \A i \in DOMAIN ps :
    ps[i].base \in RegionUnits(k) => ps[i].state = regions[k].state

\* A word and a page.
LEMMA Sizes32 ==
  /\ WORD \in Nat \ {0} /\ PAGE_SIZE_BYTES \in Nat \ {0}
  /\ PAGE_SIZE_BYTES < WORD
  /\ WORD < WORD * WORD /\ WORD * WORD \in Nat \ {0}
<1>1. WORD \in Nat \ {0} /\ PAGE_SIZE_BYTES \in Nat \ {0} /\ PAGE_SIZE_BYTES < WORD
  BY WordAssumption
<1>2. PICK k \in Nat : WORD = 2 + k
  <2>1. WORD - 2 \in Nat /\ WORD = 2 + (WORD - 2)
    BY <1>1
  <2> QED
    BY <2>1
<1>3. WORD * WORD = WORD + (WORD + k * WORD)
  BY <1>2
<1>4. k * WORD \in Nat
  BY <1>1
<1> QED
  BY <1>1, <1>3, <1>4

\* qs are the pages of ps and then the n of t.
Joined(ps, n, t, qs) ==
  /\ qs \in Seq(PageRec)
  /\ Len(ps) \in Nat /\ Len(qs) = Len(ps) + n
  /\ DOMAIN ps = 1 .. Len(ps) /\ DOMAIN qs = 1 .. (Len(ps) + n)
  /\ \A i \in 1 .. Len(ps) : qs[i] = ps[i]
  /\ \A i \in 1 .. n : qs[Len(ps) + i] = t[i]

\* Appending joins.
LEMMA Concatenated ==
  ASSUME NEW ps \in Seq(PageRec), NEW n \in Nat, NEW t \in [1 .. n -> PageRec]
  PROVE  Joined(ps, n, t, ps \o t)
<1>1. t \in Seq(PageRec) /\ Len(t) = n
  OBVIOUS
<1>2. \A i \in 1 .. n : Len(ps) + i \in (Len(ps) + 1) .. (Len(ps) + n)
  OBVIOUS
<1> QED
  BY <1>1, <1>2 DEF Joined

\* t are the n pages of a piece of the address space, off where they begin in
\* it and whole those it fills.
SplitInto(t, base, size, state, n, whole, off) ==
  /\ n \in Nat \ {0} /\ whole \in 0 .. n
  /\ t \in [1 .. n -> PageRec] /\ off \in [1 .. n -> 0 .. (size - 1)]
  /\ \A i \in 1 .. n : t[i].base = base + off[i]
  /\ \A i \in 1 .. n : t[i].state = IF i <= whole THEN state ELSE reserved
  /\ off[1] = 0
  /\ \A i, j \in 1 .. n : i < j => off[i] < off[j]
  /\ \A i \in 1 .. whole : off[i] + PAGE_SIZE_BYTES <= size
  /\ \A x \in 0 .. (size - 1) : \E i \in 1 .. n : x \in UnitsAt(off[i])
  /\ whole = size \div PAGE_SIZE_BYTES
  /\ size % PAGE_SIZE_BYTES = 0 => n = whole
  /\ \A i \in 1 .. n : off[i] = (i - 1) * PAGE_SIZE_BYTES

\* splitRegion on a piece of the address space that ends with a word at most.
LEMMA SplitPages ==
  ASSUME NEW base \in Nat, NEW size \in Nat \ {0}, base + size <= WORD,
         NEW state \in 1 .. 5, NEW id \in Nat, NEW e,
         e = [base |-> base, size |-> size, state |-> state]
  PROVE  \E n, whole, off :
           SplitInto(SplitRegion(e, id), base, size, state, n, whole, off)
<1> DEFINE P == PAGE_SIZE_BYTES
           whole == size \div P
           rest == IF size % P # 0 THEN 1 ELSE 0
           n == whole + rest
           t == SplitRegion(e, id)
<1>1. P \in Nat \ {0} /\ WORD \in Nat \ {0}
  BY Sizes32
<1> HIDE DEF P
<1>2. whole \in Nat /\ size % P \in 0 .. (P - 1) /\ size = whole * P + (size % P)
  BY <1>1, Divided
<1>3. whole * P \in Nat
  BY <1>1, <1>2
<1>4. whole * P <= size
  BY <1>1, <1>2, <1>3
<1>5. n \in Nat /\ (rest = 0 => n = whole /\ size % P = 0) /\ (rest = 1 => n = whole + 1)
      /\ (size % P = 0 => rest = 0)
  BY <1>2
<1>6. n * P \in Nat /\ size <= n * P
  <2>1. CASE rest = 0
    BY <2>1, <1>2, <1>3, <1>5
  <2>2. CASE rest = 1
    <3>1. n * P = whole * P + P
      BY <2>2, <1>1, <1>2, <1>5
    <3> QED
      BY <3>1, <1>1, <1>2, <1>3
  <2> QED
    BY <2>1, <2>2
<1>7. n # 0
  BY <1>1, <1>6
<1>8. ASSUME NEW i \in 1 .. n
      PROVE  (i - 1) * P \in 0 .. (size - 1)
  <2>1. i - 1 \in Nat /\ i - 1 < n
    BY <1>5
  <2>2. (i - 1) * P \in Nat
    BY <2>1, <1>1
  <2>3. CASE i - 1 < whole
    <3>1. (i - 1) * P + P <= whole * P
      BY <2>1, <2>3, <1>1, <1>2, ProductGrows
    <3> QED
      BY <3>1, <2>2, <1>1, <1>3, <1>4
  <2>4. CASE ~ (i - 1 < whole)
    <3>1. i - 1 = whole /\ size % P # 0
      BY <2>1, <2>4, <1>2, <1>5
    <3>2. (i - 1) * P = whole * P
      BY <3>1
    <3> QED
      BY <3>1, <3>2, <1>1, <1>2, <1>3
  <2> QED
    BY <2>3, <2>4
<1>9. t = [i \in 1 .. n |->
             PageRecord(e, i - 1, IF i <= whole THEN state ELSE reserved, id)]
  <2>1. e.size = size /\ e.state = state
    OBVIOUS
  <2> QED
    BY <2>1, Zenon DEF SplitRegion, P
<1>10. ASSUME NEW i \in 1 .. n
       PROVE  /\ t[i].base = base + (i - 1) * P
              /\ t[i].state = IF i <= whole THEN state ELSE reserved
              /\ t[i] \in PageRec
  <2>1. t[i] = PageRecord(e, i - 1, IF i <= whole THEN state ELSE reserved, id)
    BY <1>9
  <2>2. base + (i - 1) * P \in 0 .. (WORD - 1)
    BY <1>1, <1>8
  <2>3. (base + (i - 1) * P) % WORD = base + (i - 1) * P
    BY <2>2, <1>1, SmallRest
  <2>4. (IF i <= whole THEN state ELSE reserved) \in 1 .. 6
    BY DEF reserved
  <2>5. e.base = base
    OBVIOUS
  <2>6. t[i] = [base |-> base + (i - 1) * P,
                state |-> IF i <= whole THEN state ELSE reserved, region |-> id]
    BY <2>1, <2>3, <2>5, Zenon DEF PageRecord, P
  <2> HIDE DEF t, whole
  <2> QED
    BY <2>2, <2>4, <2>6 DEF PageRec
<1>11. t \in [1 .. n -> PageRec]
  <2> HIDE DEF n, whole
  <2>1. \A i \in 1 .. n : t[i] \in PageRec
    BY <1>10
  <2> QED
    BY <2>1, <1>9
<1>12. size % P = 0 => n = whole
  BY <1>5
<1>13. n \in Nat \ {0} /\ whole \in 0 .. n
  BY <1>2, <1>5, <1>7
<1> HIDE DEF n, t, whole, rest
<1> DEFINE off == [i \in 1 .. n |-> (i - 1) * P]
<1>14. off \in [1 .. n -> 0 .. (size - 1)]
  BY <1>8
<1>15. \A i \in 1 .. n : off[i] = (i - 1) * P
  OBVIOUS
<1> HIDE DEF off
<1>16. \A i \in 1 .. n : t[i].base = base + off[i]
  BY <1>10, <1>15
<1>17. \A i \in 1 .. n : t[i].state = IF i <= whole THEN state ELSE reserved
  BY <1>10
<1>18. off[1] = 0
  <2>1. 1 \in 1 .. n /\ (1 - 1) * P = 0
    BY <1>1, <1>13
  <2> QED
    BY <2>1, <1>15
<1>19. ASSUME NEW i \in 1 .. n, NEW j \in 1 .. n, i < j
       PROVE  off[i] < off[j]
  <2>1. i - 1 \in Nat /\ j - 1 \in Nat /\ i - 1 < j - 1
    BY <1>13, <1>19
  <2>2. (i - 1) * P + P <= (j - 1) * P
    BY <2>1, <1>1, ProductGrows
  <2>3. off[i] + P <= off[j] /\ off[i] \in Nat /\ off[j] \in Nat
    BY <2>2, <1>14, <1>15
  <2> QED
    BY <2>3, <1>1
<1>20. ASSUME NEW i \in 1 .. whole
       PROVE  off[i] + P <= size
  <2>1. i - 1 \in Nat /\ i - 1 < whole /\ i \in 1 .. n
    BY <1>13
  <2>2. (i - 1) * P + P <= whole * P
    BY <2>1, <1>1, <1>2, ProductGrows
  <2>3. off[i] + P <= whole * P /\ off[i] \in Nat
    BY <2>1, <2>2, <1>14, <1>15
  <2> QED
    BY <2>3, <1>1, <1>3, <1>4
<1>21. ASSUME NEW x \in 0 .. (size - 1)
       PROVE  \E i \in 1 .. n : x \in UnitsAt(off[i])
  <2> DEFINE q == x \div P
  <2>1. x \in Nat /\ x < size
    OBVIOUS
  <2>2. q \in Nat /\ x % P \in 0 .. (P - 1) /\ x = q * P + (x % P)
    BY <2>1, <1>1, Divided
  <2> HIDE DEF q
  <2>3. q * P \in Nat
    BY <2>2, <1>1
  <2>4. q < n
    <3>1. n <= q => n * P <= q * P
      BY <2>2, <1>1, <1>13, ProductGrows
    <3> QED
      BY <3>1, <2>1, <2>2, <2>3, <1>6, <1>13
  <2>5. q + 1 \in 1 .. n /\ (q + 1) - 1 = q
    BY <2>2, <2>4, <1>13
  <2>6. off[q + 1] = q * P
    BY <2>5, <1>15
  <2>7. x \in off[q + 1] .. (off[q + 1] + P - 1)
    BY <2>2, <2>3, <2>6, <1>1
  <2> QED
    BY <2>5, <2>7 DEF UnitsAt, P
<1>22. whole = size \div P
  BY DEF whole
<1>23. SplitInto(t, base, size, state, n, whole, off)
  <2>1. /\ \A i, j \in 1 .. n : i < j => off[i] < off[j]
        /\ \A i \in 1 .. whole : off[i] + P <= size
        /\ \A x \in 0 .. (size - 1) : \E i \in 1 .. n : x \in UnitsAt(off[i])
    BY <1>19, <1>20, <1>21
  <2> QED
    BY <2>1, <1>11, <1>12, <1>13, <1>14, <1>15, <1>16, <1>17, <1>18, <1>22,
       Zenon DEF SplitInto, P
<1> QED
  BY <1>23 DEF t

\* What a piece of the address space behind a list adds to it.
LEMMA PagesAppended ==
  ASSUME NEW ps, NEW base \in Nat, NEW size \in Nat \ {0}, NEW state,
         NEW t, NEW n, NEW whole, NEW off, NEW qs,
         SplitInto(t, base, size, state, n, whole, off),
         Joined(ps, n, t, qs),
         Listed(ps, base), Covers(ps, base), Ram(ps),
         state = usable =>
           \E k \in DOMAIN regions :
             /\ regions[k].state = usable
             /\ RegionUnits(k) = base .. (base + size - 1)
  PROVE  Listed(qs, base + size) /\ Covers(qs, base + size) /\ Ram(qs)
<1> DEFINE P == PAGE_SIZE_BYTES
           L == Len(ps)
<1>1. P \in Nat \ {0}
  BY Sizes32
<1>12. /\ n \in Nat \ {0} /\ whole \in 0 .. n
       /\ t \in [1 .. n -> PageRec] /\ off \in [1 .. n -> 0 .. (size - 1)]
       /\ \A i \in 1 .. n : t[i].base = base + off[i]
       /\ \A i \in 1 .. n : t[i].state = IF i <= whole THEN state ELSE reserved
       /\ off[1] = 0
       /\ \A i, j \in 1 .. n : i < j => off[i] < off[j]
       /\ \A i \in 1 .. whole : off[i] + P <= size
       /\ \A x \in 0 .. (size - 1) : \E i \in 1 .. n : x \in UnitsAt(off[i])
  BY Zenon DEF SplitInto
<1>3. /\ ps \in Seq(PageRec)
      /\ \A i, j \in DOMAIN ps : i < j => ps[i].base < ps[j].base
      /\ \A i \in DOMAIN ps : ps[i].base < base
      /\ ps # << >> => ps[1].base = 0
  BY DEF Listed
<1>5. /\ qs \in Seq(PageRec)
      /\ L \in Nat /\ Len(qs) = L + n
      /\ DOMAIN ps = 1 .. L /\ DOMAIN qs = 1 .. (L + n)
      /\ \A i \in 1 .. L : qs[i] = ps[i]
      /\ \A i \in 1 .. n : qs[L + i] = t[i]
  BY DEF Joined
<1> HIDE DEF L, P
<1>13. n \in Nat \ {0} /\ whole \in 0 .. n /\ L \in Nat
  BY <1>5, <1>12
<1>14. \A i \in 1 .. n : off[i] \in Nat /\ off[i] < size
  <2>1. off \in [1 .. n -> 0 .. (size - 1)]
    BY <1>12
  <2> QED
    BY <2>1
<1>15. \A i, j \in 1 .. n : i < j => off[i] < off[j]
  BY <1>12
<1>16. \A i \in 1 .. whole : off[i] + P <= size
  BY <1>12
<1>6. \A i \in 1 .. (L + n) : i \notin 1 .. L => \E j \in 1 .. n : i = L + j
  <2> SUFFICES ASSUME NEW i \in 1 .. (L + n), i \notin 1 .. L
               PROVE  i - L \in 1 .. n /\ i = L + (i - L)
    OBVIOUS
  <2> QED
    BY <1>13
<1>7. \A i \in 1 .. n : /\ qs[L + i].base = base + off[i]
                        /\ off[i] \in Nat /\ off[i] < size
                        /\ qs[L + i].state = IF i <= whole THEN state ELSE reserved
  <2> SUFFICES ASSUME NEW i \in 1 .. n
               PROVE  /\ qs[L + i].base = base + off[i]
                      /\ qs[L + i].state = IF i <= whole THEN state ELSE reserved
    BY <1>14
  <2>1. qs[L + i] = t[i]
    BY <1>5
  <2>2. t[i].base = base + off[i] /\ t[i].state = IF i <= whole THEN state ELSE reserved
    BY <1>12
  <2> QED
    BY <2>1, <2>2, Zenon
<1>8. \A i \in 1 .. L : qs[i].base \in Nat /\ qs[i].base < base
  <2> SUFFICES ASSUME NEW i \in 1 .. L
               PROVE  qs[i].base \in Nat /\ qs[i].base < base
    OBVIOUS
  <2>1. i \in DOMAIN ps /\ qs[i] = ps[i]
    BY <1>5
  <2>2. ps[i] \in PageRec
    BY <2>1, <1>3
  <2> QED
    BY <2>1, <2>2, <1>3, Sizes32 DEF PageRec
<1>9. Listed(qs, base + size)
  <2>1. ASSUME NEW i \in DOMAIN qs, NEW j \in DOMAIN qs, i < j
        PROVE  qs[i].base < qs[j].base
    <3>1. CASE j \in 1 .. L
      <4>1. i \in 1 .. L
        BY <2>1, <3>1, <1>5
      <4> QED
        BY <4>1, <3>1, <2>1, <1>3, <1>5
    <3>2. CASE j \notin 1 .. L
      <4>1. PICK b \in 1 .. n : j = L + b
        BY <3>2, <1>5, <1>6
      <4>2. CASE i \in 1 .. L
        <5>1. qs[j].base = base + off[b] /\ off[b] \in Nat
          BY <4>1, <1>7
        <5> QED
          BY <5>1, <4>2, <1>8
      <4>3. CASE i \notin 1 .. L
        <5>1. PICK a \in 1 .. n : i = L + a
          BY <4>3, <1>5, <1>6
        <5>2. a < b
          BY <4>1, <5>1, <2>1, <1>5, <1>12
        <5>3. off[a] < off[b] /\ off[a] \in Nat /\ off[b] \in Nat
          BY <5>2, <1>14, <1>15
        <5>4. qs[i].base = base + off[a] /\ qs[j].base = base + off[b]
          BY <4>1, <5>1, <1>7
        <5> QED
          BY <5>3, <5>4
      <4> QED
        BY <4>2, <4>3
    <3> QED
      BY <3>1, <3>2
  <2>2. ASSUME NEW i \in DOMAIN qs
        PROVE  qs[i].base < base + size
    <3>1. CASE i \in 1 .. L
      BY <3>1, <1>8
    <3>2. CASE i \notin 1 .. L
      <4>1. PICK a \in 1 .. n : i = L + a
        BY <3>2, <1>5, <1>6
      <4>2. qs[i].base = base + off[a] /\ off[a] \in Nat /\ off[a] < size
        BY <4>1, <1>7
      <4> QED
        BY <4>2
    <3> QED
      BY <3>1, <3>2
  <2>3. qs[1].base = 0
    <3>1. CASE L = 0
      <4>1. base = 0
        <5>1. SUFFICES ASSUME base # 0 PROVE FALSE
          OBVIOUS
        <5>2. 0 \in 0 .. (base - 1)
          BY <5>1
        <5>3. \E i \in DOMAIN ps : 0 \in UnitsAt(ps[i].base)
          BY <5>2 DEF Covers
        <5> QED
          BY <5>3, <3>1, <1>5
      <4>2. 1 \in 1 .. n /\ L + 1 = 1
        BY <3>1, <1>12
      <4>3. qs[1].base = base + off[1] /\ off[1] = 0
        BY <4>2, <1>7, <1>12
      <4> QED
        BY <4>1, <4>3
    <3>2. CASE L # 0
      <4>1. 1 \in 1 .. L
        BY <3>2, <1>5
      <4>2. ps # << >>
        BY <4>1, <1>5
      <4> QED
        BY <4>1, <4>2, <1>3, <1>5
    <3> QED
      BY <3>1, <3>2
  <2> QED
    BY <2>1, <2>2, <2>3, <1>5 DEF Listed
<1>10. Covers(qs, base + size)
  <2> SUFFICES ASSUME NEW u \in 0 .. (base + size - 1)
               PROVE  \E i \in DOMAIN qs : u \in UnitsAt(qs[i].base)
    BY DEF Covers
  <2>1. CASE u < base
    <3>1. u \in 0 .. (base - 1)
      BY <2>1
    <3>2. PICK i \in DOMAIN ps : u \in UnitsAt(ps[i].base)
      BY <3>1 DEF Covers
    <3>3. i \in DOMAIN qs /\ qs[i] = ps[i]
      BY <3>2, <1>5, <1>13
    <3> QED
      BY <3>2, <3>3
  <2>2. CASE u >= base
    <3>1. u - base \in 0 .. (size - 1)
      BY <2>2
    <3>2. PICK i \in 1 .. n : u - base \in UnitsAt(off[i])
      BY <3>1, <1>12
    <3>3. qs[L + i].base = base + off[i] /\ off[i] \in Nat /\ L + i \in DOMAIN qs
      BY <1>5, <1>7, <1>13
    <3>4. u \in UnitsAt(qs[L + i].base)
      BY <3>1, <3>2, <3>3, Sizes32 DEF UnitsAt
    <3> QED
      BY <3>3, <3>4
  <2> QED
    BY <2>1, <2>2
<1>11. Ram(qs)
  <2> SUFFICES ASSUME NEW i \in DOMAIN qs, qs[i].state = usable
               PROVE  \E k \in DOMAIN regions :
                        /\ regions[k].state = usable
                        /\ UnitsAt(qs[i].base) \subseteq RegionUnits(k)
    BY DEF Ram
  <2>1. CASE i \in 1 .. L
    <3>1. i \in DOMAIN ps /\ qs[i] = ps[i]
      BY <2>1, <1>5
    <3> QED
      BY <3>1 DEF Ram
  <2>2. CASE i \notin 1 .. L
    <3>1. PICK a \in 1 .. n : i = L + a
      BY <2>2, <1>5, <1>6
    <3>2. /\ qs[i].base = base + off[a] /\ off[a] \in Nat /\ off[a] < size
          /\ qs[i].state = IF a <= whole THEN state ELSE reserved
      BY <3>1, <1>7
    <3>3. a <= whole /\ state = usable
      BY <3>2 DEF usable, reserved
    <3>4. PICK k \in DOMAIN regions :
             /\ regions[k].state = usable
             /\ RegionUnits(k) = base .. (base + size - 1)
      BY <3>3
    <3>5. a \in 1 .. whole
      BY <3>3, <1>12
    <3>6. off[a] + P <= size /\ off[a] \in Nat
      BY <3>5, <3>2, <1>12
    <3>8. UnitsAt(qs[i].base) \subseteq base .. (base + size - 1)
      BY <3>2, <3>6, <1>1 DEF UnitsAt, P
    <3> QED
      BY <3>4, <3>8
  <2> QED
    BY <2>1, <2>2
<1> QED
  BY <1>9, <1>10, <1>11

\* The list when splitRegion has appended such a piece.
Appended(base, size, state, id) ==
  pages \o SplitRegion([base |-> base, size |-> size, state |-> state], id)

\* A list in order stays one when splitRegion appends the piece that follows
\* it: a hole, or a region.
LEMMA ListGrows ==
  ASSUME NEW base \in Nat, NEW size \in Nat \ {0}, base + size <= WORD,
         NEW state \in 1 .. 5, NEW id \in Nat,
         Listed(pages, base), Covers(pages, base), Ram(pages),
         state = usable =>
           \E k \in DOMAIN regions :
             /\ regions[k].state = usable
             /\ RegionUnits(k) = base .. (base + size - 1)
  PROVE  LET qs == Appended(base, size, state, id) IN
         Listed(qs, base + size) /\ Covers(qs, base + size) /\ Ram(qs)
<1> DEFINE e == [base |-> base, size |-> size, state |-> state]
           t == SplitRegion(e, id)
           qs == Appended(base, size, state, id)
<1>1. PICK n, whole, off : SplitInto(t, base, size, state, n, whole, off)
  BY SplitPages
<1> HIDE DEF t
<1>2. n \in Nat /\ t \in [1 .. n -> PageRec]
  BY <1>1 DEF SplitInto
<1>3. pages \in Seq(PageRec)
  BY DEF Listed
<1>4. Joined(pages, n, t, pages \o t)
  BY <1>2, <1>3, Concatenated
<1>5. Joined(pages, n, t, qs)
  BY <1>4 DEF t, Appended
<1> HIDE DEF qs
<1>6. Listed(qs, base + size) /\ Covers(qs, base + size) /\ Ram(qs)
  BY <1>1, <1>5, PagesAppended
<1> QED
  BY <1>6 DEF qs

\* The same of a list that is exact, when the piece is a number of pages, and
\* of the states of its first regions, when the piece is a hole behind them
\* or the next one.
LEMMA ExactGrows ==
  ASSUME NEW base \in Nat, NEW size \in Nat \ {0}, base + size <= WORD,
         NEW state \in 1 .. 5, NEW id \in Nat,
         size % PAGE_SIZE_BYTES = 0,
         Listed(pages, base), Exact(pages, base)
  PROVE  LET qs == Appended(base, size, state, id) IN
         /\ Exact(qs, base + size)
         /\ Len(pages) + (size \div PAGE_SIZE_BYTES) <= ListRoom
         /\ \A i \in DOMAIN qs :
              \/ i \in DOMAIN pages /\ qs[i] = pages[i]
              \/ qs[i].state = state /\ qs[i].base >= base /\ qs[i].base < base + size
<1> DEFINE P == PAGE_SIZE_BYTES
           e == [base |-> base, size |-> size, state |-> state]
           t == SplitRegion(e, id)
           qs == Appended(base, size, state, id)
           L == Len(pages)
<1>1. P \in Nat \ {0}
  BY Sizes32
<1>2. PICK n, whole, off : SplitInto(t, base, size, state, n, whole, off)
  BY SplitPages
<1> HIDE DEF t
<1>3. /\ n \in Nat \ {0} /\ whole = n /\ n = size \div P
      /\ t \in [1 .. n -> PageRec] /\ off \in [1 .. n -> 0 .. (size - 1)]
      /\ \A i \in 1 .. n : t[i].base = base + off[i]
      /\ \A i \in 1 .. n : t[i].state = IF i <= whole THEN state ELSE reserved
      /\ \A i \in 1 .. n : off[i] = (i - 1) * P
  BY <1>2, Zenon DEF SplitInto
<1>4. pages \in Seq(PageRec)
  BY DEF Listed
<1>5. Joined(pages, n, t, pages \o t)
  BY <1>3, <1>4, Concatenated
<1>6. /\ L \in Nat /\ Len(qs) = L + n
      /\ DOMAIN pages = 1 .. L /\ DOMAIN qs = 1 .. (L + n)
      /\ \A i \in 1 .. L : qs[i] = pages[i]
      /\ \A i \in 1 .. n : qs[L + i] = t[i]
  BY <1>5 DEF Joined, t, Appended
<1> HIDE DEF qs
<1>7. /\ L * P = base
      /\ \A i \in DOMAIN pages : pages[i].base = (i - 1) * P
  BY DEF Exact
<1> HIDE DEF P, L
<1>8. n * P = size
  BY <1>1, <1>3, Multiple DEF P
<1>9. (L + n) * P = base + size
  <2>1. (L + n) * P = L * P + n * P
    BY <1>1, <1>3, <1>6
  <2> QED
    BY <2>1, <1>7, <1>8
<1>10. ASSUME NEW i \in 1 .. (L + n), i \notin 1 .. L
       PROVE  /\ qs[i].base = (i - 1) * P /\ qs[i].state = state
              /\ qs[i].base >= base /\ qs[i].base < base + size
  <2>1. i - L \in 1 .. n /\ i = L + (i - L)
    BY <1>3, <1>6, <1>10
  <2>2. PICK a \in 1 .. n : i = L + a
    BY <2>1
  <2>3. qs[i] = t[a]
    BY <2>2, <1>6
  <2>4. a <= whole
    BY <1>3
  <2>5. /\ t[a].base = base + off[a] /\ t[a].state = state
        /\ off[a] = (a - 1) * P
    BY <2>4, <1>3
  <2>6. off[a] \in 0 .. (size - 1)
    BY <1>3
  <2>7. (i - 1) * P = L * P + (a - 1) * P
    BY <2>2, <1>1, <1>3, <1>6
  <2>8. (i - 1) * P = base + off[a]
    BY <2>5, <2>7, <1>7
  <2>9. PICK x \in Nat : x = off[a] /\ x < size
    BY <2>6
  <2>10. qs[i].base = base + x /\ qs[i].state = state
    BY <2>3, <2>5, <2>9, Zenon
  <2>11. base + x >= base /\ base + x < base + size
    BY <2>9
  <2>12. (i - 1) * P = base + x
    BY <2>8, <2>9, Zenon
  <2> QED
    BY <2>10, <2>11, <2>12, Zenon
<1>11. \A i \in DOMAIN qs : qs[i].base = (i - 1) * P
  <2> SUFFICES ASSUME NEW i \in 1 .. (L + n) PROVE qs[i].base = (i - 1) * P
    BY <1>6
  <2>1. CASE i \in 1 .. L
    BY <2>1, <1>6, <1>7
  <2> QED
    BY <2>1, <1>10
<1>12. Exact(qs, base + size)
  BY <1>6, <1>9, <1>11 DEF Exact, P
<1>13. L + n <= ListRoom
  <2>1. L + n \in Nat /\ ListRoom \in Nat
    BY <1>3, <1>6, RoomAssumption
  <2>2. (L + n) * P <= ListRoom * P
    <3>1. ListRoom * P >= WORD /\ ListRoom * P \in Nat
      BY <1>1, RoomAssumption DEF P
    <3> QED
      BY <3>1, <1>9, Sizes32
  <2> QED
    BY <2>1, <2>2, <1>1, ProductGrows
<1>14. \A i \in DOMAIN qs :
         \/ i \in DOMAIN pages /\ qs[i] = pages[i]
         \/ qs[i].state = state /\ qs[i].base >= base /\ qs[i].base < base + size
  <2> SUFFICES ASSUME NEW i \in 1 .. (L + n)
               PROVE  \/ i \in DOMAIN pages /\ qs[i] = pages[i]
                      \/ /\ qs[i].state = state
                         /\ qs[i].base >= base /\ qs[i].base < base + size
    BY <1>6
  <2>1. CASE i \in 1 .. L
    BY <2>1, <1>6
  <2> QED
    BY <2>1, <1>10
<1>15. Len(pages) + (size \div PAGE_SIZE_BYTES) <= ListRoom
  BY <1>3, <1>13 DEF P, L
<1> QED
  BY <1>12, <1>14, <1>15 DEF qs

-----------------------------------------------------------------------------
(* The inductive invariant *)

\* The loader has read the map.
Found == status \notin {"discover", "bootFailure"}

\* The constructor has what it appended to the list.
Following == Found /\ status # "runaway"

TypeInv ==
  /\ status \in {"discover", "build", "test", "reserve", "point", "ready"} \union Stopped
  /\ entryWords \in {5, 6}
  /\ regions \in Seq(Region)
  /\ table \in Seq(Int)
  /\ memRegionsCount \in Nat
  /\ status # "bootFailure" => memRegionsCount = Len(regions)
  /\ Found => Len(regions) >= 1

\* Descriptors of five words are read as the regions the BIOS reported.
TableRead ==
  entryWords = 5 =>
    /\ Len(table) = 5 * Len(regions)
    /\ \A k \in DOMAIN regions : Entry(k - 1) = regions[k]

NotYet ==
  ~Found => bootMemRegionsCount = 0 /\ prevRegionEndAddr = 0 /\ pages = << >>

\* Where the constructor is in the map, and the list so far.
ListSound ==
  (InOrder /\ Following) =>
    /\ bootMemRegionsCount \in 0 .. Len(regions)
    /\ status = "build" => bootMemRegionsCount < Len(regions)
    /\ prevRegionEndAddr \in 0 .. WORD
    /\ \A k \in 1 .. bootMemRegionsCount : RegionEnd(regions[k]) <= prevRegionEndAddr
    /\ bootMemRegionsCount < Len(regions) =>
         prevRegionEndAddr <= regions[bootMemRegionsCount + 1].base
    /\ status # "build" =>
         bootMemRegionsCount = Len(regions) /\ prevRegionEndAddr = LastEnd
    /\ Listed(pages, prevRegionEndAddr)
    /\ Covers(pages, prevRegionEndAddr)
    /\ Ram(pages)

\* No usable region is more than the kernel takes.
KernelTakesAll ==
  \A k \in DOMAIN regions : regions[k].state = usable =>
    regions[k].size <= KERNEL_MEMORY_REGION_SIZE_BYTES

\* What holds of a map of pages besides.
AlignedSound ==
  (InOrder /\ Aligned /\ Found) =>
    /\ status \notin {"runaway", "panicked"}
    /\ Exact(pages, prevRegionEndAddr)
    /\ status \in {"build", "test", "reserve"} =>
         StatesKept(pages, bootMemRegionsCount)
    /\ status = "point" =>
         KernelTakesAll \/ \E i \in DOMAIN pages : pages[i].state = usable
    /\ status = "wild" => KernelTakesAll
    /\ status = "hung" => LastEnd < TestedBytes

MInv == TypeInv /\ TableRead /\ NotYet /\ ListSound /\ AlignedSound

\* A number in two words.
LEMMA TwoWords ==
  ASSUME NEW x \in Nat
  PROVE  /\ x % WORD \in Int /\ x \div WORD \in Int
         /\ (x % WORD) + WORD * (x \div WORD) = x
<1>1. WORD \in Nat \ {0}
  BY Sizes32
<1>2. x \div WORD \in Nat /\ x % WORD \in 0 .. (WORD - 1) /\ x = (x \div WORD) * WORD + (x % WORD)
  BY <1>1, Divided
<1> QED
  BY <1>1, <1>2

\* Numbers below the square of a word do not wrap in 64 bits.
LEMMA NoWrap ==
  ASSUME NEW x \in Nat, x <= WORD
  PROVE  x % (WORD * WORD) = x
<1>1. WORD * WORD \in Nat \ {0} /\ x < WORD * WORD
  BY Sizes32
<1>2. PICK d \in Nat \ {0} : d = WORD * WORD
  BY <1>1
<1>3. x \in 0 .. (d - 1)
  BY <1>1, <1>2
<1>4. x % d = x
  BY <1>3, SmallRest
<1> QED
  BY <1>2, <1>4

\* The regions the BIOS may report next are regions.
LEMMA NextRegionType ==
  ASSUME regions \in Seq(Region), NEW r \in NextRegions
  PROVE  r \in Region
<1>1. LastEnd \in Int
  <2>1. CASE regions = << >>
    BY <2>1 DEF LastEnd
  <2>2. CASE regions # << >>
    <3>1. Len(regions) \in 1 .. Len(regions)
      BY <2>2
    <3>2. regions[Len(regions)] \in Region
      BY <3>1
    <3> QED
      BY <2>2, <3>2 DEF LastEnd, RegionEnd, Region
  <2> QED
    BY <2>1, <2>2
<1>2. PICK g \in Gaps, z \in Sizes, st \in States :
         r = [base |-> LastEnd + g, size |-> z, state |-> st] /\ r.base >= 0
  BY DEF NextRegions
<1>3. LastEnd + g \in Int /\ z \in Nat /\ st \in 1 .. 5
  BY <1>1, BiosAssumption
<1>4. LastEnd + g \in Nat
  BY <1>2, <1>3
<1> QED
  BY <1>2, <1>3, <1>4 DEF Region

\* The last region's end.
LEMMA LastEndIs ==
  ASSUME regions \in Seq(Region), Len(regions) >= 1
  PROVE  /\ LastEnd = RegionEnd(regions[Len(regions)])
         /\ Len(regions) \in DOMAIN regions
         /\ LastEnd \in Nat
<1>1. regions # << >> /\ Len(regions) \in DOMAIN regions
  OBVIOUS
<1>2. regions[Len(regions)] \in Region
  BY <1>1
<1> QED
  BY <1>1, <1>2 DEF LastEnd, RegionEnd, Region

\* The descriptor the constructor is at, on a map in order.
LEMMA AtRegion ==
  ASSUME TypeInv, TableRead, InOrder, NEW k \in Nat, k < Len(regions)
  PROVE  /\ k + 1 \in DOMAIN regions /\ Entry(k) = regions[k + 1]
         /\ regions[k + 1] \in Region /\ regions[k + 1].size # 0
         /\ RegionEnd(regions[k + 1]) <= WORD
         /\ k + 1 < Len(regions) =>
              RegionEnd(regions[k + 1]) <= regions[k + 1 + 1].base
<1>1. regions \in Seq(Region)
  BY DEF TypeInv
<1>2. k + 1 \in DOMAIN regions /\ (k + 1) - 1 = k
  BY <1>1
<1>3. Entry(k) = regions[k + 1]
  BY <1>2 DEF TableRead, InOrder
<1>4. regions[k + 1] \in Region
  BY <1>1, <1>2
<1>5. regions[k + 1].size # 0 /\ RegionEnd(regions[k + 1]) <= WORD
  BY <1>2 DEF InOrder
<1>6. ASSUME k + 1 < Len(regions)
      PROVE  RegionEnd(regions[k + 1]) <= regions[k + 1 + 1].base
  <2>1. k + 1 + 1 \in DOMAIN regions /\ k + 1 + 1 > 1 /\ (k + 1 + 1) - 1 = k + 1
    BY <1>1, <1>6
  <2>2. regions[k + 1 + 1].base >= RegionEnd(regions[k + 1])
    BY <2>1 DEF InOrder
  <2>3. k + 1 + 1 \in 1 .. Len(regions)
    BY <1>1, <1>6
  <2>4. regions[k + 1 + 1] \in Region
    BY <2>3, <1>1
  <2> QED
    BY <2>2, <2>4, <1>4 DEF RegionEnd, Region
<1> QED
  BY <1>2, <1>3, <1>4, <1>5, <1>6

\* Before the BIOS is called there is no region and no page.
LEMMA InitMInv == Init => MInv
<1> SUFFICES ASSUME Init PROVE MInv
  OBVIOUS
<1>1. TypeInv
  BY EntryWordsAssumption DEF Init, TypeInv, Found, Stopped
<1>2. TableRead
  BY DEF Init, TableRead
<1>3. NotYet
  BY DEF Init, NotYet
<1>4. ~Found
  BY DEF Init, Found
<1> QED
  BY <1>1, <1>2, <1>3, <1>4 DEF MInv, ListSound, AlignedSound, Following

-----------------------------------------------------------------------------
(* The early loader keeps the invariant *)

\* The table with one more descriptor.
LEMMA DescriptorRead ==
  ASSUME TypeInv, TableRead, entryWords = 5, NEW r \in Region,
         regions' = Append(regions, r), table' = table \o Descriptor(r)
  PROVE  /\ Len(table') = 5 * Len(regions')
         /\ \A k \in DOMAIN regions' : Entry(k - 1)' = regions'[k]
<1> DEFINE five == <<r.base % WORD, r.base \div WORD,
                     r.size % WORD, r.size \div WORD, r.state>>
<1>1. regions \in Seq(Region) /\ table \in Seq(Int)
  BY DEF TypeInv
<1>17. PICK L \in Nat : L = Len(regions)
  BY <1>1
<1>2. L = Len(regions) /\ Len(table) = 5 * L /\ DOMAIN regions = 1 .. L
  BY <1>1, <1>17 DEF TableRead
<1>3. r.base \in Nat /\ r.size \in Nat /\ r.state \in Nat
  BY DEF Region
<1>4. /\ r.base % WORD \in Int /\ r.base \div WORD \in Int
      /\ (r.base % WORD) + WORD * (r.base \div WORD) = r.base
  BY <1>3, TwoWords
<1>5. /\ r.size % WORD \in Int /\ r.size \div WORD \in Int
      /\ (r.size % WORD) + WORD * (r.size \div WORD) = r.size
  BY <1>3, TwoWords
<1>6. Descriptor(r) = five
  BY DEF Descriptor
<1>7. five \in Seq(Int) /\ Len(five) = 5
  BY <1>3, <1>4, <1>5
<1>8. /\ five[1] = r.base % WORD /\ five[2] = r.base \div WORD
      /\ five[3] = r.size % WORD /\ five[4] = r.size \div WORD
      /\ five[5] = r.state
  OBVIOUS
<1> HIDE DEF five
<1>9. table' = table \o five
  BY <1>6
<1>10. /\ Len(table') = 5 * L + 5
       /\ \A i \in 1 .. (5 * L) : table'[i] = table[i]
       /\ \A i \in 1 .. 5 : table'[5 * L + i] = five[i]
  <2>1. \A s, u \in Seq(Int) :
          /\ Len(s \o u) = Len(s) + Len(u)
          /\ \A i \in 1 .. Len(s) : (s \o u)[i] = s[i]
          /\ \A i \in 1 .. Len(u) : (s \o u)[Len(s) + i] = u[i]
    <3> SUFFICES ASSUME NEW s \in Seq(Int), NEW u \in Seq(Int), NEW i \in 1 .. Len(u)
                 PROVE  Len(s) + i \in (Len(s) + 1) .. (Len(s) + Len(u))
      OBVIOUS
    <3> QED
      OBVIOUS
  <2>2. /\ Len(table \o five) = Len(table) + 5
        /\ \A i \in 1 .. Len(table) : (table \o five)[i] = table[i]
        /\ \A i \in 1 .. 5 : (table \o five)[Len(table) + i] = five[i]
    <3>1. /\ Len(table \o five) = Len(table) + Len(five)
          /\ \A i \in 1 .. Len(table) : (table \o five)[i] = table[i]
          /\ \A i \in 1 .. Len(five) : (table \o five)[Len(table) + i] = five[i]
      BY <2>1, <1>1, <1>7, Zenon
    <3> QED
      BY <3>1, <1>7, Zenon
  <2> QED
    BY <2>2, <1>2, <1>9, Zenon
<1>11. /\ Len(regions') = L + 1 /\ DOMAIN regions' = 1 .. (L + 1)
       /\ \A k \in 1 .. L : regions'[k] = regions[k]
       /\ regions'[L + 1] = r
  BY <1>1, <1>2
<1>12. r = [base |-> r.base, size |-> r.size, state |-> r.state]
  BY DEF Region
<1>13. ASSUME NEW k \in 1 .. L
       PROVE  Entry(k - 1)' = regions'[k]
  <2> DEFINE j == 5 * (k - 1)
  <2>1. /\ j + 1 \in 1 .. (5 * L) /\ j + 1 + 1 \in 1 .. (5 * L)
        /\ j + 2 + 1 \in 1 .. (5 * L) /\ j + 2 + 1 + 1 \in 1 .. (5 * L)
        /\ j + 4 + 1 \in 1 .. (5 * L)
    BY <1>2
  <2> HIDE DEF j
  <2>2. /\ table'[j + 1] = table[j + 1] /\ table'[j + 1 + 1] = table[j + 1 + 1]
        /\ table'[j + 2 + 1] = table[j + 2 + 1]
        /\ table'[j + 2 + 1 + 1] = table[j + 2 + 1 + 1]
        /\ table'[j + 4 + 1] = table[j + 4 + 1]
    BY <2>1, <1>10
  <2>3. Entry(k - 1)' = Entry(k - 1)
    BY <2>2, Zenon DEF Entry, Word64, Word, j
  <2>4. Entry(k - 1) = regions[k]
    BY <1>2 DEF TableRead
  <2> QED
    BY <2>3, <2>4, <1>11
<1>14. Entry((L + 1) - 1)' = regions'[L + 1]
  <2>1. /\ 5 * ((L + 1) - 1) + 1 = 5 * L + 1
        /\ 5 * ((L + 1) - 1) + 1 + 1 = 5 * L + 2
        /\ 5 * ((L + 1) - 1) + 2 + 1 = 5 * L + 3
        /\ 5 * ((L + 1) - 1) + 2 + 1 + 1 = 5 * L + 4
        /\ 5 * ((L + 1) - 1) + 4 + 1 = 5 * L + 5
    BY <1>2
  <2>2. /\ table'[5 * L + 1] = r.base % WORD /\ table'[5 * L + 2] = r.base \div WORD
        /\ table'[5 * L + 3] = r.size % WORD /\ table'[5 * L + 4] = r.size \div WORD
        /\ table'[5 * L + 5] = r.state
    <3>1. 1 \in 1 .. 5 /\ 2 \in 1 .. 5 /\ 3 \in 1 .. 5 /\ 4 \in 1 .. 5 /\ 5 \in 1 .. 5
      OBVIOUS
    <3> QED
      BY <3>1, <1>8, <1>10, Zenon
  <2>3. Entry((L + 1) - 1)' =
          [base |-> (r.base % WORD) + WORD * (r.base \div WORD),
           size |-> (r.size % WORD) + WORD * (r.size \div WORD),
           state |-> r.state]
    BY <2>1, <2>2, Zenon DEF Entry, Word64, Word
  <2> QED
    BY <2>3, <1>4, <1>5, <1>11, <1>12, Zenon
<1>15. ASSUME NEW k \in DOMAIN regions'
       PROVE  Entry(k - 1)' = regions'[k]
  <2>1. k \in 1 .. L \/ k = L + 1
    BY <1>2, <1>11
  <2>2. CASE k \in 1 .. L
    BY <2>2, <1>13
  <2>3. CASE k = L + 1
    BY <2>3, <1>14
  <2> QED
    BY <2>1, <2>2, <2>3
<1>16. Len(table') = 5 * Len(regions')
  BY <1>2, <1>10, <1>11
<1> QED
  BY <1>15, <1>16

\* A descriptor of either length is words.
LEMMA DescriptorType ==
  ASSUME NEW r \in Region, entryWords \in {5, 6}
  PROVE  Descriptor(r) \in Seq(Int)
<1> DEFINE five == <<r.base % WORD, r.base \div WORD,
                     r.size % WORD, r.size \div WORD, r.state>>
<1>1. r.base \in Nat /\ r.size \in Nat /\ r.state \in Nat
  BY DEF Region
<1>2. /\ r.base % WORD \in Int /\ r.base \div WORD \in Int
      /\ r.size % WORD \in Int /\ r.size \div WORD \in Int
  BY <1>1, TwoWords
<1>3. five \in Seq(Int)
  BY <1>1, <1>2
<1> HIDE DEF five
<1>4. Append(five, 1) \in Seq(Int)
  BY <1>3
<1>5. Descriptor(r) = IF entryWords = 6 THEN Append(five, 1) ELSE five
  BY Zenon DEF Descriptor, five
<1> QED
  BY <1>3, <1>4, <1>5

\* At the start of the constructor's loop.
LEMMA StartsSound ==
  /\ Listed(<< >>, 0) /\ Covers(<< >>, 0) /\ Ram(<< >>) /\ Exact(<< >>, 0)
  /\ StatesKept(<< >>, 0)
<1>1. << >> \in Seq(PageRec) /\ DOMAIN << >> = {} /\ Len(<< >>) = 0
  OBVIOUS
<1>2. 0 * PAGE_SIZE_BYTES = 0
  BY Sizes32
<1>3. 0 .. (0 - 1) = {} /\ 1 .. 0 = {}
  OBVIOUS
<1>4. Listed(<< >>, 0) /\ Ram(<< >>)
  BY <1>1 DEF Listed, Ram
<1>5. Covers(<< >>, 0) /\ StatesKept(<< >>, 0)
  BY <1>1, <1>3 DEF Covers, StatesKept
<1>6. Exact(<< >>, 0)
  BY <1>1, <1>2, Zenon DEF Exact
<1> QED
  BY <1>4, <1>5, <1>6

\* int 15h reports one region more, and the constructor has not begun.
LEMMA NextEntryKeeps ==
  ASSUME MInv, NextEntry
  PROVE  MInv'
<1>1. /\ status = "discover" /\ memRegionsCount' = memRegionsCount + 1
      /\ UNCHANGED <<entryWords, bootMemRegionsCount, prevRegionEndAddr, pages, freePagePtr>>
  BY DEF NextEntry, listVars
<1>2. TypeInv /\ TableRead /\ NotYet
  BY DEF MInv
<1>3. /\ regions \in Seq(Region) /\ table \in Seq(Int) /\ entryWords \in {5, 6}
      /\ memRegionsCount = Len(regions) /\ Len(regions) \in Nat
  BY <1>1, <1>2 DEF TypeInv
<1>4. bootMemRegionsCount = 0 /\ prevRegionEndAddr = 0 /\ pages = << >>
  BY <1>1, <1>2 DEF NotYet, Found
<1>5. \/ \E r \in NextRegions, more \in BOOLEAN : Discovered(r, more)
      \/ status' = "bootFailure" /\ regions' = regions /\ table' = table
  BY DEF NextEntry
<1>6. CASE status' = "bootFailure" /\ regions' = regions /\ table' = table
  <2>1. TypeInv'
    BY <1>1, <1>3, <1>6 DEF TypeInv, Found, Stopped
  <2>2. TableRead'
    BY <1>1, <1>2, <1>6 DEF TableRead, Entry, Word64, Word
  <2>3. NotYet'
    BY <1>1, <1>4 DEF NotYet
  <2>4. ~ Found'
    BY <1>6 DEF Found
  <2> QED
    BY <2>1, <2>2, <2>3, <2>4 DEF MInv, ListSound, AlignedSound, Following
<1>7. ASSUME NEW r \in NextRegions, NEW more \in BOOLEAN, Discovered(r, more)
      PROVE  MInv'
  <2>1. r \in Region
    BY <1>3, NextRegionType
  <2>2. /\ regions' = Append(regions, r) /\ table' = table \o Descriptor(r)
        /\ status' \in {"discover", "build"}
    BY <1>7 DEF Discovered
  <2>3. /\ regions' \in Seq(Region) /\ Len(regions') = Len(regions) + 1
        /\ DOMAIN regions' = 1 .. (Len(regions) + 1)
    BY <1>3, <2>1, <2>2
  <2>4. table' \in Seq(Int)
    <3>1. Descriptor(r) \in Seq(Int)
      BY <1>3, <2>1, DescriptorType
    <3> QED
      BY <3>1, <1>3, <2>2
  <2>5. TypeInv'
    BY <1>1, <1>3, <2>2, <2>3, <2>4 DEF TypeInv, Found, Stopped
  <2>6. TableRead'
    <3>1. SUFFICES ASSUME entryWords = 5
                   PROVE  /\ Len(table') = 5 * Len(regions')
                          /\ \A k \in DOMAIN regions' : Entry(k - 1)' = regions'[k]
      BY <1>1 DEF TableRead
    <3> QED
      BY <3>1, <1>2, <2>1, <2>2, DescriptorRead
  <2>7. NotYet'
    BY <1>1, <1>4 DEF NotYet
  <2>8. ListSound'
    <3>1. SUFFICES ASSUME Found' PROVE ListSound'
      BY DEF ListSound, Following
    <3>2. status' = "build"
      BY <2>2, <3>1 DEF Found
    <3>3. 1 \in DOMAIN regions' /\ regions'[1] \in Region
      BY <1>3, <2>3
    <3>4. regions'[0 + 1].base >= 0 /\ 0 \in 0 .. WORD
      BY <3>3, Sizes32 DEF Region
    <3>5. 0 \in 0 .. Len(regions') /\ 0 < Len(regions') /\ 1 .. 0 = {}
      BY <1>3, <2>3
    <3>6. bootMemRegionsCount' = 0 /\ prevRegionEndAddr' = 0 /\ pages' = << >>
      BY <1>1, <1>4
    <3>7. Listed(pages', prevRegionEndAddr') /\ Covers(pages', prevRegionEndAddr')
      BY <3>6, StartsSound
    <3>8. Ram(pages)'
      BY <3>6 DEF Ram
    <3> QED
      BY <3>2, <3>4, <3>5, <3>6, <3>7, <3>8 DEF ListSound
  <2>9. AlignedSound'
    <3>1. SUFFICES ASSUME Found' PROVE AlignedSound'
      BY DEF AlignedSound
    <3>2. status' = "build"
      BY <2>2, <3>1 DEF Found
    <3>3. bootMemRegionsCount' = 0 /\ prevRegionEndAddr' = 0 /\ pages' = << >>
      BY <1>1, <1>4
    <3>4. Exact(pages', prevRegionEndAddr')
      BY <3>3, StartsSound
    <3>5. StatesKept(pages, bootMemRegionsCount)'
      <4>1. 1 .. 0 = {}
        OBVIOUS
      <4> QED
        BY <4>1, <3>3 DEF StatesKept
    <3> QED
      BY <3>2, <3>4, <3>5 DEF AlignedSound
  <2> QED
    BY <2>5, <2>6, <2>7, <2>8, <2>9 DEF MInv
<1> QED
  BY <1>5, <1>6, <1>7

-----------------------------------------------------------------------------
(* The constructor keeps the invariant *)

\* What the loader left does not change any more.
LEMMA LoaderDone ==
  ASSUME MInv, Found, UNCHANGED loaderVars,
         status' \in {"build", "test", "reserve", "point", "ready", "runaway",
                      "wild", "panicked", "hung", "booted"}
  PROVE  /\ TypeInv' /\ TableRead' /\ NotYet' /\ Found'
         /\ InOrder' <=> InOrder
         /\ Aligned' <=> Aligned
         /\ LastEnd' = LastEnd
         /\ KernelTakesAll' <=> KernelTakesAll
<1>1. UNCHANGED <<entryWords, regions, table, memRegionsCount>>
  BY DEF loaderVars
<1>2. TypeInv /\ TableRead
  BY DEF MInv
<1>3. Found'
  BY DEF Found
<1>4. TypeInv'
  BY <1>1, <1>2, <1>3 DEF TypeInv, Stopped, Found
<1>5. TableRead'
  BY <1>1, <1>2 DEF TableRead, Entry, Word64, Word
<1>6. InOrder' <=> InOrder
  BY <1>1 DEF InOrder, RegionEnd
<1>7. Aligned' <=> Aligned
  BY <1>1 DEF Aligned
<1>8. LastEnd' = LastEnd
  BY <1>1 DEF LastEnd, RegionEnd
<1>9. KernelTakesAll' <=> KernelTakesAll
  BY <1>1 DEF KernelTakesAll
<1> QED
  BY <1>3, <1>4, <1>5, <1>6, <1>7, <1>8, <1>9 DEF NotYet

\* Where the constructor is on a map in order.
LEMMA AtBuild ==
  ASSUME MInv, InOrder, status = "build"
  PROVE  \E k \in Nat, P \in Nat, base \in Nat, size \in Nat \ {0}, state \in 1 .. 5 :
           /\ bootMemRegionsCount = k /\ prevRegionEndAddr = P
           /\ k < Len(regions) /\ k + 1 \in DOMAIN regions
           /\ regions[k + 1] = [base |-> base, size |-> size, state |-> state]
           /\ Entry(k) = [base |-> base, size |-> size, state |-> state]
           /\ P <= base /\ base + size <= WORD
           /\ \A j \in 1 .. k : RegionEnd(regions[j]) <= P
           /\ k + 1 < Len(regions) => base + size <= regions[k + 1 + 1].base
           /\ k + 1 = Len(regions) => base + size = LastEnd
           /\ Listed(pages, P) /\ Covers(pages, P) /\ Ram(pages)
<1>1. TypeInv /\ TableRead
  BY DEF MInv
<1>2. /\ bootMemRegionsCount \in 0 .. Len(regions)
      /\ bootMemRegionsCount < Len(regions)
      /\ prevRegionEndAddr \in 0 .. WORD
      /\ \A k \in 1 .. bootMemRegionsCount : RegionEnd(regions[k]) <= prevRegionEndAddr
      /\ prevRegionEndAddr <= regions[bootMemRegionsCount + 1].base
      /\ Listed(pages, prevRegionEndAddr)
      /\ Covers(pages, prevRegionEndAddr)
      /\ Ram(pages)
  BY DEF MInv, ListSound, Following, Found
<1>3. regions \in Seq(Region) /\ Len(regions) \in Nat /\ Len(regions) >= 1
  BY <1>1 DEF TypeInv, Found
<1>4. PICK k \in Nat, P \in Nat : bootMemRegionsCount = k /\ prevRegionEndAddr = P
  BY <1>2, <1>3, Sizes32
<1>5. k < Len(regions)
  BY <1>2, <1>4
<1>6. /\ k + 1 \in DOMAIN regions /\ Entry(k) = regions[k + 1]
      /\ regions[k + 1] \in Region /\ regions[k + 1].size # 0
      /\ RegionEnd(regions[k + 1]) <= WORD
      /\ k + 1 < Len(regions) => RegionEnd(regions[k + 1]) <= regions[k + 1 + 1].base
  BY <1>1, <1>5, AtRegion
<1>7. PICK base \in Nat, size \in Nat, state \in 1 .. 5 :
         regions[k + 1] = [base |-> base, size |-> size, state |-> state]
  BY <1>6 DEF Region
<1>8. regions[k + 1].base = base /\ regions[k + 1].size = size
  BY <1>7
<1>9. RegionEnd(regions[k + 1]) = base + size
  BY <1>8 DEF RegionEnd
<1>10. k + 1 = Len(regions) => base + size = LastEnd
  BY <1>3, <1>9, LastEndIs
<1>11. size # 0 /\ P <= base /\ \A j \in 1 .. k : RegionEnd(regions[j]) <= P
  BY <1>2, <1>4, <1>6, <1>8
<1>12. size \in Nat \ {0}
  BY <1>11
<1>13. Entry(k) = [base |-> base, size |-> size, state |-> state]
  BY <1>6, <1>7
<1>14. /\ base + size <= WORD
       /\ k + 1 < Len(regions) => base + size <= regions[k + 1 + 1].base
  BY <1>6, <1>9
<1>15. Listed(pages, P) /\ Covers(pages, P) /\ Ram(pages)
  BY <1>2, <1>4
<1> QED
  BY <1>4, <1>5, <1>6, <1>7, <1>10, <1>11, <1>12, <1>13, <1>14, <1>15, Zenon

\* The hole before a region of a map in order is the piece that follows the
\* list; the region then starts where the list ends.
LEMMA MarkHoleKeeps ==
  ASSUME MInv, InOrder, status = "build", UNCHANGED <<loaderVars, freePagePtr>>,
         MarkHole(Entry(bootMemRegionsCount)),
         prevRegionEndAddr # Entry(bootMemRegionsCount).base
  PROVE  MInv'
<1>1. PICK k \in Nat, P \in Nat, base \in Nat, size \in Nat \ {0}, state \in 1 .. 5 :
           /\ bootMemRegionsCount = k /\ prevRegionEndAddr = P
           /\ k < Len(regions) /\ k + 1 \in DOMAIN regions
           /\ regions[k + 1] = [base |-> base, size |-> size, state |-> state]
           /\ Entry(k) = [base |-> base, size |-> size, state |-> state]
           /\ P <= base /\ base + size <= WORD
           /\ \A j \in 1 .. k : RegionEnd(regions[j]) <= P
           /\ k + 1 < Len(regions) => base + size <= regions[k + 1 + 1].base
           /\ k + 1 = Len(regions) => base + size = LastEnd
           /\ Listed(pages, P) /\ Covers(pages, P) /\ Ram(pages)
  BY AtBuild
<1>2. UNCHANGED <<entryWords, regions, table, memRegionsCount>>
  BY DEF loaderVars
<1>3. Entry(bootMemRegionsCount).base = base /\ P # base
  BY <1>1
<1>4. base - P \in Nat \ {0} /\ base - P <= WORD /\ P + (base - P) = base /\ base <= WORD
      /\ base \in 0 .. WORD
  BY <1>1, <1>3, Sizes32
<1>15. PICK s \in Nat \ {0} : s = base - P
  BY <1>4
<1>16. P + s = base /\ s <= WORD /\ P + s <= WORD
  BY <1>4, <1>15
<1>5. (base - P) % (WORD * WORD) = base - P
  BY <1>4, NoWrap
<1> DEFINE hole == [base |-> P, size |-> s, state |-> reserved]
           qs == Appended(P, s, reserved, k)
<1>6. /\ AppendPages(hole, FALSE)
      /\ prevRegionEndAddr' = Add64(P, s)
      /\ bootMemRegionsCount' = bootMemRegionsCount
  BY <1>1, <1>3, <1>5, <1>15 DEF MarkHole
<1>7. prevRegionEndAddr' = base
  <2>1. base % (WORD * WORD) = base
    BY <1>4, NoWrap
  <2> QED
    BY <1>16, <1>6, <2>1 DEF Add64
<1>8. \/ /\ Len(pages) + ((s) \div PAGE_SIZE_BYTES) > ListRoom
         /\ status' = "runaway"
      \/ status' = "build" /\ pages' = qs
  BY <1>1, <1>6 DEF AppendPages, Appended
<1>9. reserved \in 1 .. 5 /\ reserved # usable
  BY DEF reserved, usable
<1>10. Listed(qs, base) /\ Covers(qs, base) /\ Ram(qs)
  <2>1. Listed(qs, P + s) /\ Covers(qs, P + s) /\ Ram(qs)
    BY <1>1, <1>9, <1>16, ListGrows
  <2> QED
    BY <2>1, <1>16
<1> HIDE DEF qs, hole
<1>11. Found /\ status' \in {"build", "runaway"}
  BY <1>8 DEF Found
<1>12. /\ TypeInv' /\ TableRead' /\ NotYet' /\ Found'
       /\ InOrder' <=> InOrder
       /\ Aligned' <=> Aligned
  BY <1>11, LoaderDone
<1>13. ListSound'
  <2>1. SUFFICES ASSUME status' # "runaway" PROVE ListSound'
    BY DEF ListSound, Following
  <2>2. status' = "build" /\ pages' = qs
    BY <1>8, <2>1
  <2>3. bootMemRegionsCount' = k /\ prevRegionEndAddr' = base
    BY <1>1, <1>6, <1>7
  <2>4. Listed(pages', base) /\ Covers(pages', base)
    BY <1>10, <2>2
  <2>5. Ram(pages)'
    BY <1>2, <1>10, <2>2 DEF Ram, RegionUnits, RegionEnd
  <2>6. \A j \in 1 .. k : RegionEnd(regions'[j]) <= base
    <3> SUFFICES ASSUME NEW j \in 1 .. k PROVE RegionEnd(regions[j]) <= base
      BY <1>2
    <3>1. RegionEnd(regions[j]) <= P
      BY <1>1
    <3>2. regions \in Seq(Region)
      BY DEF MInv, TypeInv
    <3>3. j \in 1 .. Len(regions)
      BY <1>1, <3>2
    <3>4. regions[j] \in Region
      BY <3>2, <3>3
    <3>5. RegionEnd(regions[j]) \in Nat
      BY <3>4 DEF RegionEnd, Region
    <3> QED
      BY <1>1, <3>1, <3>5
  <2>7. k \in 0 .. Len(regions') /\ k < Len(regions')
    BY <1>1, <1>2
  <2>8. base <= regions'[k + 1].base
    BY <1>1, <1>2
  <2> QED
    BY <1>4, <2>2, <2>3, <2>4, <2>5, <2>6, <2>7, <2>8 DEF ListSound
<1>14. AlignedSound'
  <2>1. SUFFICES ASSUME Aligned
                 PROVE  /\ status' = "build" /\ Exact(pages', prevRegionEndAddr')
                        /\ StatesKept(pages, bootMemRegionsCount)'
    BY <1>12, Zenon DEF AlignedSound
  <2>2. Exact(pages, P) /\ StatesKept(pages, k)
    BY <1>1, <1>11, <2>1 DEF MInv, AlignedSound
  <2>3. (s) % PAGE_SIZE_BYTES = 0
    <3>1. base % PAGE_SIZE_BYTES = 0
      BY <1>1, <2>1 DEF Aligned
    <3>2. /\ PAGE_SIZE_BYTES \in Nat \ {0} /\ Len(pages) * PAGE_SIZE_BYTES = P
          /\ Len(pages) \in Nat
      BY <2>2, <1>1, Sizes32 DEF Exact, Listed
    <3>8. base \div PAGE_SIZE_BYTES \in Nat
          /\ base = (base \div PAGE_SIZE_BYTES) * PAGE_SIZE_BYTES
      BY <3>1, <3>2, Multiple
    <3>3. PICK d \in Nat \ {0}, q \in Nat, l \in Nat :
             d = PAGE_SIZE_BYTES /\ base = q * d /\ P = l * d
      BY <3>2, <3>8, Zenon
    <3>4. l <= q
      BY <1>1, <3>3, ProductGrows
    <3>5. PICK r \in Nat : q = l + r
      <4>1. q - l \in Nat /\ q = l + (q - l)
        BY <3>4
      <4> QED
        BY <4>1
    <3>6. s = r * d
      <4>1. q * d = l * d + r * d
        BY <3>5
      <4>2. l * d \in Nat /\ r * d \in Nat
        OBVIOUS
      <4> QED
        BY <3>3, <4>1, <4>2, <1>16
    <3>7. (r * d) % d = 0
      BY MultipleHasNoRest
    <3> QED
      BY <3>3, <3>6, <3>7
  <2>4. /\ Exact(qs, base)
        /\ Len(pages) + ((s) \div PAGE_SIZE_BYTES) <= ListRoom
        /\ \A i \in DOMAIN qs :
             \/ i \in DOMAIN pages /\ qs[i] = pages[i]
             \/ qs[i].state = reserved /\ qs[i].base >= P /\ qs[i].base < base
    <3>1. /\ Exact(qs, P + s)
          /\ Len(pages) + (s \div PAGE_SIZE_BYTES) <= ListRoom
          /\ \A i \in DOMAIN qs :
               \/ i \in DOMAIN pages /\ qs[i] = pages[i]
               \/ qs[i].state = reserved /\ qs[i].base >= P /\ qs[i].base < P + s
      BY <1>1, <1>9, <1>16, <2>2, <2>3, ExactGrows DEF qs
    <3> QED
      BY <3>1, <1>16
  <2>5. ~ (Len(pages) + ((s) \div PAGE_SIZE_BYTES) > ListRoom)
    <3>1. PAGE_SIZE_BYTES \in Nat \ {0}
      BY Sizes32
    <3>2. (s) \div PAGE_SIZE_BYTES \in Nat
      BY <1>4, <3>1, Divided
    <3>3. Len(pages) \in Nat /\ ListRoom \in Nat
      BY <1>1, RoomAssumption DEF Listed
    <3> QED
      BY <2>4, <3>2, <3>3
  <2>6. status' = "build" /\ pages' = qs
    BY <1>8, <2>5
  <2>7. StatesKept(pages, bootMemRegionsCount)'
    <3>1. SUFFICES ASSUME NEW j \in 1 .. k, NEW i \in DOMAIN qs,
                          qs[i].base \in RegionUnits(j)
                   PROVE  qs[i].state = regions[j].state
      BY <1>1, <1>2, <1>6, <2>6 DEF StatesKept, RegionUnits, RegionEnd
    <3>2. CASE i \in DOMAIN pages /\ qs[i] = pages[i]
      BY <3>1, <3>2, <2>2 DEF StatesKept
    <3>3. CASE qs[i].base >= P
      <4>1. RegionEnd(regions[j]) <= P
        BY <1>1
      <4>2. regions \in Seq(Region) /\ j \in 1 .. Len(regions)
        BY <1>1 DEF MInv, TypeInv
      <4>3. regions[j] \in Region
        BY <4>2
      <4>4. RegionEnd(regions[j]) \in Nat /\ regions[j].base \in Nat
        BY <4>3 DEF RegionEnd, Region
      <4>5. qs[i].base \in Int /\ qs[i].base <= RegionEnd(regions[j]) - 1
        BY <3>1, <4>4 DEF RegionUnits
      <4> QED
        BY <3>3, <4>1, <4>4, <4>5
    <3> QED
      BY <2>4, <3>2, <3>3
  <2> QED
    BY <1>7, <2>4, <2>6, <2>7
<1> QED
  BY <1>12, <1>13, <1>14 DEF MInv

\* The region that starts where the list ends is the piece that follows it.
LEMMA AddRegionKeeps ==
  ASSUME MInv, InOrder, status = "build", UNCHANGED <<loaderVars, freePagePtr>>,
         AddRegion(Entry(bootMemRegionsCount)),
         prevRegionEndAddr = Entry(bootMemRegionsCount).base
  PROVE  MInv'
<1>1. PICK k \in Nat, P \in Nat, base \in Nat, size \in Nat \ {0}, state \in 1 .. 5 :
           /\ bootMemRegionsCount = k /\ prevRegionEndAddr = P
           /\ k < Len(regions) /\ k + 1 \in DOMAIN regions
           /\ regions[k + 1] = [base |-> base, size |-> size, state |-> state]
           /\ Entry(k) = [base |-> base, size |-> size, state |-> state]
           /\ P <= base /\ base + size <= WORD
           /\ \A j \in 1 .. k : RegionEnd(regions[j]) <= P
           /\ k + 1 < Len(regions) => base + size <= regions[k + 1 + 1].base
           /\ k + 1 = Len(regions) => base + size = LastEnd
           /\ Listed(pages, P) /\ Covers(pages, P) /\ Ram(pages)
  BY AtBuild
<1>2. UNCHANGED <<entryWords, regions, table, memRegionsCount>>
  BY DEF loaderVars
<1>3. P = base
  BY <1>1
<1>4. regions \in Seq(Region) /\ Len(regions) \in Nat /\ memRegionsCount = Len(regions)
  BY DEF MInv, TypeInv
<1>5. /\ AppendPages([base |-> base, size |-> size, state |-> state], k + 1 = Len(regions))
      /\ prevRegionEndAddr' = Add64(base, size)
      /\ bootMemRegionsCount' = k + 1
  BY <1>1, <1>4 DEF AddRegion
<1>6. base + size \in Nat /\ base + size \in 0 .. WORD
  BY <1>1, Sizes32
<1>7. prevRegionEndAddr' = base + size
  <2>1. (base + size) % (WORD * WORD) = base + size
    BY <1>1, <1>6, NoWrap
  <2> QED
    BY <1>5, <2>1 DEF Add64
<1> DEFINE qs == Appended(base, size, state, k)
<1>8. \/ /\ Len(pages) + (size \div PAGE_SIZE_BYTES) > ListRoom
         /\ status' = "runaway"
      \/ /\ status' = IF k + 1 = Len(regions) THEN "test" ELSE "build"
         /\ pages' = qs
  BY <1>1, <1>5 DEF AppendPages, Appended
<1>9. regions[k + 1].base = base /\ regions[k + 1].size = size /\ regions[k + 1].state = state
  BY <1>1
<1>10. RegionEnd(regions[k + 1]) = base + size /\ RegionUnits(k + 1) = base .. (base + size - 1)
  BY <1>9 DEF RegionEnd, RegionUnits
<1>11. Listed(qs, base + size) /\ Covers(qs, base + size) /\ Ram(qs)
  <2>1. Listed(pages, base) /\ Covers(pages, base) /\ Ram(pages)
    BY <1>1, <1>3
  <2>2. state = usable =>
           \E j \in DOMAIN regions :
             /\ regions[j].state = usable
             /\ RegionUnits(j) = base .. (base + size - 1)
    BY <1>1, <1>9, <1>10
  <2> QED
    BY <1>1, <2>1, <2>2, ListGrows
<1> HIDE DEF qs
<1>12. Found /\ status' \in {"build", "test", "runaway"}
  BY <1>8 DEF Found
<1>13. /\ TypeInv' /\ TableRead' /\ NotYet' /\ Found'
       /\ InOrder' <=> InOrder
       /\ Aligned' <=> Aligned
       /\ LastEnd' = LastEnd
  BY <1>12, LoaderDone
<1>14. ListSound'
  <2>1. SUFFICES ASSUME status' # "runaway" PROVE ListSound'
    BY DEF ListSound, Following
  <2>2. status' = IF k + 1 = Len(regions) THEN "test" ELSE "build"
    BY <1>8, <2>1
  <2>3. pages' = qs
    BY <1>8, <2>1
  <2>4. Listed(pages', base + size) /\ Covers(pages', base + size)
    BY <1>11, <2>3
  <2>5. Ram(pages)'
    BY <1>2, <1>11, <2>3 DEF Ram, RegionUnits, RegionEnd
  <2>6. \A j \in 1 .. (k + 1) : RegionEnd(regions'[j]) <= base + size
    <3> SUFFICES ASSUME NEW j \in 1 .. (k + 1) PROVE RegionEnd(regions[j]) <= base + size
      BY <1>2
    <3>1. CASE j = k + 1
      BY <3>1, <1>6, <1>10
    <3>2. CASE j # k + 1
      <4>1. j \in 1 .. k /\ j \in 1 .. Len(regions)
        BY <3>2, <1>1, <1>4
      <4>2. RegionEnd(regions[j]) <= base
        BY <4>1, <1>1, <1>3
      <4>3. regions[j] \in Region
        BY <4>1, <1>4
      <4>4. RegionEnd(regions[j]) \in Nat
        BY <4>3 DEF RegionEnd, Region
      <4> QED
        BY <4>2, <4>4
    <3> QED
      BY <3>1, <3>2
  <2>7. /\ k + 1 \in 0 .. Len(regions')
        /\ status' = "build" => k + 1 < Len(regions')
        /\ status' # "build" => k + 1 = Len(regions')
    BY <1>1, <1>2, <1>4, <2>2
  <2>8. k + 1 < Len(regions') => base + size <= regions'[k + 1 + 1].base
    BY <1>1, <1>2
  <2>9. status' # "build" => base + size = LastEnd'
    BY <1>1, <1>2, <1>13, <2>7
  <2> QED
    BY <1>5, <1>6, <1>7, <2>4, <2>5, <2>6, <2>7, <2>8, <2>9 DEF ListSound
<1>15. AlignedSound'
  <2>1. SUFFICES ASSUME Aligned
                 PROVE  /\ status' \in {"build", "test"} /\ Exact(pages', prevRegionEndAddr')
                        /\ StatesKept(pages, bootMemRegionsCount)'
    BY <1>13, Zenon DEF AlignedSound
  <2>2. Exact(pages, base) /\ StatesKept(pages, k) /\ Listed(pages, base)
    BY <1>1, <1>3, <1>12, <2>1 DEF MInv, AlignedSound
  <2>3. size % PAGE_SIZE_BYTES = 0
    BY <1>1, <1>9, <2>1 DEF Aligned
  <2>4. /\ Exact(qs, base + size)
        /\ Len(pages) + (size \div PAGE_SIZE_BYTES) <= ListRoom
        /\ \A i \in DOMAIN qs :
             \/ i \in DOMAIN pages /\ qs[i] = pages[i]
             \/ qs[i].state = state /\ qs[i].base >= base /\ qs[i].base < base + size
    BY <1>1, <2>2, <2>3, ExactGrows DEF qs
  <2>5. ~ (Len(pages) + (size \div PAGE_SIZE_BYTES) > ListRoom)
    <3>1. PAGE_SIZE_BYTES \in Nat \ {0}
      BY Sizes32
    <3>2. size \div PAGE_SIZE_BYTES \in Nat
      BY <3>1, Divided
    <3>3. Len(pages) \in Nat /\ ListRoom \in Nat
      BY <1>1, RoomAssumption DEF Listed
    <3> QED
      BY <2>4, <3>2, <3>3
  <2>6. status' \in {"build", "test"} /\ pages' = qs
    BY <1>8, <2>5
  <2>7. StatesKept(pages, bootMemRegionsCount)'
    <3>1. SUFFICES ASSUME NEW j \in 1 .. (k + 1), NEW i \in DOMAIN qs,
                          qs[i].base \in RegionUnits(j)
                   PROVE  qs[i].state = regions[j].state
      BY <1>2, <1>5, <2>6 DEF StatesKept, RegionUnits, RegionEnd
    <3>2. CASE i \in DOMAIN pages /\ qs[i] = pages[i]
      <4>1. CASE j = k + 1
        <5>1. pages[i].base >= base
          BY <3>1, <3>2, <4>1, <1>10
        <5>2. pages[i].base < base /\ pages[i].base \in Nat
          <6>1. pages \in Seq(PageRec) /\ pages[i].base < base
            BY <3>2, <2>2 DEF Listed
          <6>2. pages[i] \in PageRec
            BY <3>2, <6>1
          <6> QED
            BY <6>1, <6>2, Sizes32 DEF PageRec
        <5> QED
          BY <5>1, <5>2
      <4>2. CASE j # k + 1
        <5>1. j \in 1 .. k
          BY <4>2
        <5> QED
          BY <3>1, <3>2, <5>1, <2>2 DEF StatesKept
      <4> QED
        BY <4>1, <4>2
    <3>3. CASE qs[i].state = state /\ qs[i].base >= base
      <4>1. CASE j = k + 1
        BY <3>3, <4>1, <1>9
      <4>2. CASE j # k + 1
        <5>1. j \in 1 .. k /\ j \in 1 .. Len(regions)
          BY <4>2, <1>1, <1>4
        <5>2. RegionEnd(regions[j]) <= base /\ regions[j] \in Region
          BY <5>1, <1>1, <1>3, <1>4
        <5>3. RegionEnd(regions[j]) \in Nat /\ regions[j].base \in Nat
          BY <5>2 DEF RegionEnd, Region
        <5>4. qs[i].base \in Int /\ qs[i].base <= RegionEnd(regions[j]) - 1
          BY <3>1, <5>3 DEF RegionUnits
        <5> QED
          BY <3>3, <5>2, <5>3, <5>4
      <4> QED
        BY <4>1, <4>2
    <3> QED
      BY <2>4, <3>2, <3>3
  <2> QED
    BY <1>7, <2>4, <2>6, <2>7
<1> QED
  BY <1>13, <1>14, <1>15 DEF MInv

\* One turn of the loop.
LEMMA ReadRegionKeeps ==
  ASSUME MInv, ReadRegion
  PROVE  MInv'
<1> DEFINE e == Entry(bootMemRegionsCount)
<1>1. /\ status = "build" /\ UNCHANGED <<loaderVars, freePagePtr>>
      /\ \/ e.size # 0 /\ prevRegionEndAddr # e.base /\ MarkHole(e)
         \/ e.size # 0 /\ prevRegionEndAddr = e.base /\ AddRegion(e)
         \/ e.size = 0 /\ StopAtEmpty(e)
  BY DEF ReadRegion
<1>2. CASE ~ InOrder
  <2>1. Found
    BY <1>1 DEF Found
  <2>2. status' \in {"build", "test", "runaway"}
    <3>1. CASE MarkHole(e)
      BY <3>1 DEF MarkHole, AppendPages
    <3>2. CASE AddRegion(e)
      BY <3>2 DEF AddRegion, AppendPages
    <3>3. CASE StopAtEmpty(e)
      BY <3>3 DEF StopAtEmpty
    <3> QED
      BY <1>1, <3>1, <3>2, <3>3
  <2>3. TypeInv' /\ TableRead' /\ NotYet' /\ ~ InOrder'
    BY <1>1, <1>2, <2>1, <2>2, LoaderDone
  <2> QED
    BY <2>3 DEF MInv, ListSound, AlignedSound
<1>3. CASE InOrder
  <2>1. e.size # 0
    <3>1. PICK k \in Nat, P \in Nat, base \in Nat, size \in Nat \ {0}, state \in 1 .. 5 :
               /\ bootMemRegionsCount = k /\ prevRegionEndAddr = P
               /\ k < Len(regions) /\ k + 1 \in DOMAIN regions
               /\ regions[k + 1] = [base |-> base, size |-> size, state |-> state]
               /\ Entry(k) = [base |-> base, size |-> size, state |-> state]
               /\ P <= base /\ base + size <= WORD
               /\ \A j \in 1 .. k : RegionEnd(regions[j]) <= P
               /\ k + 1 < Len(regions) => base + size <= regions[k + 1 + 1].base
               /\ k + 1 = Len(regions) => base + size = LastEnd
               /\ Listed(pages, P) /\ Covers(pages, P) /\ Ram(pages)
      BY <1>1, <1>3, AtBuild
    <3> QED
      BY <3>1
  <2>2. CASE prevRegionEndAddr # e.base /\ MarkHole(e)
    BY <1>1, <1>3, <2>2, MarkHoleKeeps
  <2>3. CASE prevRegionEndAddr = e.base /\ AddRegion(e)
    BY <1>1, <1>3, <2>3, AddRegionKeeps
  <2> QED
    BY <1>1, <2>1, <2>2, <2>3
<1> QED
  BY <1>2, <1>3

-----------------------------------------------------------------------------
(* The complete list *)

\* What the steps after the constructor keep: the map, and the list in so
\* far as they leave it in order.
LEMMA ListStays ==
  ASSUME MInv, status \in {"test", "reserve", "point", "ready"},
         UNCHANGED loaderVars,
         bootMemRegionsCount' = bootMemRegionsCount,
         prevRegionEndAddr' = prevRegionEndAddr,
         status' \in {"reserve", "point", "ready", "wild", "panicked", "hung", "booted"},
         InOrder => /\ Listed(pages', prevRegionEndAddr)
                    /\ Covers(pages', prevRegionEndAddr)
                    /\ Ram(pages)'
  PROVE  /\ TypeInv' /\ TableRead' /\ NotYet' /\ Found' /\ ListSound'
         /\ InOrder' <=> InOrder
         /\ Aligned' <=> Aligned
         /\ LastEnd' = LastEnd
         /\ KernelTakesAll' <=> KernelTakesAll
<1>1. Found
  BY DEF Found
<1>2. /\ TypeInv' /\ TableRead' /\ NotYet' /\ Found'
      /\ InOrder' <=> InOrder
      /\ Aligned' <=> Aligned
      /\ LastEnd' = LastEnd
      /\ KernelTakesAll' <=> KernelTakesAll
  BY <1>1, LoaderDone
<1>3. regions' = regions
  BY DEF loaderVars
<1>4. ListSound'
  <2>1. SUFFICES ASSUME InOrder PROVE
          /\ bootMemRegionsCount \in 0 .. Len(regions)
          /\ prevRegionEndAddr \in 0 .. WORD
          /\ \A k \in 1 .. bootMemRegionsCount : RegionEnd(regions[k]) <= prevRegionEndAddr
          /\ bootMemRegionsCount = Len(regions)
          /\ prevRegionEndAddr = LastEnd
    BY <1>2, <1>3 DEF ListSound
  <2> QED
    BY <2>1, <1>1 DEF MInv, ListSound, Following
<1> QED
  BY <1>2, <1>4

\* What there is on a map in order when the constructor has ended.
LEMMA AtEnd ==
  ASSUME MInv, InOrder, Following, status # "build"
  PROVE  /\ regions \in Seq(Region) /\ Len(regions) \in Nat \ {0}
         /\ bootMemRegionsCount = Len(regions)
         /\ prevRegionEndAddr = LastEnd
         /\ LastEnd \in 1 .. WORD
         /\ \A k \in DOMAIN regions : RegionEnd(regions[k]) <= LastEnd
         /\ Listed(pages, LastEnd) /\ Covers(pages, LastEnd) /\ Ram(pages)
         /\ pages # << >>
<1>1. /\ bootMemRegionsCount = Len(regions)
      /\ prevRegionEndAddr = LastEnd
      /\ prevRegionEndAddr \in 0 .. WORD
      /\ \A k \in 1 .. bootMemRegionsCount : RegionEnd(regions[k]) <= prevRegionEndAddr
      /\ Listed(pages, prevRegionEndAddr)
      /\ Covers(pages, prevRegionEndAddr)
      /\ Ram(pages)
  BY DEF MInv, ListSound
<1>2. regions \in Seq(Region) /\ Len(regions) \in Nat \ {0}
  <2>1. regions \in Seq(Region) /\ Len(regions) >= 1
    BY DEF MInv, TypeInv, Following
  <2> QED
    BY <2>1
<1>3. LastEnd \in 1 .. WORD
  <2>1. LastEnd = RegionEnd(regions[Len(regions)]) /\ Len(regions) \in DOMAIN regions
    BY <1>2, LastEndIs
  <2>2. regions[Len(regions)].size # 0 /\ regions[Len(regions)] \in Region
    BY <2>1, <1>2 DEF InOrder
  <2>3. RegionEnd(regions[Len(regions)]) \in Nat /\ RegionEnd(regions[Len(regions)]) # 0
    BY <2>2 DEF RegionEnd, Region
  <2> QED
    BY <1>1, <2>1, <2>3
<1>4. pages # << >>
  <2>1. 0 \in 0 .. (LastEnd - 1)
    BY <1>3
  <2>2. PICK i \in DOMAIN pages : 0 \in UnitsAt(pages[i].base)
    BY <2>1, <1>1 DEF Covers
  <2> QED
    BY <2>2
<1>5. DOMAIN regions = 1 .. Len(regions)
  BY <1>2
<1> QED
  BY <1>1, <1>2, <1>3, <1>4, <1>5

\* GetPageAt finds the page of an address on a list in order, if there is one.
LEMMA FindsPage ==
  ASSUME NEW P, Listed(pages, P), pages # << >>, NEW addr \in Nat
  PROVE  /\ PageAligned(addr) = (addr \div PAGE_SIZE_BYTES) * PAGE_SIZE_BYTES
         /\ IF \E i \in DOMAIN pages : pages[i].base = PageAligned(addr)
            THEN /\ GetPageAt(addr) \in DOMAIN pages
                 /\ pages[GetPageAt(addr)].base = PageAligned(addr)
            ELSE GetPageAt(addr) = NotFound
<1>1. /\ pages \in Seq(PageRec)
      /\ \A i, j \in DOMAIN pages : i < j => pages[i].base < pages[j].base
      /\ pages[1].base = 0
  BY DEF Listed
<1>2. PICK L \in Nat \ {0} : L = Len(pages) /\ DOMAIN pages = 1 .. L
  BY <1>1
<1> DEFINE v == [i \in 1 .. L |-> pages[i].base]
<1>3. v \in [1 .. L -> Int]
  <2> SUFFICES ASSUME NEW i \in 1 .. L PROVE pages[i].base \in Int
    OBVIOUS
  <2>1. pages[i] \in PageRec
    BY <1>1, <1>2
  <2> QED
    BY <2>1, Sizes32 DEF PageRec
<1>4. \A i \in 1 .. L : pages[i].base = v[i]
  OBVIOUS
<1>5. \A i, j \in 1 .. L : i < j => v[i] < v[j]
  BY <1>1, <1>2
<1>6. v[1] = 0
  BY <1>1, <1>2
<1> HIDE DEF v
<1>7. /\ PageAligned(addr) \in Nat
      /\ PageAligned(addr) = (addr \div PAGE_SIZE_BYTES) * PAGE_SIZE_BYTES
  <2>1. /\ addr \div PAGE_SIZE_BYTES \in Nat
        /\ addr % PAGE_SIZE_BYTES \in 0 .. (PAGE_SIZE_BYTES - 1)
        /\ addr = (addr \div PAGE_SIZE_BYTES) * PAGE_SIZE_BYTES + (addr % PAGE_SIZE_BYTES)
    BY Sizes32, Divided
  <2>2. (addr \div PAGE_SIZE_BYTES) * PAGE_SIZE_BYTES \in Nat
    BY <2>1, Sizes32
  <2> QED
    BY <2>1, <2>2, Sizes32 DEF PageAligned
<1>8. GetPageAt(addr) = Answer(v, PageAligned(addr), 0, L)
  <2>1. addr \in Int /\ PageAligned(addr) \in Int /\ L \in Nat /\ Len(pages) = L
    BY <1>2, <1>7
  <2> QED
    BY <2>1, <1>3, <1>4, <1>5, SearchEnds, Zenon
<1>9. PICK base \in Nat : base = PageAligned(addr)
  BY <1>7
<1>10. CASE \E i \in 1 .. L : v[i] = base
  <2>1. Answer(v, base, 0, L) = CHOOSE i \in 1 .. L : v[i] = base
    BY <1>2, <1>10 DEF Answer
  <2>2. Answer(v, base, 0, L) \in 1 .. L /\ v[Answer(v, base, 0, L)] = base
    BY <2>1, <1>10
  <2> QED
    BY <2>2, <1>2, <1>4, <1>7, <1>8, <1>9
<1>11. CASE ~ \E i \in 1 .. L : v[i] = base
  <2>1. v[1] < base
    BY <1>2, <1>6, <1>9, <1>11
  <2>2. Answer(v, base, 0, L) = NotFound
    BY <2>1, <1>2, <1>11 DEF Answer
  <2> QED
    BY <2>2, <1>2, <1>4, <1>7, <1>8, <1>9, <1>11
<1> QED
  BY <1>10, <1>11

\* Where the pages of an exact list are.
LEMMA ExactBases ==
  ASSUME NEW P \in Nat, P <= WORD, Listed(pages, P), Exact(pages, P)
  PROVE  /\ Len(pages) \in Nat /\ DOMAIN pages = 1 .. Len(pages)
         /\ \A i \in DOMAIN pages :
              /\ pages[i].base \in 0 .. (WORD - 1)
              /\ i = 1 => pages[i].base = 0
              /\ i # 1 => /\ i - 1 \in DOMAIN pages
                          /\ pages[i].base = pages[i - 1].base + PAGE_SIZE_BYTES
<1>1. pages \in Seq(PageRec)
  BY DEF Listed
<1>2. PICK d \in Nat \ {0} : d = PAGE_SIZE_BYTES
  BY Sizes32
<1>3. \A i \in DOMAIN pages : pages[i].base = (i - 1) * d
  BY <1>2 DEF Exact
<1>4. ASSUME NEW i \in DOMAIN pages
      PROVE  /\ pages[i].base \in 0 .. (WORD - 1)
             /\ i = 1 => pages[i].base = 0
             /\ i # 1 => /\ i - 1 \in DOMAIN pages
                         /\ pages[i].base = pages[i - 1].base + d
  <2>1. pages[i].base \in 0 .. (WORD - 1)
    <3>1. pages[i] \in PageRec
      BY <1>1
    <3> QED
      BY <3>1 DEF PageRec
  <2>2. i = 1 => pages[i].base = 0
    BY <1>3, <1>2
  <2>3. ASSUME i # 1
        PROVE  i - 1 \in DOMAIN pages /\ pages[i].base = pages[i - 1].base + d
    <3>1. PICK k \in Nat : i = k + 2
      <4>1. i - 2 \in Nat /\ i = (i - 2) + 2
        BY <1>1, <2>3
      <4> QED
        BY <4>1
    <3>2. i - 1 \in DOMAIN pages
      BY <1>1, <3>1
    <3>3. pages[i].base = (k + 1) * d /\ pages[i - 1].base = k * d
      <4>1. i - 1 = k + 1 /\ (i - 1) - 1 = k
        BY <3>1
      <4> QED
        BY <4>1, <1>3, <3>2
    <3>4. (k + 1) * d = k * d + d
      OBVIOUS
    <3> QED
      BY <3>2, <3>3, <3>4
  <2> QED
    BY <2>1, <2>2, <2>3
<1> QED
  BY <1>1, <1>2, <1>4

\* The self tests let an exact list pass.
LEMMA ExactPasses ==
  ASSUME NEW P \in Nat, P <= WORD, Listed(pages, P), Exact(pages, P)
  PROVE  ~ GapSeen /\ ~ NotSorted
<1>1. \A i \in DOMAIN pages :
        /\ pages[i].base \in 0 .. (WORD - 1)
        /\ i = 1 => pages[i].base = 0
        /\ i # 1 => /\ i - 1 \in DOMAIN pages
                    /\ pages[i].base = pages[i - 1].base + PAGE_SIZE_BYTES
  BY ExactBases
<1>2. ASSUME NEW i \in DOMAIN pages PROVE ~ (pages[i].base > LastSeenAddr(i))
  <2>1. CASE i = 1
    BY <2>1, <1>1 DEF LastSeenAddr
  <2>2. CASE i # 1
    <3>1. PICK x \in 0 .. (WORD - 1) : x = pages[i].base
      BY <1>1
    <3>2. pages[i - 1].base + PAGE_SIZE_BYTES = x
      BY <1>1, <2>2, <3>1
    <3>3. x % WORD = x
      BY Sizes32, SmallRest
    <3>4. LastSeenAddr(i) = x
      BY <2>2, <3>2, <3>3 DEF LastSeenAddr
    <3> QED
      BY <3>1, <3>4, Sizes32
  <2> QED
    BY <2>1, <2>2
<1>3. ASSUME NEW i \in DOMAIN pages, i # 1
      PROVE  ~ (PtrDiff(pages[i].base, pages[i - 1].base) > PAGE_SIZE_BYTES)
  <2>1. PICK d \in Nat \ {0} : d = PAGE_SIZE_BYTES /\ d \in 0 .. (WORD - 1)
    BY Sizes32
  <2>2. PICK x \in Nat, y \in Nat : x = pages[i].base /\ y = pages[i - 1].base /\ x = y + d
    <3>1. /\ pages[i].base \in 0 .. (WORD - 1) /\ pages[i - 1].base \in 0 .. (WORD - 1)
          /\ pages[i].base = pages[i - 1].base + PAGE_SIZE_BYTES
      BY <1>1, <1>3
    <3> QED
      BY <3>1, <2>1, Sizes32
  <2>3. x - y = d
    BY <2>2
  <2>4. d % WORD = d
    BY <2>1, Sizes32, SmallRest
  <2>5. PtrDiff(x, y) = d \/ PtrDiff(x, y) = d - WORD
    BY <2>3, <2>4 DEF PtrDiff
  <2> QED
    BY <2>1, <2>2, <2>5, Sizes32
<1> QED
  BY <1>2, <1>3 DEF GapSeen, NotSorted

\* The self tests.
LEMMA SelfTestsKeeps ==
  ASSUME MInv, SelfTests
  PROVE  MInv'
<1>1. /\ status = "test" /\ UNCHANGED loaderVars
      /\ pages' = pages /\ bootMemRegionsCount' = bootMemRegionsCount
      /\ prevRegionEndAddr' = prevRegionEndAddr
      /\ status' = IF pages = << >> THEN "wild"
                   ELSE IF GapSeen \/ NotSorted THEN "panicked" ELSE "reserve"
  BY DEF SelfTests, listVars
<1>2. Found /\ Following /\ status' \in {"wild", "panicked", "reserve"}
  BY <1>1 DEF Found, Following
<1>3. regions' = regions
  BY <1>1 DEF loaderVars
<1>4. InOrder => /\ Listed(pages', prevRegionEndAddr)
                 /\ Covers(pages', prevRegionEndAddr)
                 /\ Ram(pages)'
  <2>1. InOrder => /\ Listed(pages, prevRegionEndAddr)
                   /\ Covers(pages, prevRegionEndAddr)
                   /\ Ram(pages)
    BY <1>1, <1>2, AtEnd
  <2>2. Ram(pages) => Ram(pages)'
    BY <1>1, <1>3 DEF Ram, RegionUnits, RegionEnd
  <2> QED
    BY <1>1, <2>1, <2>2
<1>5. /\ TypeInv' /\ TableRead' /\ NotYet' /\ Found' /\ ListSound'
      /\ InOrder' <=> InOrder
      /\ Aligned' <=> Aligned
  BY <1>1, <1>2, <1>4, ListStays
<1>6. ASSUME InOrder, Aligned
      PROVE  /\ status' = "reserve" /\ Exact(pages', prevRegionEndAddr')
             /\ StatesKept(pages, bootMemRegionsCount)'
  <2>1. /\ prevRegionEndAddr = LastEnd /\ LastEnd \in Nat /\ LastEnd <= WORD
        /\ Listed(pages, LastEnd) /\ pages # << >>
    BY <1>1, <1>2, <1>6, AtEnd, Sizes32
  <2>2. Exact(pages, LastEnd) /\ StatesKept(pages, bootMemRegionsCount)
    BY <1>1, <1>2, <1>6, <2>1 DEF MInv, AlignedSound
  <2>3. ~ GapSeen /\ ~ NotSorted
    BY <2>1, <2>2, ExactPasses
  <2>4. StatesKept(pages, bootMemRegionsCount)'
    BY <1>1, <1>3, <2>2 DEF StatesKept, RegionUnits, RegionEnd
  <2> QED
    BY <1>1, <2>1, <2>2, <2>3, <2>4
<1>7. AlignedSound'
  BY <1>5, <1>6, Zenon DEF AlignedSound
<1> QED
  BY <1>5, <1>7 DEF MInv

-----------------------------------------------------------------------------
(* The memory of the kernel *)

\* The list when the pages of S are marked as the kernel's.
Marked(S) ==
  [i \in DOMAIN pages |->
     IF i \in S THEN [pages[i] EXCEPT !.state = KERN] ELSE pages[i]]

\* Marking changes no base, and makes no page usable.
LEMMA MarkedKeeps ==
  ASSUME NEW S, NEW P, Listed(pages, P), Covers(pages, P), Ram(pages)
  PROVE  LET qs == Marked(S) IN
         /\ Listed(qs, P) /\ Covers(qs, P) /\ Ram(qs)
         /\ Exact(pages, P) => Exact(qs, P)
         /\ DOMAIN qs = DOMAIN pages
         /\ \A i \in DOMAIN pages : i \notin S => qs[i] = pages[i]
<1> DEFINE qs == Marked(S)
<1>1. pages \in Seq(PageRec)
  BY DEF Listed
<1>2. PICK L \in Nat : L = Len(pages) /\ DOMAIN pages = 1 .. L
  BY <1>1
<1>3. ASSUME NEW i \in 1 .. L
      PROVE  /\ qs[i] \in PageRec /\ qs[i].base = pages[i].base
             /\ i \notin S => qs[i] = pages[i]
             /\ qs[i].state = usable => pages[i].state = usable
  <2>1. pages[i] \in PageRec
    BY <1>1, <1>2
  <2>2. CASE i \in S
    <3>1. qs[i] = [pages[i] EXCEPT !.state = KERN]
      BY <1>2, <2>2 DEF Marked
    <3> QED
      BY <2>1, <2>2, <3>1 DEF PageRec, KERN, usable
  <2>3. CASE i \notin S
    <3>1. qs[i] = pages[i]
      BY <1>2, <2>3 DEF Marked
    <3> QED
      BY <2>1, <3>1
  <2> QED
    BY <2>2, <2>3
<1>4. qs = [i \in 1 .. L |-> qs[i]]
  BY <1>2 DEF Marked
<1> HIDE DEF qs
<1>5. qs \in Seq(PageRec) /\ Len(qs) = L /\ DOMAIN qs = 1 .. L
  <2>1. qs \in [1 .. L -> PageRec]
    BY <1>3, <1>4
  <2> QED
    BY <2>1
<1>6. Listed(qs, P)
  <2>1. /\ \A i, j \in 1 .. L : i < j => pages[i].base < pages[j].base
        /\ \A i \in 1 .. L : pages[i].base < P
        /\ pages # << >> => pages[1].base = 0
    BY <1>2 DEF Listed
  <2>2. qs # << >> => pages # << >> /\ 1 \in 1 .. L
    BY <1>2, <1>5
  <2> QED
    BY <1>3, <1>5, <2>1, <2>2 DEF Listed
<1>7. Covers(qs, P)
  BY <1>2, <1>3, <1>5 DEF Covers
<1>8. Ram(qs)
  BY <1>2, <1>3, <1>5 DEF Ram
<1>9. Exact(pages, P) => Exact(qs, P)
  BY <1>2, <1>3, <1>5 DEF Exact
<1>10. qs = Marked(S)
  BY DEF qs
<1> QED
  BY <1>2, <1>3, <1>5, <1>6, <1>7, <1>8, <1>9, <1>10, Zenon

\* The pages up to one that are not reserved.
FreeUpTo(k) == {i \in 1 .. k : pages[i].state # reserved}

\* The kernel's pages, and what they are compared with.
LEMMA KernelPagesAre ==
  ASSUME pages \in Seq(PageRec)
  PROVE  /\ \A i : i \in KernelPages <=>
              /\ i \in FreeUpTo(Len(pages))
              /\ Cardinality(FreeUpTo(i - 1)) * PAGE_SIZE_BYTES < KERNEL_MEMORY_REGION_SIZE_BYTES
         /\ IsFiniteSet(KernelPages) /\ Cardinality(KernelPages) \in Nat
         /\ \A k \in Int : /\ IsFiniteSet(FreeUpTo(k))
                           /\ Cardinality(FreeUpTo(k)) \in Nat
<1>1. \A i : i \in KernelPages <=>
        /\ i \in FreeUpTo(Len(pages))
        /\ Cardinality(FreeUpTo(i - 1)) * PAGE_SIZE_BYTES < KERNEL_MEMORY_REGION_SIZE_BYTES
  BY Zenon DEF KernelPages, FreeUpTo
<1>2. ASSUME NEW k \in Int
      PROVE  IsFiniteSet(FreeUpTo(k)) /\ Cardinality(FreeUpTo(k)) \in Nat
  <2>1. IsFiniteSet(1 .. k)
    BY FS_Interval
  <2>2. FreeUpTo(k) \in SUBSET (1 .. k)
    BY DEF FreeUpTo
  <2>3. IsFiniteSet(FreeUpTo(k))
    BY <2>1, <2>2, FS_Subset
  <2> QED
    BY <2>3, FS_CardinalityType
<1>3. IsFiniteSet(KernelPages)
  <2>1. Len(pages) \in Int
    OBVIOUS
  <2>2. IsFiniteSet(FreeUpTo(Len(pages)))
    BY <1>2, <2>1
  <2>3. KernelPages \in SUBSET FreeUpTo(Len(pages))
    BY <1>1
  <2> QED
    BY <2>2, <2>3, FS_Subset
<1>4. Cardinality(KernelPages) \in Nat
  BY <1>3, FS_CardinalityType
<1> QED
  BY <1>1, <1>2, <1>3, <1>4

\* With too little memory for the kernel all pages that are not reserved are
\* taken: the first that is not would have enough before it.
LEMMA TakesAll ==
  ASSUME pages \in Seq(PageRec),
         Cardinality(KernelPages) * PAGE_SIZE_BYTES < KERNEL_MEMORY_REGION_SIZE_BYTES
  PROVE  FreeUpTo(Len(pages)) \subseteq KernelPages
<1> DEFINE L == Len(pages)
           T == {i \in FreeUpTo(L) : i \notin KernelPages}
<1>1. SUFFICES ASSUME T # {} PROVE FALSE
  OBVIOUS
<1>2. L \in Nat
  OBVIOUS
<1>3. T \in SUBSET Nat
  BY <1>2 DEF FreeUpTo
<1>4. PICK x \in T : \A y \in T : x <= y
  <2> HIDE DEF T
  <2> QED
    BY <1>1, <1>3, LeastNat
<1>5. x \in 1 .. L /\ x - 1 \in Int
  BY <1>2 DEF FreeUpTo
<1>6. FreeUpTo(x - 1) \in SUBSET KernelPages
  <2> SUFFICES ASSUME NEW y \in FreeUpTo(x - 1) PROVE y \in KernelPages
    OBVIOUS
  <2>1. y \in 1 .. (x - 1) /\ pages[y].state # reserved
    BY DEF FreeUpTo
  <2>2. y \in FreeUpTo(L) /\ ~ (x <= y)
    BY <1>2, <1>5, <2>1 DEF FreeUpTo
  <2> QED
    BY <1>4, <2>2
<1>7. /\ IsFiniteSet(KernelPages) /\ Cardinality(KernelPages) \in Nat
      /\ Cardinality(FreeUpTo(x - 1)) \in Nat
      /\ ~ (Cardinality(FreeUpTo(x - 1)) * PAGE_SIZE_BYTES < KERNEL_MEMORY_REGION_SIZE_BYTES)
  <2>1. x \in FreeUpTo(L) /\ x \notin KernelPages
    OBVIOUS
  <2> HIDE DEF T, L
  <2> QED
    BY <1>5, <2>1, KernelPagesAre DEF L
<1>8. Cardinality(FreeUpTo(x - 1)) <= Cardinality(KernelPages)
  BY <1>6, <1>7, FS_Subset
<1>9. PICK a \in Nat, c \in Nat, d \in Nat \ {0}, m \in Nat :
        /\ a = Cardinality(FreeUpTo(x - 1)) /\ c = Cardinality(KernelPages)
        /\ d = PAGE_SIZE_BYTES /\ m = KERNEL_MEMORY_REGION_SIZE_BYTES
  BY <1>7, Sizes32, KernelSizeAssumption
<1>10. a * d <= c * d /\ a * d \in Nat /\ c * d \in Nat
  BY <1>8, <1>9, ProductGrows
<1>11. c * d < m /\ ~ (a * d < m)
  BY <1>7, <1>9
<1> QED
  BY <1>9, <1>10, <1>11

\* A region of an aligned map is a run of pages.
LEMMA RegionIsRun ==
  ASSUME regions \in Seq(Region), Aligned,
         NEW P \in Nat, P <= WORD, Listed(pages, P), Exact(pages, P),
         NEW k \in DOMAIN regions, regions[k].size # 0,
         RegionEnd(regions[k]) <= P
  PROVE  \E b \in Nat, s \in Nat \ {0} :
           /\ regions[k].size = s * PAGE_SIZE_BYTES
           /\ b + s <= Len(pages)
           /\ \A i \in (b + 1) .. (b + s) :
                i \in DOMAIN pages /\ pages[i].base \in RegionUnits(k)
<1>1. PICK x \in Nat, y \in Nat : x = regions[k].base /\ y = regions[k].size
  <2>1. regions[k] \in Region
    OBVIOUS
  <2> QED
    BY <2>1 DEF Region
<1>2. PICK d \in Nat \ {0} : d = PAGE_SIZE_BYTES
  BY Sizes32
<1>3. x % d = 0 /\ y % d = 0 /\ y # 0
  BY <1>1, <1>2 DEF Aligned
<1>4. PICK b \in Nat : x = b * d
  BY <1>3, Multiple
<1>5. PICK s \in Nat : y = s * d
  BY <1>3, Multiple
<1>6. s # 0
  BY <1>3, <1>5
<1>7. /\ pages \in Seq(PageRec) /\ Len(pages) \in Nat /\ DOMAIN pages = 1 .. Len(pages)
      /\ Len(pages) * d = P /\ \A i \in DOMAIN pages : pages[i].base = (i - 1) * d
  BY <1>2 DEF Listed, Exact
<1>8. (b + s) * d = x + y
  BY <1>4, <1>5
<1>9. b + s <= Len(pages)
  <2>1. RegionEnd(regions[k]) = x + y
    BY <1>1 DEF RegionEnd
  <2>2. PICK l \in Nat : l = Len(pages)
    BY <1>7
  <2>3. (b + s) * d <= l * d
    BY <1>7, <1>8, <2>1, <2>2
  <2>4. b + s \in Nat
    OBVIOUS
  <2>5. b + s <= l
    BY <2>3, <2>4, ProductGrows
  <2> QED
    BY <2>2, <2>5
<1>10. ASSUME NEW i \in (b + 1) .. (b + s)
       PROVE  i \in DOMAIN pages /\ pages[i].base \in RegionUnits(k)
  <2>1. i \in DOMAIN pages
    BY <1>7, <1>9
  <2>2. PICK j \in Nat : i = j + 1 /\ b <= j /\ j < b + s
    <3>1. i - 1 \in Nat /\ i = (i - 1) + 1 /\ b <= i - 1 /\ i - 1 < b + s
      OBVIOUS
    <3> QED
      BY <3>1
  <2>3. pages[i].base = j * d
    <3>1. i - 1 = j
      BY <2>2
    <3> QED
      BY <1>7, <2>1, <3>1, Zenon
  <2>4. b * d <= j * d /\ j * d \in Nat
    BY <2>2, ProductGrows
  <2>5. j * d + d <= (b + s) * d
    <3>1. b + s \in Nat
      OBVIOUS
    <3> QED
      BY <2>2, <3>1, ProductGrows
  <2>6. j * d \in x .. (x + y - 1)
    <3>1. PICK z \in Nat : z = j * d
      BY <2>4
    <3>2. x <= z /\ z + d <= x + y
      BY <1>4, <1>8, <2>4, <2>5, <3>1
    <3>3. z \in x .. (x + y - 1)
      BY <3>2
    <3> QED
      BY <3>1, <3>3
  <2> QED
    <3>1. RegionUnits(k) = x .. (x + y - 1)
      <4>1. RegionEnd(regions[k]) = x + y
        BY <1>1 DEF RegionEnd
      <4> QED
        BY <1>1, <4>1 DEF RegionUnits
    <3> QED
      BY <2>1, <2>3, <2>6, <3>1, Zenon
<1> QED
  BY <1>1, <1>2, <1>5, <1>6, <1>9, <1>10

\* A run of pages the kernel takes is no longer than what it asks for: the
\* last of them is taken only when those before it are too few.
LEMMA TakenRun ==
  ASSUME pages \in Seq(PageRec), NEW b \in Nat, NEW s \in Nat \ {0},
         b + s <= Len(pages), \A i \in (b + 1) .. (b + s) : i \in KernelPages
  PROVE  s * PAGE_SIZE_BYTES <= KERNEL_MEMORY_REGION_SIZE_BYTES
<1>1. PICK j \in Nat : j = b + s
  OBVIOUS
<1>2. j \in KernelPages /\ j - 1 \in Int
  BY <1>1
<1>3. /\ IsFiniteSet(FreeUpTo(j - 1)) /\ Cardinality(FreeUpTo(j - 1)) \in Nat
      /\ Cardinality(FreeUpTo(j - 1)) * PAGE_SIZE_BYTES < KERNEL_MEMORY_REGION_SIZE_BYTES
  BY <1>2, KernelPagesAre
<1>4. (b + 1) .. (j - 1) \in SUBSET FreeUpTo(j - 1)
  <2> SUFFICES ASSUME NEW i \in (b + 1) .. (j - 1) PROVE i \in FreeUpTo(j - 1)
    OBVIOUS
  <2>1. i \in (b + 1) .. (b + s) /\ i \in 1 .. (j - 1)
    BY <1>1
  <2>2. i \in KernelPages
    BY <2>1
  <2>3. i \in FreeUpTo(Len(pages))
    BY <2>2, KernelPagesAre
  <2> QED
    BY <2>1, <2>3 DEF FreeUpTo
<1>5. Cardinality((b + 1) .. (j - 1)) <= Cardinality(FreeUpTo(j - 1))
  BY <1>3, <1>4, FS_Subset
<1>6. Cardinality((b + 1) .. (j - 1)) = s - 1
  <2>1. b + 1 \in Int /\ j - 1 \in Int
    BY <1>1
  <2>2. Cardinality((b + 1) .. (j - 1)) =
          IF b + 1 > j - 1 THEN 0 ELSE (j - 1) - (b + 1) + 1
    BY <2>1, FS_Interval
  <2> QED
    BY <1>1, <2>2
<1>7. PICK c \in Nat, d \in Nat \ {0} :
         c = Cardinality(FreeUpTo(j - 1)) /\ d = PAGE_SIZE_BYTES
  BY <1>3, Sizes32
<1>8. PICK m \in Nat : KERNEL_MEMORY_REGION_SIZE_BYTES = m * d
  <2>1. KERNEL_MEMORY_REGION_SIZE_BYTES \in Nat
        /\ KERNEL_MEMORY_REGION_SIZE_BYTES % d = 0
    BY <1>7, KernelSizeAssumption
  <2> QED
    BY <2>1, Multiple
<1>9. c < m
  <2>1. c * d < m * d
    BY <1>3, <1>7, <1>8
  <2>2. m <= c => m * d <= c * d
    BY ProductGrows
  <2>3. c * d \in Nat /\ m * d \in Nat
    OBVIOUS
  <2> QED
    BY <2>1, <2>2, <2>3
<1>10. s <= m
  BY <1>5, <1>6, <1>7, <1>9
<1>11. s * d <= m * d
  BY <1>10, ProductGrows
<1> QED
  BY <1>7, <1>8, <1>11

\* When the kernel takes every usable page, it asks for as much as any of the
\* usable regions has.
LEMMA TakesRegions ==
  ASSUME regions \in Seq(Region), InOrder, Aligned,
         NEW P \in Nat, P <= WORD, Listed(pages, P), Exact(pages, P),
         \A k \in DOMAIN regions : RegionEnd(regions[k]) <= P,
         StatesKept(pages, Len(regions)),
         \A i \in DOMAIN pages : pages[i].state = usable => i \in KernelPages
  PROVE  KernelTakesAll
<1> SUFFICES ASSUME NEW k \in DOMAIN regions, regions[k].state = usable
             PROVE  regions[k].size <= KERNEL_MEMORY_REGION_SIZE_BYTES
  BY DEF KernelTakesAll
<1>1. regions[k].size # 0 /\ RegionEnd(regions[k]) <= P
  BY DEF InOrder
<1>2. PICK b \in Nat, s \in Nat \ {0} :
           /\ regions[k].size = s * PAGE_SIZE_BYTES
           /\ b + s <= Len(pages)
           /\ \A i \in (b + 1) .. (b + s) :
                i \in DOMAIN pages /\ pages[i].base \in RegionUnits(k)
  BY <1>1, RegionIsRun
<1>3. pages \in Seq(PageRec)
  BY DEF Listed
<1>4. ASSUME NEW i \in (b + 1) .. (b + s)
      PROVE  i \in KernelPages
  <2>1. i \in DOMAIN pages /\ pages[i].base \in RegionUnits(k)
    BY <1>2
  <2>2. k \in 1 .. Len(regions)
    OBVIOUS
  <2>3. pages[i].state = usable
    BY <2>1, <2>2 DEF StatesKept
  <2> QED
    BY <2>1, <2>3
<1>5. s * PAGE_SIZE_BYTES <= KERNEL_MEMORY_REGION_SIZE_BYTES
  BY <1>2, <1>3, <1>4, TakenRun
<1> QED
  BY <1>2, <1>5

\* reserverKernelMemory.
LEMMA ReserveKeeps ==
  ASSUME MInv, ReserveKernelMemory
  PROVE  MInv'
<1> DEFINE qs == Marked(KernelPages)
<1>1. /\ status = "reserve" /\ UNCHANGED loaderVars
      /\ bootMemRegionsCount' = bootMemRegionsCount
      /\ prevRegionEndAddr' = prevRegionEndAddr
      /\ \/ pages' = qs /\ status' = "point"
         \/ /\ pages' = pages /\ status' = "wild"
            /\ ~ (Cardinality(KernelPages) * PAGE_SIZE_BYTES >= KERNEL_MEMORY_REGION_SIZE_BYTES)
  BY Zenon DEF ReserveKernelMemory, Marked
<1> HIDE DEF qs
<1>2. Found /\ Following /\ status' \in {"wild", "point"}
  BY <1>1 DEF Found, Following
<1>3. regions' = regions
  BY <1>1 DEF loaderVars
<1>4. InOrder =>
        /\ regions \in Seq(Region) /\ Len(regions) \in Nat \ {0}
        /\ bootMemRegionsCount = Len(regions)
        /\ prevRegionEndAddr = LastEnd
        /\ LastEnd \in 1 .. WORD
        /\ \A k \in DOMAIN regions : RegionEnd(regions[k]) <= LastEnd
        /\ Listed(pages, LastEnd) /\ Covers(pages, LastEnd) /\ Ram(pages)
  BY <1>1, <1>2, AtEnd
<1>5. InOrder =>
        /\ Listed(qs, LastEnd) /\ Covers(qs, LastEnd) /\ Ram(qs)
        /\ Exact(pages, LastEnd) => Exact(qs, LastEnd)
        /\ DOMAIN qs = DOMAIN pages
        /\ \A i \in DOMAIN pages : i \notin KernelPages => qs[i] = pages[i]
  BY <1>4, MarkedKeeps DEF qs
<1>6. InOrder => /\ Listed(pages', prevRegionEndAddr)
                 /\ Covers(pages', prevRegionEndAddr)
                 /\ Ram(pages)'
  <2>1. InOrder => /\ Listed(pages', LastEnd)
                   /\ Covers(pages', LastEnd)
    BY <1>1, <1>4, <1>5
  <2>2. CASE pages' = qs
    BY <1>3, <1>5, <2>1, <1>4, <2>2 DEF Ram, RegionUnits, RegionEnd
  <2>3. CASE pages' = pages
    BY <1>3, <1>4, <2>1, <2>3 DEF Ram, RegionUnits, RegionEnd
  <2> QED
    BY <1>1, <2>2, <2>3
<1>7. /\ TypeInv' /\ TableRead' /\ NotYet' /\ Found' /\ ListSound'
      /\ InOrder' <=> InOrder
      /\ Aligned' <=> Aligned
      /\ KernelTakesAll' <=> KernelTakesAll
  BY <1>1, <1>2, <1>6, ListStays
<1>8. ASSUME InOrder, Aligned
      PROVE  /\ Exact(pages', prevRegionEndAddr')
             /\ status' = "point" =>
                  KernelTakesAll \/ \E i \in DOMAIN pages' : pages'[i].state = usable
             /\ status' = "wild" => KernelTakesAll
  <2>1. Exact(pages, LastEnd) /\ StatesKept(pages, Len(regions))
    BY <1>1, <1>2, <1>4, <1>8 DEF MInv, AlignedSound
  <2>2. Exact(pages', prevRegionEndAddr')
    BY <1>1, <1>4, <1>5, <1>8, <2>1
  <2>3. (\A i \in DOMAIN pages : pages[i].state = usable => i \in KernelPages) => KernelTakesAll
    <3>1. LastEnd \in Nat /\ LastEnd <= WORD
      BY <1>4, <1>8, Sizes32
    <3> QED
      BY <1>4, <1>8, <2>1, <3>1, TakesRegions
  <2>4. ASSUME status' = "point", ~ KernelTakesAll
        PROVE  \E i \in DOMAIN pages' : pages'[i].state = usable
    <3>1. PICK i \in DOMAIN pages : pages[i].state = usable /\ i \notin KernelPages
      BY <2>3, <2>4
    <3>2. pages' = qs
      BY <1>1, <2>4
    <3> QED
      BY <1>5, <1>8, <3>1, <3>2
  <2>5. ASSUME status' = "wild" PROVE KernelTakesAll
    <3>1. /\ pages \in Seq(PageRec) /\ Cardinality(KernelPages) \in Nat
          /\ ~ (Cardinality(KernelPages) * PAGE_SIZE_BYTES >= KERNEL_MEMORY_REGION_SIZE_BYTES)
      BY <1>1, <1>4, <1>8, <2>5, KernelPagesAre DEF Listed
    <3>2. Cardinality(KernelPages) * PAGE_SIZE_BYTES < KERNEL_MEMORY_REGION_SIZE_BYTES
      <4>1. PICK c \in Nat, d \in Nat : c = Cardinality(KernelPages) /\ d = PAGE_SIZE_BYTES
        BY <3>1, Sizes32
      <4>2. c * d \in Nat /\ KERNEL_MEMORY_REGION_SIZE_BYTES \in Nat
        BY KernelSizeAssumption
      <4> QED
        BY <3>1, <4>1, <4>2
    <3>3. FreeUpTo(Len(pages)) \subseteq KernelPages
      BY <3>1, <3>2, TakesAll
    <3>4. \A i \in DOMAIN pages : pages[i].state = usable => i \in KernelPages
      BY <3>1, <3>3 DEF FreeUpTo, usable, reserved
    <3> QED
      BY <2>3, <3>4
  <2> QED
    BY <2>2, <2>4, <2>5
<1>9. AlignedSound'
  BY <1>2, <1>7, <1>8, Zenon DEF AlignedSound
<1> QED
  BY <1>7, <1>9 DEF MInv

\* setupFreePagePtr.
LEMMA SetupKeeps ==
  ASSUME MInv, SetupFreePagePtr
  PROVE  MInv'
<1>1. /\ status = "point" /\ UNCHANGED loaderVars
      /\ bootMemRegionsCount' = bootMemRegionsCount
      /\ prevRegionEndAddr' = prevRegionEndAddr /\ pages' = pages
      /\ \/ status' = "ready"
         \/ status' = "wild" /\ \A i \in DOMAIN pages : pages[i].state # usable
  BY DEF SetupFreePagePtr
<1>2. Found /\ Following /\ status' \in {"wild", "ready"}
  BY <1>1 DEF Found, Following
<1>3. InOrder => /\ Listed(pages', prevRegionEndAddr)
                 /\ Covers(pages', prevRegionEndAddr)
                 /\ Ram(pages)'
  <2>1. InOrder => /\ Listed(pages, prevRegionEndAddr)
                   /\ Covers(pages, prevRegionEndAddr)
                   /\ Ram(pages)
    BY <1>1, <1>2, AtEnd
  <2>2. regions' = regions
    BY <1>1 DEF loaderVars
  <2> QED
    BY <1>1, <2>1, <2>2 DEF Ram, RegionUnits, RegionEnd
<1>4. /\ TypeInv' /\ TableRead' /\ NotYet' /\ Found' /\ ListSound'
      /\ InOrder' <=> InOrder
      /\ Aligned' <=> Aligned
      /\ KernelTakesAll' <=> KernelTakesAll
  BY <1>1, <1>2, <1>3, ListStays
<1>5. ASSUME InOrder, Aligned
      PROVE  /\ Exact(pages', prevRegionEndAddr')
             /\ status' = "wild" => KernelTakesAll
  BY <1>1, <1>2, <1>5 DEF MInv, AlignedSound
<1>6. AlignedSound'
  BY <1>2, <1>4, <1>5, Zenon DEF AlignedSound
<1> QED
  BY <1>4, <1>6 DEF MInv

\* testVirtualMemory.
LEMMA TestKeeps ==
  ASSUME MInv, TestVirtualMemory
  PROVE  MInv'
<1>1. /\ status = "ready" /\ UNCHANGED loaderVars
      /\ bootMemRegionsCount' = bootMemRegionsCount
      /\ prevRegionEndAddr' = prevRegionEndAddr /\ pages' = pages
      /\ \/ status' = "booted"
         \/ /\ status' = "hung"
            /\ \E u \in 0 .. (TestedBytes - 1) : GetPageAt(u) = NotFound
  BY DEF TestVirtualMemory, listVars
<1>2. Found /\ Following /\ status' \in {"hung", "booted"}
  BY <1>1 DEF Found, Following
<1>3. InOrder => /\ Listed(pages', prevRegionEndAddr)
                 /\ Covers(pages', prevRegionEndAddr)
                 /\ Ram(pages)'
  <2>1. InOrder => /\ Listed(pages, prevRegionEndAddr)
                   /\ Covers(pages, prevRegionEndAddr)
                   /\ Ram(pages)
    BY <1>1, <1>2, AtEnd
  <2>2. regions' = regions
    BY <1>1 DEF loaderVars
  <2> QED
    BY <1>1, <2>1, <2>2 DEF Ram, RegionUnits, RegionEnd
<1>4. /\ TypeInv' /\ TableRead' /\ NotYet' /\ Found' /\ ListSound'
      /\ InOrder' <=> InOrder
      /\ Aligned' <=> Aligned
      /\ LastEnd' = LastEnd
      /\ KernelTakesAll' <=> KernelTakesAll
  BY <1>1, <1>2, <1>3, ListStays
<1>5. ASSUME InOrder, Aligned
      PROVE  /\ Exact(pages', prevRegionEndAddr')
             /\ status' = "hung" => LastEnd < TestedBytes
  <2>1. Exact(pages, prevRegionEndAddr)
    BY <1>1, <1>2, <1>5 DEF MInv, AlignedSound
  <2>2. /\ prevRegionEndAddr = LastEnd /\ LastEnd \in Nat
        /\ Listed(pages, LastEnd) /\ pages # << >> /\ Exact(pages, LastEnd)
    BY <1>1, <1>2, <1>5, <2>1, AtEnd
  <2>3. ASSUME status' = "hung", ~ (LastEnd < TestedBytes)
        PROVE  FALSE
    <3>1. PICK u \in 0 .. (TestedBytes - 1) : GetPageAt(u) = NotFound
      BY <1>1, <2>3
    <3>2. u \in Nat /\ u < LastEnd
      BY <2>2, <2>3, BiosAssumption
    <3>3. PICK d \in Nat \ {0}, L \in Nat : d = PAGE_SIZE_BYTES /\ L = Len(pages)
      <4>1. Len(pages) \in Nat
        BY <2>2 DEF Listed
      <4> QED
        BY <4>1, Sizes32
    <3>4. L * d = LastEnd /\ \A i \in DOMAIN pages : pages[i].base = (i - 1) * d
      BY <2>2, <3>3 DEF Exact
    <3>5. u \div d \in Nat /\ u % d \in Nat /\ u = (u \div d) * d + (u % d)
      <4>1. u \div d \in Nat /\ u % d \in 0 .. (d - 1) /\ u = (u \div d) * d + (u % d)
        BY <3>2, Divided
      <4> QED
        BY <4>1
    <3>6. PICK q \in Nat : q = u \div d
      BY <3>5
    <3>7. q < L
      <4>1. q * d < L * d
        <5>1. q * d \in Nat
          OBVIOUS
        <5> QED
          BY <3>2, <3>4, <3>5, <3>6, <5>1
      <4>2. L <= q => L * d <= q * d
        BY ProductGrows
      <4>3. q * d \in Nat /\ L * d \in Nat
        OBVIOUS
      <4> QED
        BY <4>1, <4>2, <4>3
    <3>8. q + 1 \in DOMAIN pages /\ (q + 1) - 1 = q
      BY <2>2, <3>3, <3>7 DEF Listed
    <3>9. pages[q + 1].base = q * d
      BY <3>4, <3>8, Zenon
    <3>10. GetPageAt(u) \in DOMAIN pages
      <4>1. /\ PageAligned(u) = (u \div PAGE_SIZE_BYTES) * PAGE_SIZE_BYTES
            /\ (\E i \in DOMAIN pages : pages[i].base = PageAligned(u))
                 => GetPageAt(u) \in DOMAIN pages
        BY <2>2, <3>2, FindsPage
      <4> QED
        BY <4>1, <3>3, <3>6, <3>8, <3>9
    <3>11. NotFound \notin DOMAIN pages
      BY <2>2 DEF NotFound, Listed
    <3> QED
      BY <3>1, <3>10, <3>11
  <2> QED
    BY <1>1, <2>1, <2>3
<1>6. AlignedSound'
  BY <1>2, <1>4, <1>5, Zenon DEF AlignedSound
<1> QED
  BY <1>4, <1>6 DEF MInv

-----------------------------------------------------------------------------
(* The theorems *)

\* A step that changes nothing.
LEMMA StutterKeeps ==
  ASSUME MInv, UNCHANGED vars
  PROVE  MInv'
<1>1. UNCHANGED <<status, entryWords, regions, table, memRegionsCount,
                  bootMemRegionsCount, prevRegionEndAddr, pages>>
  BY DEF vars, loaderVars, listVars
<1>2. TypeInv' /\ NotYet'
  BY <1>1 DEF MInv, TypeInv, NotYet, Found
<1>3. TableRead'
  BY <1>1 DEF MInv, TableRead, Entry, Word64, Word
<1>4. /\ InOrder' <=> InOrder
      /\ Aligned' <=> Aligned
      /\ LastEnd' = LastEnd
      /\ KernelTakesAll' <=> KernelTakesAll
      /\ Found' <=> Found
      /\ Following' <=> Following
  BY <1>1 DEF InOrder, Aligned, LastEnd, KernelTakesAll, RegionEnd, Found, Following
<1>5. Ram(pages) => Ram(pages)'
  BY <1>1 DEF Ram, RegionUnits, RegionEnd
<1>6. ListSound'
  BY <1>1, <1>4, <1>5 DEF MInv, ListSound, RegionEnd
<1>7. StatesKept(pages, bootMemRegionsCount) => StatesKept(pages, bootMemRegionsCount)'
  BY <1>1 DEF StatesKept, RegionUnits, RegionEnd
<1>8. AlignedSound'
  BY <1>1, <1>4, <1>7 DEF MInv, AlignedSound
<1> QED
  BY <1>2, <1>3, <1>6, <1>8 DEF MInv

\* The invariant: the descriptors are read as the BIOS wrote them, and the
\* list is sound as far as the constructor and the self tests have come.
THEOREM Invariance == Spec => []MInv
<1>1. Init => MInv
  BY InitMInv
<1>2. MInv /\ [Next]_vars => MInv'
  <2> SUFFICES ASSUME MInv, [Next]_vars PROVE MInv'
    OBVIOUS
  <2>1. CASE NextEntry
    BY <2>1, NextEntryKeeps
  <2>2. CASE ReadRegion
    BY <2>2, ReadRegionKeeps
  <2>3. CASE SelfTests
    BY <2>3, SelfTestsKeeps
  <2>4. CASE ReserveKernelMemory
    BY <2>4, ReserveKeeps
  <2>5. CASE SetupFreePagePtr
    BY <2>5, SetupKeeps
  <2>6. CASE TestVirtualMemory
    BY <2>6, TestKeeps
  <2>7. CASE UNCHANGED vars
    BY <2>7, StutterKeeps
  <2> QED
    BY <2>1, <2>2, <2>3, <2>4, <2>5, <2>6, <2>7 DEF Next
<1> QED
  BY <1>1, <1>2, PTL DEF Spec

\* The list the constructor hands to PhysMem is a map of the machine, on a
\* map in order: what it calls usable is RAM, and no address is left out.
THEOREM ListIsMapAlways == Spec => []ListIsMap
<1>1. MInv => ListIsMap
  <2> SUFFICES ASSUME MInv, InOrder, status = "ready"
               PROVE  UsableIsRam /\ ListCovers
    BY DEF ListIsMap
  <2>1. Following
    BY DEF Following, Found
  <2>2. Covers(pages, LastEnd) /\ Ram(pages)
    BY <2>1, AtEnd
  <2>3. UsableIsRam
    BY <2>2 DEF Ram, UsableIsRam, PageUnits, UnitsAt
  <2>4. ListCovers
    BY <2>2 DEF Covers, ListCovers, PageUnits, UnitsAt
  <2> QED
    BY <2>3, <2>4
<1> QED
  BY <1>1, Invariance, PTL

\* A map of whole pages boots, unless the kernel's memory is all there is or
\* the self test of paging looks further than the map goes; and page i is at
\* address i pages, as PhysMem takes for granted.
THEOREM AlignedMapsBoot == Spec => []AlignedMapBoots
<1>1. MInv => AlignedMapBoots
  <2> SUFFICES ASSUME MInv, InOrder, Aligned, status \in Stopped \ {"bootFailure"}
               PROVE  /\ \A i \in DOMAIN pages : pages[i].base = (i - 1) * PAGE_SIZE_BYTES
                      /\ \/ status = "booted"
                         \/ status = "hung" /\ LastEnd < TestedBytes
                         \/ \A k \in DOMAIN regions : regions[k].state = usable =>
                              RegionEnd(regions[k]) - regions[k].base <=
                                KERNEL_MEMORY_REGION_SIZE_BYTES
    BY DEF AlignedMapBoots
  <2>1. /\ status \notin {"runaway", "panicked"}
        /\ Exact(pages, prevRegionEndAddr)
        /\ status = "wild" => KernelTakesAll
        /\ status = "hung" => LastEnd < TestedBytes
    BY DEF MInv, AlignedSound, Found, Stopped
  <2>2. status \in {"booted", "hung", "wild"}
    BY <2>1 DEF Stopped
  <2>3. ASSUME KernelTakesAll, NEW k \in DOMAIN regions, regions[k].state = usable
        PROVE  RegionEnd(regions[k]) - regions[k].base <= KERNEL_MEMORY_REGION_SIZE_BYTES
    <3>1. regions[k].size <= KERNEL_MEMORY_REGION_SIZE_BYTES
      BY <2>3 DEF KernelTakesAll
    <3>2. regions \in Seq(Region)
      BY DEF MInv, TypeInv
    <3>3. regions[k] \in Region
      BY <3>2
    <3> QED
      BY <3>1, <3>3 DEF RegionEnd, Region
  <2> QED
    BY <2>1, <2>2, <2>3 DEF Exact
<1> QED
  BY <1>1, Invariance, PTL

\* GetPageAt finds the page of every address that has one, and none for the
\* others, on whatever list the constructor made of a map in order.
THEOREM SearchAlwaysFinds == Spec => []SearchFinds
<1>1. MInv => SearchFinds
  <2> SUFFICES ASSUME MInv, InOrder, status = "ready", NEW u \in 0 .. (WORD - 1)
               PROVE  IF \E i \in DOMAIN pages : pages[i].base = PageAligned(u)
                      THEN /\ GetPageAt(u) # NotFound
                           /\ pages[GetPageAt(u)].base = PageAligned(u)
                      ELSE GetPageAt(u) = NotFound
    BY Zenon DEF SearchFinds
  <2>1. Following
    BY DEF Following, Found
  <2>2. Listed(pages, LastEnd) /\ pages # << >>
    BY <2>1, AtEnd
  <2>3. u \in Nat
    BY Sizes32
  <2>4. IF \E i \in DOMAIN pages : pages[i].base = PageAligned(u)
        THEN /\ GetPageAt(u) \in DOMAIN pages
             /\ pages[GetPageAt(u)].base = PageAligned(u)
        ELSE GetPageAt(u) = NotFound
    BY <2>2, <2>3, FindsPage
  <2>5. NotFound \notin DOMAIN pages
    BY <2>2 DEF NotFound, Listed
  <2> QED
    BY <2>4, <2>5
<1> QED
  BY <1>1, Invariance, PTL
=============================================================================
