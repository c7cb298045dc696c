-------------------------- MODULE Descriptors_proofs --------------------------
(***************************************************************************)
(* The tables of the processor and kmain's order, for any addresses of the *)
(* handlers and of the task, any devices, and whatever mask the BIOS left. *)
(*                                                                         *)
(* First, what is written is what is read: the bytes of encodeEntry and    *)
(* the words of EncodeEntryAt decode, bit by bit, to what was encoded      *)
(* (EncodedIsDecoded, GateDecodes).  So a selector within the limit is its *)
(* entry (SegmentIsEntry) and a vector with a gate leads to its handler    *)
(* (VectorsLead).  The invariant DInv says how far each table is at each   *)
(* step of kmain; that a line or an exception goes where it should is      *)
(* needed to keep it, since the processor reads the tables at any step.    *)
(***************************************************************************)
EXTENDS Descriptors, FiniteSetTheorems, FunctionTheorems, TLAPS

-----------------------------------------------------------------------------
(* Words and their bits *)

\* Every set of naturals that has an element has a least one.
LEMMA LeastNatural ==
  ASSUME NEW T \in SUBSET Nat, T # {}
  PROVE  \E m \in T : \A k \in T : m <= k
<1> DEFINE R == OpToRel(<, Nat)
<1>1. IsWellFoundedOn(R, Nat)
  BY NatLessThanWellFounded, Zenon
<1>2. \A x, y \in Nat : x < y => <<x, y>> \in R
  BY DEF OpToRel
<1> HIDE DEF R
<1>3. \E m \in T : \A k \in T : ~ (<<k, m>> \in R)
  BY <1>1, WFMin, Zenon
<1>4. PICK m \in T : \A k \in T : ~ (<<k, m>> \in R)
  BY <1>3
<1>5. ASSUME NEW k \in T PROVE m <= k
  <2>1. ~ (k < m)
    BY <1>2, <1>4
  <2> QED
    BY <2>1
<1> QED
  BY <1>5

\* Powers of two, as the provers need them: 2^k counts the subsets of 1 .. k.
LEMMA PowersOfTwo ==
  ASSUME NEW k \in Nat
  PROVE  /\ 2^k \in Nat \ {0}
         /\ k = 0 => 2^k = 1
         /\ 2^(k+1) = 2 * 2^k
<1>1. ASSUME NEW n \in Nat PROVE IsFiniteSet(SUBSET (1 .. n)) /\ Cardinality(SUBSET (1 .. n)) = 2^n /\ 2^n \in Nat
  <2>1. IsFiniteSet(1..n) /\ Cardinality(1 .. n) = n
    BY FS_Interval
  <2> QED
    BY <2>1, FS_SUBSET, FS_CardinalityType
<1> DEFINE A == SUBSET (1 .. k)
           B == {S \in SUBSET (1 .. (k+1)) : k+1 \in S}
           f == [S \in A |-> S \union {k+1}]
<1>2. SUBSET (1 .. (k+1)) = A \union B
  <2>1. ASSUME NEW S \in SUBSET (1 .. (k+1)), k+1 \notin S PROVE S \in A
    BY <2>1
  <2> QED BY <2>1
<1>3. A \cap B = {}
  OBVIOUS
<1>4. f \in Bijection(A, B)
  <2>1. f \in [A -> B]
    OBVIOUS
  <2>2. ASSUME NEW S \in A, NEW T \in A, f[S] = f[T] PROVE S = T
    <3>1. k+1 \notin S /\ k+1 \notin T
      OBVIOUS
    <3>2. S \union {k+1} = T \union {k+1}
      BY <2>2
    <3> QED BY <3>1, <3>2
  <2>3. ASSUME NEW T \in B PROVE \E S \in A : f[S] = T
    <3>1. T \ {k+1} \in A /\ f[T \ {k+1}] = T
      OBVIOUS
    <3> QED BY <3>1
  <2> QED
    BY <2>1, <2>2, <2>3, Fun_IsBij
<1>5. IsFiniteSet(A) /\ Cardinality(A) = 2^k /\ 2^k \in Nat
  BY <1>1
<1>6. Cardinality(SUBSET (1 .. (k + 1))) = 2^(k+1)
  <2>1. k + 1 \in Nat
    OBVIOUS
  <2> QED
    BY <2>1, <1>1, Zenon
<1> HIDE DEF A, B, f
<1>7. Cardinality(A \union B) = 2^(k+1)
  BY <1>2, <1>6
<1>8. ExistsBijection(A, B)
  BY <1>4 DEF ExistsBijection
<1>9. IsFiniteSet(B) /\ Cardinality(B) = 2^k
  BY <1>5, <1>8, FS_Bijection
<1>10. Cardinality(A \union B) = Cardinality(A) + Cardinality(B) - Cardinality(A \cap B)
  BY <1>5, <1>9, FS_Union
<1>11. Cardinality(A \cap B) = 0
  BY <1>3, FS_EmptySet
<1>12. Cardinality(A \union B) = 2^k + 2^k - 0
  BY <1>5, <1>9, <1>10, <1>11
<1>13. 2^(k+1) = 2^k + 2^k - 0
  BY <1>7, <1>12
<1>14. 2^k # 0
  <2>1. A # {}
    BY DEF A
  <2> QED
    BY <2>1, <1>5, FS_EmptySet
<1>15. ASSUME k = 0 PROVE 2^k = 1
  <2>1. A = {{}}
    BY <1>15 DEF A
  <2> QED
    BY <2>1, <1>5, FS_Singleton
<1> QED
  BY <1>5, <1>13, <1>14, <1>15

\* A number below 2^K has no bit from K on.
LEMMA BitsBelow ==
  ASSUME NEW K \in Nat, NEW n \in Nat, n < 2^K
  PROVE  BitsOf(n) \in SUBSET (0 .. (K - 1))
<1> DEFINE T == {b \in Nat : b >= K /\ 2^b < 2^K}
<1>1. \A b : b \in T <=> b \in Nat /\ b >= K /\ 2^b < 2^K
  OBVIOUS
<1> HIDE DEF T
<1>2. ASSUME T # {} PROVE FALSE
  <2>1. PICK m \in T : \A k \in T : m <= k
    <3>1. T \in SUBSET Nat
      BY <1>1
    <3> QED
      BY <1>2, <3>1, LeastNatural
  <2>2. m \in Nat /\ m >= K /\ 2^m < 2^K
    BY <1>1
  <2>3. m # K
    <3>1. 2^K \in Nat
      BY PowersOfTwo
    <3>2. m = K => 2^m = 2^K
      OBVIOUS
    <3> QED
      BY <2>2, <3>1, <3>2
  <2>4. PICK i \in Nat : i + 1 = m
    BY <2>2, <2>3
  <2>5. i >= K
    BY <2>2, <2>3, <2>4
  <2>6. 2^m = 2 * 2^i /\ 2^i \in Nat \ {0}
    <3>1. 2^(i + 1) = 2 * 2^i /\ 2^i \in Nat \ {0}
      BY PowersOfTwo
    <3> QED
      BY <2>4, <3>1
  <2>7. 2^i < 2^K
    <3>1. 2^K \in Nat
      BY PowersOfTwo
    <3> QED
      BY <2>2, <2>6, <3>1
  <2>8. i \in T
    BY <1>1, <2>5, <2>7
  <2>9. m <= i
    BY <2>1, <2>8
  <2> QED
    BY <2>2, <2>4, <2>9
<1>3. ASSUME NEW b \in BitsOf(n) PROVE b \in 0 .. (K - 1)
  <2>1. b \in 0 .. 30 /\ (n \div 2^b) % 2 = 1
    BY <1>3 DEF BitsOf
  <2>2. 2^b \in Nat \ {0} /\ 2^K \in Nat
    BY <2>1, PowersOfTwo
  <2>3. ASSUME b >= K PROVE FALSE
    <3>1. ~ (2^b < 2^K)
      BY <1>1, <1>2, <2>1, <2>3
    <3>2. n < 2^b
      BY <2>2, <3>1
    <3>3. PICK p \in Nat \ {0} : p = 2^b
      BY <2>2
    <3>4. n \div p = 0
      BY <3>2, <3>3
    <3> QED
      BY <2>1, <3>3, <3>4
  <2> QED
    BY <2>1, <2>3
<1> QED
  BY <1>3

\* The bits of a shifted word.
LEMMA ShiftBits ==
  ASSUME NEW w \in SUBSET Int, NEW k \in Int
  PROVE  /\ Shift(w, k) \in SUBSET Int
         /\ \A b \in Int : b \in Shift(w, k) <=> b - k \in w
<1>1. Shift(w, k) \in SUBSET Int
  BY DEF Shift
<1>2. ASSUME NEW b \in Int, b - k \in w PROVE b \in Shift(w, k)
  <2>1. b = (b - k) + k
    OBVIOUS
  <2> QED
    BY <1>2, <2>1 DEF Shift
<1>3. ASSUME NEW b \in Int, b \in Shift(w, k) PROVE b - k \in w
  <2>1. PICK c \in w : b = c + k
    BY <1>3 DEF Shift
  <2>2. b - k = c
    BY <2>1
  <2> QED
    BY <2>1, <2>2
<1> QED
  BY <1>1, <1>2, <1>3

\* The bits of a byte of a word.
LEMMA ByteBits ==
  ASSUME NEW w \in SUBSET Int, NEW n \in Nat
  PROVE  /\ Byte(w, n) \in SUBSET (0 .. 7)
         /\ \A b \in Int : b \in Byte(w, n) <=> b \in 0 .. 7 /\ b + 8 * n \in w
<1> DEFINE f == Field(w, 8 * n, 8 * n + 7)
<1>1. f \in SUBSET Int /\ -8 * n \in Int
  BY DEF Field
<1>2. ASSUME NEW b \in Int PROVE b \in Byte(w, n) <=> b \in 0 .. 7 /\ b + 8 * n \in w
  <2>1. b \in Byte(w, n) <=> b - (-8 * n) \in f
    BY <1>1, ShiftBits DEF Byte
  <2>2. b - (-8 * n) = b + 8 * n
    OBVIOUS
  <2>3. b + 8 * n \in 8 * n .. 8 * n + 7 <=> b \in 0 .. 7
    OBVIOUS
  <2> QED
    BY <2>1, <2>2, <2>3 DEF Field
<1>3. Byte(w, n) \in SUBSET Int
  BY <1>1, ShiftBits DEF Byte
<1> QED
  BY <1>2, <1>3

-----------------------------------------------------------------------------
(* What is written in the tables is what is read *)

Descriptor ==
  [base : SUBSET (0 .. 31), limit : SUBSET (0 .. 19), access : SUBSET (0 .. 7),
   flags : SUBSET (0 .. 3)]

\* What the processor makes of the eight bytes of an entry.
Decoded(b) ==
  [base |-> b[3] \union Shift(b[4], 8) \union Shift(b[5], 16) \union Shift(b[8], 24),
   limit |-> b[1] \union Shift(b[2], 8) \union Shift(Field(b[7], 0, 3), 16),
   access |-> b[6],
   flags |-> Shift(Field(b[7], 4, 7), -4)]

\* encodeEntry loses nothing of an entry whose parts fit their fields.
LEMMA EncodedIsDecoded ==
  ASSUME NEW e \in Descriptor
  PROVE  Decoded(encodeEntry(e)) = e
<1> DEFINE mix == Field(Shift(e.flags, 4), 0, 7) \union Field(Byte(e.limit, 2), 0, 3)
<1>1. /\ e.base \in SUBSET (0 .. 31) /\ e.limit \in SUBSET (0 .. 19)
      /\ e.access \in SUBSET (0 .. 7) /\ e.flags \in SUBSET (0 .. 3)
      /\ e = [base |-> e.base, limit |-> e.limit, access |-> e.access, flags |-> e.flags]
  BY DEF Descriptor
<1>2. e.base \in SUBSET Int /\ e.limit \in SUBSET Int /\ e.flags \in SUBSET Int
  BY <1>1
<1>3. \A n \in Nat : /\ Byte(e.base, n) \in SUBSET (0 .. 7) /\ Byte(e.base, n) \in SUBSET Int
                     /\ \A b \in Int : b \in Byte(e.base, n) <=> b \in 0 .. 7 /\ b + 8 * n \in e.base
  BY <1>2, ByteBits
<1>4. \A n \in Nat : /\ Byte(e.limit, n) \in SUBSET (0 .. 7) /\ Byte(e.limit, n) \in SUBSET Int
                     /\ \A b \in Int : b \in Byte(e.limit, n) <=> b \in 0 .. 7 /\ b + 8 * n \in e.limit
  BY <1>2, ByteBits
<1>5. /\ mix \in SUBSET Int
      /\ \A b \in Int : b \in mix <=> (b \in 4 .. 7 /\ b - 4 \in e.flags) \/ (b \in 0 .. 3 /\ b + 16 \in e.limit)
  <2>1. Shift(e.flags, 4) \in SUBSET Int /\ \A b \in Int : b \in Shift(e.flags, 4) <=> b - 4 \in e.flags
    BY <1>2, ShiftBits
  <2>2. ASSUME NEW b \in Int
        PROVE  b \in mix <=> (b \in 4 .. 7 /\ b - 4 \in e.flags) \/ (b \in 0 .. 3 /\ b + 16 \in e.limit)
    <3>1. b \in Byte(e.limit, 2) <=> b \in 0 .. 7 /\ b + 16 \in e.limit
      BY <1>4
    <3>2. b \in Shift(e.flags, 4) <=> b - 4 \in e.flags
      BY <2>1
    <3>3. b - 4 \in e.flags => b - 4 \in 0 .. 3
      BY <1>1
    <3> QED
      BY <3>1, <3>2, <3>3 DEF Field
  <2> QED
    BY <2>1, <2>2, <1>4 DEF Field
<1>6. encodeEntry(e) =
        <<Byte(e.limit, 0), Byte(e.limit, 1), Byte(e.base, 0), Byte(e.base, 1),
          Byte(e.base, 2), e.access, mix, Byte(e.base, 3)>>
  BY DEF encodeEntry
<1> HIDE DEF mix
<1>7. Byte(e.base, 0) \union Shift(Byte(e.base, 1), 8) \union
      Shift(Byte(e.base, 2), 16) \union Shift(Byte(e.base, 3), 24) = e.base
  <2>1. \A k \in {8, 16, 24} : \A n \in Nat :
          /\ Shift(Byte(e.base, n), k) \in SUBSET Int
          /\ \A b \in Int : b \in Shift(Byte(e.base, n), k) <=> b - k \in Byte(e.base, n)
    BY <1>3, ShiftBits
  <2>2. ASSUME NEW b \in Int
        PROVE  \/ b \in Byte(e.base, 0) \/ b \in Shift(Byte(e.base, 1), 8)
               \/ b \in Shift(Byte(e.base, 2), 16) \/ b \in Shift(Byte(e.base, 3), 24)
               <=> b \in e.base
    <3>1. b \in Byte(e.base, 0) <=> b \in 0 .. 7 /\ b \in e.base
      <4>1. b + 8 * 0 = b
        OBVIOUS
      <4> QED
        BY <1>3, <4>1
    <3>2. b \in Shift(Byte(e.base, 1), 8) <=> b \in 8 .. 15 /\ b \in e.base
      <4>1. (b - 8) + 8 * 1 = b /\ (b - 8 \in 0 .. 7 <=> b \in 8 .. 15) /\ b - 8 \in Int
        OBVIOUS
      <4> QED
        BY <1>3, <2>1, <4>1
    <3>3. b \in Shift(Byte(e.base, 2), 16) <=> b \in 16 .. 23 /\ b \in e.base
      <4>1. (b - 16) + 8 * 2 = b /\ (b - 16 \in 0 .. 7 <=> b \in 16 .. 23) /\ b - 16 \in Int
        OBVIOUS
      <4> QED
        BY <1>3, <2>1, <4>1
    <3>4. b \in Shift(Byte(e.base, 3), 24) <=> b \in 24 .. 31 /\ b \in e.base
      <4>1. (b - 24) + 8 * 3 = b /\ (b - 24 \in 0 .. 7 <=> b \in 24 .. 31) /\ b - 24 \in Int
        OBVIOUS
      <4> QED
        BY <1>3, <2>1, <4>1
    <3>5. b \in e.base => b \in 0 .. 31
      BY <1>1
    <3> QED
      BY <3>1, <3>2, <3>3, <3>4, <3>5
  <2>3. /\ Byte(e.base, 0) \in SUBSET Int /\ Shift(Byte(e.base, 1), 8) \in SUBSET Int
        /\ Shift(Byte(e.base, 2), 16) \in SUBSET Int /\ Shift(Byte(e.base, 3), 24) \in SUBSET Int
    BY <1>3, <2>1
  <2> QED
    BY <2>2, <2>3, <1>2
<1>8. Byte(e.limit, 0) \union Shift(Byte(e.limit, 1), 8) \union Shift(Field(mix, 0, 3), 16) = e.limit
  <2>1. /\ Shift(Byte(e.limit, 1), 8) \in SUBSET Int
        /\ \A b \in Int : b \in Shift(Byte(e.limit, 1), 8) <=> b - 8 \in Byte(e.limit, 1)
    BY <1>4, ShiftBits
  <2>2. Field(mix, 0, 3) \in SUBSET Int
    BY DEF Field
  <2>3. /\ Shift(Field(mix, 0, 3), 16) \in SUBSET Int
        /\ \A b \in Int : b \in Shift(Field(mix, 0, 3), 16) <=> b - 16 \in Field(mix, 0, 3)
    BY <2>2, ShiftBits
  <2>4. ASSUME NEW b \in Int
        PROVE  \/ b \in Byte(e.limit, 0) \/ b \in Shift(Byte(e.limit, 1), 8)
               \/ b \in Shift(Field(mix, 0, 3), 16)
               <=> b \in e.limit
    <3>1. b \in Byte(e.limit, 0) <=> b \in 0 .. 7 /\ b \in e.limit
      <4>1. b + 8 * 0 = b
        OBVIOUS
      <4> QED
        BY <1>4, <4>1
    <3>2. b \in Shift(Byte(e.limit, 1), 8) <=> b \in 8 .. 15 /\ b \in e.limit
      <4>1. (b - 8) + 8 * 1 = b /\ (b - 8 \in 0 .. 7 <=> b \in 8 .. 15) /\ b - 8 \in Int
        OBVIOUS
      <4> QED
        BY <1>4, <2>1, <4>1
    <3>3. b \in Shift(Field(mix, 0, 3), 16) <=> b \in 16 .. 19 /\ b \in e.limit
      <4>1. (b - 16) + 16 = b /\ (b - 16 \in 0 .. 3 <=> b \in 16 .. 19) /\ b - 16 \in Int
        OBVIOUS
      <4>2. b - 16 \in Field(mix, 0, 3) <=> b - 16 \in 0 .. 3 /\ b \in e.limit
        BY <1>5, <4>1 DEF Field
      <4> QED
        BY <2>3, <4>1, <4>2
    <3>4. b \in e.limit => b \in 0 .. 19
      BY <1>1
    <3> QED
      BY <3>1, <3>2, <3>3, <3>4
  <2> QED
    BY <2>1, <2>3, <2>4, <1>2, <1>4
<1>9. Shift(Field(mix, 4, 7), -4) = e.flags
  <2>1. Field(mix, 4, 7) \in SUBSET Int /\ -4 \in Int
    BY DEF Field
  <2>2. /\ Shift(Field(mix, 4, 7), -4) \in SUBSET Int
        /\ \A b \in Int : b \in Shift(Field(mix, 4, 7), -4) <=> b - (-4) \in Field(mix, 4, 7)
    BY <2>1, ShiftBits
  <2>3. ASSUME NEW b \in Int PROVE b \in Shift(Field(mix, 4, 7), -4) <=> b \in e.flags
    <3>1. b - (-4) = b + 4 /\ (b + 4) - 4 = b /\ (b + 4 \in 4 .. 7 <=> b \in 0 .. 3) /\ b + 4 \in Int
          /\ ~ (b + 4 \in 4 .. 7 /\ b + 4 \in 0 .. 3)
      OBVIOUS
    <3>2. b + 4 \in Field(mix, 4, 7) <=> b + 4 \in 4 .. 7 /\ b \in e.flags
      BY <1>5, <3>1 DEF Field
    <3>3. b \in e.flags => b \in 0 .. 3
      BY <1>1
    <3> QED
      BY <2>2, <3>1, <3>2, <3>3
  <2> QED
    BY <2>2, <2>3, <1>2
<1> QED
  BY <1>1, <1>6, <1>7, <1>8, <1>9 DEF Decoded

\* A gate's four words come back from their places.
LEMMA GateFields ==
  ASSUME NEW a \in SUBSET (0 .. 31), NEW s \in SUBSET (0 .. 15), NEW f \in SUBSET (0 .. 15),
         NEW g, g = EncodeEntryAt(IDTEntryWith(a, s, f))
  PROVE  /\ g \in SUBSET Int
         /\ \A b \in Int : b \in g <=> \/ b \in 0 .. 15 /\ b \in a
                                       \/ b \in 16 .. 31 /\ b - 16 \in s
                                       \/ b \in 32 .. 47 /\ b - 32 \in f
                                       \/ b \in 48 .. 63 /\ b - 32 \in a
<1> DEFINE low == Field(a, 0, 15)
           high == Shift(Field(a, 16, 31), -16)
           top == Shift(high, 16) \union f
<1>1. a \in SUBSET Int /\ s \in SUBSET Int /\ f \in SUBSET Int
  OBVIOUS
<1>2. g = Shift(s, 16) \union low \union Shift(top, 32)
  BY DEF EncodeEntryAt, IDTEntryWith
<1>3. low \in SUBSET Int /\ \A b \in Int : b \in low <=> b \in 0 .. 15 /\ b \in a
  BY <1>1 DEF Field
<1>4. high \in SUBSET Int /\ \A b \in Int : b \in high <=> b \in 0 .. 15 /\ b + 16 \in a
  <2>1. Field(a, 16, 31) \in SUBSET Int /\ -16 \in Int
    BY <1>1 DEF Field
  <2>2. high \in SUBSET Int /\ \A b \in Int : b \in high <=> b - (-16) \in Field(a, 16, 31)
    BY <2>1, ShiftBits
  <2>3. ASSUME NEW b \in Int PROVE b \in high <=> b \in 0 .. 15 /\ b + 16 \in a
    <3>1. b - (-16) = b + 16 /\ (b + 16 \in 16 .. 31 <=> b \in 0 .. 15)
      OBVIOUS
    <3> QED
      BY <2>2, <3>1 DEF Field
  <2> QED
    BY <2>2, <2>3
<1> HIDE DEF low, high
<1>5. top \in SUBSET Int /\ \A b \in Int : b \in top <=> (b \in 16 .. 31 /\ b \in a) \/ b \in f
  <2>1. Shift(high, 16) \in SUBSET Int /\ \A b \in Int : b \in Shift(high, 16) <=> b - 16 \in high
    BY <1>4, ShiftBits
  <2>2. ASSUME NEW b \in Int PROVE b \in Shift(high, 16) <=> b \in 16 .. 31 /\ b \in a
    <3>1. (b - 16) + 16 = b /\ b - 16 \in Int /\ (b - 16 \in 0 .. 15 <=> b \in 16 .. 31)
      OBVIOUS
    <3> QED
      BY <1>4, <2>1, <3>1
  <2> QED
    BY <1>1, <2>1, <2>2
<1> HIDE DEF top
<1>6. Shift(s, 16) \in SUBSET Int /\ \A b \in Int : b \in Shift(s, 16) <=> b - 16 \in s
  BY <1>1, ShiftBits
<1>7. Shift(top, 32) \in SUBSET Int /\ \A b \in Int : b \in Shift(top, 32) <=> b - 32 \in top
  BY <1>5, ShiftBits
<1>8. ASSUME NEW b \in Int
      PROVE  b \in g <=> \/ b \in 0 .. 15 /\ b \in a
                         \/ b \in 16 .. 31 /\ b - 16 \in s
                         \/ b \in 32 .. 47 /\ b - 32 \in f
                         \/ b \in 48 .. 63 /\ b - 32 \in a
  <2>1. b - 16 \in s => b \in 16 .. 31
    <3>1. b - 16 \in s => b - 16 \in 0 .. 15
      OBVIOUS
    <3> QED
      BY <3>1
  <2>2. b - 32 \in f => b \in 32 .. 47
    <3>1. b - 32 \in f => b - 32 \in 0 .. 15
      OBVIOUS
    <3> QED
      BY <3>1
  <2>3. (b - 32 \in 16 .. 31 <=> b \in 48 .. 63) /\ b - 32 \in Int
    OBVIOUS
  <2>4. b \in Shift(top, 32) <=> (b \in 48 .. 63 /\ b - 32 \in a) \/ b - 32 \in f
    BY <1>5, <1>7, <2>3
  <2> QED
    BY <1>2, <1>3, <1>6, <2>1, <2>2, <2>4
<1> QED
  BY <1>2, <1>3, <1>6, <1>7, <1>8

\* So the processor gets the offset, the segment and the flags that were put
\* in, and so does the constructor that takes the 64 bits.
LEMMA GateDecodes ==
  ASSUME NEW a \in SUBSET (0 .. 31), NEW s \in SUBSET (0 .. 15), NEW f \in SUBSET (0 .. 15),
         NEW g, g = EncodeEntryAt(IDTEntryWith(a, s, f))
  PROVE  /\ Field(g, 0, 15) = Field(a, 0, 15)
         /\ Shift(Field(g, 48, 63), -32) = Field(a, 16, 31)
         /\ Shift(Field(g, 16, 31), -16) = s
         /\ Field(g, 40, 47) = Shift(Field(f, 8, 15), 32)
         /\ Field(Shift(Field(g, 32, 47), -32), 8, 15) = Field(f, 8, 15)
         /\ Shift(Shift(Field(g, 48, 63), -48), 16) = Field(a, 16, 31)
<1>1. /\ g \in SUBSET Int
      /\ \A b \in Int : b \in g <=> \/ b \in 0 .. 15 /\ b \in a
                                    \/ b \in 16 .. 31 /\ b - 16 \in s
                                    \/ b \in 32 .. 47 /\ b - 32 \in f
                                    \/ b \in 48 .. 63 /\ b - 32 \in a
  BY GateFields
<1>2. a \in SUBSET Int /\ s \in SUBSET Int /\ f \in SUBSET Int
  OBVIOUS
<1>3. \A m, n \in Int : Field(g, m, n) \in SUBSET Int /\ \A b \in Int : b \in Field(g, m, n) <=> b \in g /\ b \in m .. n
  BY <1>1 DEF Field
<1>4. /\ \A b \in Int : b \in Field(g, 0, 15) <=> b \in 0 .. 15 /\ b \in a
      /\ \A b \in Int : b \in Field(g, 16, 31) <=> b \in 16 .. 31 /\ b - 16 \in s
      /\ \A b \in Int : b \in Field(g, 32, 47) <=> b \in 32 .. 47 /\ b - 32 \in f
      /\ \A b \in Int : b \in Field(g, 40, 47) <=> b \in 40 .. 47 /\ b - 32 \in f
      /\ \A b \in Int : b \in Field(g, 48, 63) <=> b \in 48 .. 63 /\ b - 32 \in a
  BY <1>1, <1>3
<1>5. Field(g, 0, 15) = Field(a, 0, 15)
  BY <1>2, <1>3, <1>4 DEF Field
<1>6. Shift(Field(g, 48, 63), -32) = Field(a, 16, 31)
  <2>1. /\ Shift(Field(g, 48, 63), -32) \in SUBSET Int
        /\ \A b \in Int : b \in Shift(Field(g, 48, 63), -32) <=> b - (-32) \in Field(g, 48, 63)
    BY <1>3, ShiftBits
  <2>2. ASSUME NEW b \in Int PROVE b \in Shift(Field(g, 48, 63), -32) <=> b \in Field(a, 16, 31)
    <3>1. b - (-32) = b + 32 /\ (b + 32) - 32 = b /\ (b + 32 \in 48 .. 63 <=> b \in 16 .. 31) /\ b + 32 \in Int
      OBVIOUS
    <3> QED
      BY <1>4, <2>1, <3>1 DEF Field
  <2>3. Field(a, 16, 31) \in SUBSET Int
    BY <1>2 DEF Field
  <2> QED
    BY <2>1, <2>2, <2>3
<1>7. Shift(Field(g, 16, 31), -16) = s
  <2>1. /\ Shift(Field(g, 16, 31), -16) \in SUBSET Int
        /\ \A b \in Int : b \in Shift(Field(g, 16, 31), -16) <=> b - (-16) \in Field(g, 16, 31)
    BY <1>3, ShiftBits
  <2>2. ASSUME NEW b \in Int PROVE b \in Shift(Field(g, 16, 31), -16) <=> b \in s
    <3>1. b - (-16) = b + 16 /\ (b + 16) - 16 = b /\ (b + 16 \in 16 .. 31 <=> b \in 0 .. 15) /\ b + 16 \in Int
      OBVIOUS
    <3>2. b \in s => b \in 0 .. 15
      OBVIOUS
    <3> QED
      BY <1>4, <2>1, <3>1, <3>2
  <2> QED
    BY <1>2, <2>1, <2>2
<1>8. Field(g, 40, 47) = Shift(Field(f, 8, 15), 32)
  <2>1. Field(f, 8, 15) \in SUBSET Int
    BY <1>2 DEF Field
  <2>2. /\ Shift(Field(f, 8, 15), 32) \in SUBSET Int
        /\ \A b \in Int : b \in Shift(Field(f, 8, 15), 32) <=> b - 32 \in Field(f, 8, 15)
    BY <2>1, ShiftBits
  <2>3. ASSUME NEW b \in Int PROVE b \in Shift(Field(f, 8, 15), 32) <=> b \in Field(g, 40, 47)
    <3>1. b - 32 \in 8 .. 15 <=> b \in 40 .. 47
      OBVIOUS
    <3> QED
      BY <1>4, <2>2, <3>1 DEF Field
  <2>4. Field(g, 40, 47) \in SUBSET Int
    BY <1>3
  <2> QED
    BY <2>2, <2>3, <2>4
<1>9. Field(Shift(Field(g, 32, 47), -32), 8, 15) = Field(f, 8, 15)
  <2>1. /\ Shift(Field(g, 32, 47), -32) \in SUBSET Int
        /\ \A b \in Int : b \in Shift(Field(g, 32, 47), -32) <=> b - (-32) \in Field(g, 32, 47)
    BY <1>3, ShiftBits
  <2>2. ASSUME NEW b \in Int PROVE b \in Shift(Field(g, 32, 47), -32) <=> b \in f
    <3>1. b - (-32) = b + 32 /\ (b + 32) - 32 = b /\ (b + 32 \in 32 .. 47 <=> b \in 0 .. 15) /\ b + 32 \in Int
      OBVIOUS
    <3>2. b \in f => b \in 0 .. 15
      OBVIOUS
    <3> QED
      BY <1>4, <2>1, <3>1, <3>2
  <2>3. Shift(Field(g, 32, 47), -32) = f
    BY <1>2, <2>1, <2>2
  <2> QED
    BY <2>3
<1>10. Shift(Shift(Field(g, 48, 63), -48), 16) = Field(a, 16, 31)
  <2>1. /\ Shift(Field(g, 48, 63), -48) \in SUBSET Int
        /\ \A b \in Int : b \in Shift(Field(g, 48, 63), -48) <=> b - (-48) \in Field(g, 48, 63)
    BY <1>3, ShiftBits
  <2>2. /\ Shift(Shift(Field(g, 48, 63), -48), 16) \in SUBSET Int
        /\ \A b \in Int : b \in Shift(Shift(Field(g, 48, 63), -48), 16) <=> b - 16 \in Shift(Field(g, 48, 63), -48)
    BY <2>1, ShiftBits
  <2>3. ASSUME NEW b \in Int
        PROVE  b \in Shift(Shift(Field(g, 48, 63), -48), 16) <=> b \in Field(a, 16, 31)
    <3>1. (b - 16) - (-48) = b + 32 /\ (b + 32) - 32 = b /\ (b + 32 \in 48 .. 63 <=> b \in 16 .. 31)
          /\ b + 32 \in Int /\ b - 16 \in Int
      OBVIOUS
    <3>2. b \in Shift(Shift(Field(g, 48, 63), -48), 16) <=> b + 32 \in Field(g, 48, 63)
      BY <2>1, <2>2, <3>1
    <3> QED
      BY <1>4, <3>1, <3>2 DEF Field
  <2>4. Field(a, 16, 31) \in SUBSET Int
    BY <1>2 DEF Field
  <2> QED
    BY <2>2, <2>3, <2>4
<1> QED
  BY <1>5, <1>6, <1>7, <1>8, <1>9, <1>10

\* A digit has four bits, and 8 is the only selector with the bits of 8.
LEMMA Digits ==
  /\ \A n \in 0 .. 15 : BitsOf(n) \in SUBSET (0 .. 3)
  /\ BitsOf(0) = {}
  /\ BitsOf(GDT_KERNEL_CODE_DESCRIPTOR_SEL) \in DOMAIN SelectorAt
  /\ SelectorAt[BitsOf(GDT_KERNEL_CODE_DESCRIPTOR_SEL)] = 8
<1>1. PICK k \in 0 .. 31 : k = 4
  OBVIOUS
<1>2. 2^k = 16
  <2>1. 2^0 = 1 /\ 2^(0+1) = 2 * 2^0 /\ 2^(1+1) = 2 * 2^1 /\ 2^(2+1) = 2 * 2^2 /\ 2^(3+1) = 2 * 2^3
    BY PowersOfTwo
  <2> QED
    BY <1>1, <2>1
<1>3. ASSUME NEW n \in 0 .. 15 PROVE BitsOf(n) \in SUBSET (0 .. 3)
  <2>1. n < 2^k
    BY <1>2
  <2>2. BitsOf(n) \in SUBSET (0 .. (k - 1))
    BY <2>1, BitsBelow
  <2> QED
    BY <1>1, <2>2
<1>4. BitsOf(0) = {}
  <2>1. PICK j \in Nat : j = 0
    OBVIOUS
  <2>2. 0 < 2^j
    BY <2>1, PowersOfTwo
  <2>3. BitsOf(0) \in SUBSET (0 .. (j - 1))
    BY <2>2, BitsBelow
  <2> QED
    BY <2>1, <2>3
<1>5. \A n \in {8 * i : i \in 1 .. 5} : BitsOf(n) = BitsOf(8) => n = 8
  <2>1. 2^3 = 8 /\ 2^4 = 16 /\ 2^5 = 32
    <3>1. /\ 2^0 = 1 /\ 2^(0+1) = 2 * 2^0 /\ 2^(1+1) = 2 * 2^1 /\ 2^(2+1) = 2 * 2^2
          /\ 2^(3+1) = 2 * 2^3 /\ 2^(4+1) = 2 * 2^4
      BY PowersOfTwo
    <3> QED
      BY <3>1
  <2>2. /\ \A n : 3 \in BitsOf(n) <=> (n \div 8) % 2 = 1
        /\ \A n : 4 \in BitsOf(n) <=> (n \div 16) % 2 = 1
        /\ \A n : 5 \in BitsOf(n) <=> (n \div 32) % 2 = 1
    BY <2>1 DEF BitsOf
  <2>3. 3 \in BitsOf(8) /\ 4 \notin BitsOf(8) /\ 5 \notin BitsOf(8)
    BY <2>2
  <2>4. 3 \notin BitsOf(16) /\ 4 \in BitsOf(24) /\ 5 \in BitsOf(32) /\ 5 \in BitsOf(40)
    BY <2>2
  <2>5. {8 * i : i \in 1 .. 5} = {8, 16, 24, 32, 40}
    OBVIOUS
  <2> QED
    BY <2>3, <2>4, <2>5
<1>6. 8 \in {8 * i : i \in 1 .. 5}
  OBVIOUS
<1>7. /\ BitsOf(8) \in DOMAIN SelectorAt
      /\ SelectorAt[BitsOf(8)] = 8
  <2>1. BitsOf(8) \in {BitsOf(8 * i) : i \in 1 .. 5}
    OBVIOUS
  <2>2. \E n \in {8 * i : i \in 1 .. 5} : BitsOf(n) = BitsOf(8)
    BY <1>6
  <2> QED
    BY <1>5, <2>1, <2>2 DEF SelectorAt
<1> QED
  BY <1>3, <1>4, <1>7 DEF GDT_KERNEL_CODE_DESCRIPTOR_SEL

\* The widths of the counters that RefreshGDT computes with.
LEMMA Powers == 320 % 2^16 = 320 /\ 384 % 2^16 = 384
<1>1. PICK k \in Nat : k = 12
  OBVIOUS
<1>2. /\ 2^(k + 1) = 2 * 2^k /\ 2^(k + 1 + 1) = 2 * 2^(k + 1)
      /\ 2^(k + 1 + 1 + 1) = 2 * 2^(k + 1 + 1) /\ 2^(k + 1 + 1 + 1 + 1) = 2 * 2^(k + 1 + 1 + 1)
      /\ 2^k \in Nat \ {0}
  BY PowersOfTwo
<1>3. 2^16 = 16 * 2^k
  BY <1>1, <1>2
<1> QED
  BY <1>1

\* The vectors of the IDT: where each gate leads.
HandlerOf(v) ==
  IF v < countDefinedInterrupts THEN interruptVector[v]
  ELSE IF v < 254 THEN interruptVector[9] ELSE "SpuriousHandler"

LEMMA NamedOnce == \A h, k \in DOMAIN Named : Named[h] = Named[k] => h = k
BY DEF Named

LEMMA VectorNames ==
  /\ \A h \in DOMAIN Named : interruptVector[Named[h]] = h
  /\ \A v \in 0 .. 63 : (\A h \in DOMAIN Named : Named[h] # v) =>
       interruptVector[v] \in {"BadInterrupt", "BadHRDWRInterrupt"}
<1>1. ASSUME NEW h \in DOMAIN Named PROVE interruptVector[Named[h]] = h
  <2>1. Named[h] \in 0 .. 63
    BY DEF Named
  <2> QED
    BY <2>1, NamedOnce DEF interruptVector
<1>2. ASSUME NEW v \in 0 .. 63, \A h \in DOMAIN Named : Named[h] # v
      PROVE  interruptVector[v] \in {"BadInterrupt", "BadHRDWRInterrupt"}
  BY <1>2 DEF interruptVector
<1> QED
  BY <1>1, <1>2

\* Where the vectors lead.
LEMMA HandlersOfVectors ==
  /\ \A v \in 0 .. 254 : HandlerOf(v) \in Handlers
  /\ \A v \in Exceptions : /\ HandlerOf(v) \in Handlers \ Returns
                           /\ HandlerOf(v) \in TakesErrCode <=> v \in PushesErrCode
  /\ HandlerOf(48) = "PITTimerHandler" /\ HandlerOf(49) = "KeyboardHandler"
  /\ HandlerOf(13) = "GeneralProtectionFault"
  /\ \A v \in (22 .. 253) \ ((32 .. 37) \union {48, 49}) : HandlerOf(v) \in Handlers \ Returns
<1>1. \A h \in DOMAIN Named : Named[h] < countDefinedInterrupts => HandlerOf(Named[h]) = h
  BY VectorNames DEF HandlerOf
<1>2. \A h \in DOMAIN Named : Named[h] \in 0 .. 49
  BY DEF Named
<1>3. \A h \in DOMAIN Named : HandlerOf(Named[h]) = h
  BY <1>1, <1>2 DEF countDefinedInterrupts
<1>4. {"BadInterrupt", "BadHRDWRInterrupt"} \subseteq Handlers \ (Returns \union TakesErrCode)
  BY DEF Handlers, Named, Returns, TakesErrCode
<1>5. interruptVector[9] \in {"BadInterrupt", "BadHRDWRInterrupt"}
  <2>1. \A h \in DOMAIN Named : Named[h] # 9
    BY DEF Named
  <2> QED
    BY <2>1, VectorNames
<1>6. ASSUME NEW v \in 0 .. 253, \A h \in DOMAIN Named : Named[h] # v
      PROVE  HandlerOf(v) \in {"BadInterrupt", "BadHRDWRInterrupt"}
  BY <1>5, <1>6, VectorNames DEF HandlerOf, countDefinedInterrupts
<1>7. HandlerOf(254) = "SpuriousHandler"
  BY DEF HandlerOf, countDefinedInterrupts
<1>8. ASSUME NEW v \in 0 .. 254 PROVE HandlerOf(v) \in Handlers
  <2>1. CASE \E h \in DOMAIN Named : Named[h] = v
    BY <2>1, <1>3 DEF Handlers
  <2>2. CASE (\A h \in DOMAIN Named : Named[h] # v) /\ v # 254
    BY <2>2, <1>4, <1>6
  <2>3. CASE v = 254
    BY <2>3, <1>7 DEF Handlers
  <2> QED
    BY <2>1, <2>2, <2>3
<1>9. /\ HandlerOf(48) = "PITTimerHandler" /\ HandlerOf(49) = "KeyboardHandler"
      /\ HandlerOf(13) = "GeneralProtectionFault"
  BY <1>3 DEF Named
<1>10. ASSUME NEW v \in Exceptions
       PROVE  /\ HandlerOf(v) \in Handlers \ Returns
              /\ HandlerOf(v) \in TakesErrCode <=> v \in PushesErrCode
  <2>1. PICK h \in DOMAIN Named : Named[h] = v
    BY DEF Exceptions, Named
  <2>2. HandlerOf(v) = h
    BY <1>3, <2>1
  <2>3. h \in Handlers \ Returns
    BY <2>1 DEF Exceptions, Named, Handlers, Returns
  <2>4. h \in TakesErrCode <=> v \in PushesErrCode
    BY <2>1 DEF Exceptions, Named, TakesErrCode, PushesErrCode
  <2> QED
    BY <2>2, <2>3, <2>4
<1>11. ASSUME NEW v \in (22 .. 253) \ ((32 .. 37) \union {48, 49})
       PROVE  HandlerOf(v) \in Handlers \ Returns
  <2>1. \A h \in DOMAIN Named : Named[h] # v
    BY DEF Named
  <2>2. v \in 0 .. 253
    OBVIOUS
  <2> QED
    BY <1>4, <1>6, <2>1, <2>2
<1> QED
  BY <1>8, <1>9, <1>10, <1>11

-----------------------------------------------------------------------------
(* The invariant *)

\* The steps of kmain at which the GDT grows or is not loaded yet, at which
\* there is no IDT, and at which it is not loaded.
NoTask == {"cli", "gdt", "refresh", "tss"}
NoIDT == NoTask \union {"refreshTSS", "ltr", "idt"}
NoGates == NoIDT \union {"lidt"}
Steps == DOMAIN After \union {"gdt", "running"}

\* The task's entry; ltr marks it busy.
TaskEntry == ConstructTSSKernEntry(TSSAddress, TSSLimit)
BusyEntry == [TaskEntry EXCEPT !.access = @ \union {1}]

EntryAt(i) ==
  IF i \in 1 .. 5 THEN BootEntries[i]
  ELSE IF pc \in {"refreshTSS", "ltr"} THEN TaskEntry ELSE BusyEntry

GDTOK ==
  /\ gdt = [i \in 1 .. countEntries |-> encodeEntry(EntryAt(i))]
  /\ pc = "cli" => countEntries = 0
  /\ pc = "gdt" => countEntries \in 0 .. 4
  /\ pc \in {"refresh", "tss"} => countEntries = 5
  /\ pc \notin NoTask => countEntries = 6
  /\ tr = IF pc \in NoTask THEN 0 ELSE 40
  /\ gdtr = IF pc \in {"cli", "gdt", "refresh"} THEN NoTable
            ELSE IF pc \in {"tss", "refreshTSS"} THEN 320 ELSE 384

IDTOK ==
  /\ pc \notin NoIDT => idt = IDTTable
  /\ idtr = IF pc \in NoGates THEN NoTable ELSE 2040

PICOK ==
  /\ irr \in SUBSET (0 .. 15) /\ imr \in SUBSET (0 .. 15)
  /\ base \in [master : Nat, slave : Nat]
  /\ pc \notin NoGates \union {"pic"} => base = [master |-> 48, slave |-> 56]
  /\ pc = "enable1" => imr = 0 .. 15
  /\ pc = "enable0" => imr = {0} \union (2 .. 15)
  /\ pc \in {"sti", "running"} => imr = 2 .. 15

\* Who runs, and what is in service.
CPUOK ==
  /\ iflag \in BOOLEAN
  /\ cpu = "main" => isr = {}
  /\ iflag /\ pc # "cli" => pc = "running" /\ cpu = "main"
  /\ cpu = "PITTimerHandler" => pc = "running" /\ isr = {0}
  /\ cpu = "KeyboardHandler" => pc = "running" /\ isr = {1}
  /\ pc = "cli" => cpu \in {"main", "reset"}
  /\ cpu \notin {"main", "PITTimerHandler", "KeyboardHandler"} /\ pc # "cli" =>
       faulted /\ cpu \in (Handlers \ Returns) \union Stopped

DInv == pc \in Steps /\ GDTOK /\ IDTOK /\ PICOK /\ CPUOK

-----------------------------------------------------------------------------
(* What the invariant says of the tables *)

LEMMA EntriesAreDescriptors ==
  /\ \A i \in 1 .. 5 : BootEntries[i] \in Descriptor
  /\ BootEntries[2].access = {7, 4, 3, 1}
  /\ Len(BootEntries) = 5
  /\ TaskEntry \in Descriptor /\ TaskEntry.access = {7, 3, 0} /\ BusyEntry \in Descriptor
<1>1. /\ BootEntries[1] \in Descriptor /\ BootEntries[2] \in Descriptor /\ BootEntries[3] \in Descriptor
      /\ BootEntries[4] \in Descriptor /\ BootEntries[5] \in Descriptor
  BY DEF BootEntries, Descriptor, ConstructGDTEntry, SEGMENT_KERNEL_CODE, SEGMENT_KERNEL_DATA,
         SEGMENT_USER_CODE, SEGMENT_USER_DATA, SEGMENT_FLAGS_DEFAULT
<1>2. BootEntries[2].access = {7, 4, 3, 1} /\ Len(BootEntries) = 5
  BY DEF BootEntries, ConstructGDTEntry, SEGMENT_KERNEL_CODE
<1>3. TaskEntry \in Descriptor /\ TaskEntry.access = {7, 3, 0}
  BY TaskAssumption DEF TaskEntry, ConstructTSSKernEntry, ConstructGDTEntry, Descriptor
<1>4. BusyEntry \in Descriptor
  BY <1>3 DEF BusyEntry, Descriptor
<1> QED
  BY <1>1, <1>2, <1>3, <1>4

\* A selector within the limit has the entry that was put in the table.
LEMMA SegmentIsEntry ==
  ASSUME NEW i \in 1 .. 5, GDTOK, pc \in Steps, countEntries > i, gdtr # NoTable,
         8 * i + 7 <= gdtr
  PROVE  Segment(8 * i) = EntryAt(i + 1)
<1>1. countEntries \in Nat
  BY DEF GDTOK, NoTask
<1>2. Len(gdt) = countEntries /\ gdt[i + 1] = encodeEntry(EntryAt(i + 1))
  BY <1>1 DEF GDTOK
<1>3. (8 * i) \div 8 = i
  OBVIOUS
<1>4. i \in 1 .. (Len(gdt) - 1)
  BY <1>1, <1>2
<1>5. Segment(8 * i) = Decoded(gdt[i + 1])
  <2> DEFINE bits(n) == IF n \in 0 .. 7 THEN gdt[(8 * i) \div 8 + 1][n + 1] ELSE {}
  <2>1. Segment(8 * i) =
          [base |-> bits(2) \union Shift(bits(3), 8) \union Shift(bits(4), 16) \union Shift(bits(7), 24),
           limit |-> bits(0) \union Shift(bits(1), 8) \union Shift(Field(bits(6), 0, 3), 16),
           access |-> bits(5),
           flags |-> Shift(Field(bits(6), 4, 7), -4)]
    BY <1>3, <1>4, Zenon DEF Segment
  <2>2. \A n \in 0 .. 7 : bits(n) = gdt[i + 1][n + 1]
    BY <1>3
  <2> HIDE DEF bits
  <2>3. /\ bits(0) = gdt[i + 1][1] /\ bits(1) = gdt[i + 1][2] /\ bits(2) = gdt[i + 1][3]
        /\ bits(3) = gdt[i + 1][4] /\ bits(4) = gdt[i + 1][5] /\ bits(5) = gdt[i + 1][6]
        /\ bits(6) = gdt[i + 1][7] /\ bits(7) = gdt[i + 1][8]
    BY <2>2
  <2> QED
    BY <2>1, <2>3, Zenon DEF Decoded
<1>6. EntryAt(i + 1) \in Descriptor
  BY EntriesAreDescriptors DEF EntryAt
<1> QED
  BY <1>2, <1>5, <1>6, EncodedIsDecoded

\* The kernel's code segment is code as soon as the table is loaded.
LEMMA KernelCode ==
  ASSUME GDTOK, pc \in Steps, gdtr # NoTable
  PROVE  IsCode(8)
<1>1. countEntries > 1 /\ 8 * 1 + 7 <= gdtr
  BY DEF GDTOK, NoTask, NoTable
<1>2. Segment(8 * 1) = EntryAt(1 + 1)
  BY <1>1, SegmentIsEntry
<1>3. Segment(8) = BootEntries[2]
  BY <1>2 DEF EntryAt
<1> QED
  BY <1>3, EntriesAreDescriptors DEF IsCode

\* The gate of a handler leads to it.
LEMMA GateLeads ==
  ASSUME NEW h \in Handlers, NEW v, idt[v] = Gate(h), IsCode(8)
  PROVE  /\ 8 * v + 7 <= idtr => Accepted(v)
         /\ Target(v) = h
<1> DEFINE a == Address[h]
           s == BitsOf(GDT_KERNEL_CODE_DESCRIPTOR_SEL)
<1>1. a \in SUBSET (0 .. 31)
  BY AddressAssumption
<1>2. s \in SUBSET (0 .. 15)
  <2>1. s \in SUBSET (0 .. 3)
    BY Digits DEF GDT_KERNEL_CODE_DESCRIPTOR_SEL
  <2> QED
    BY <2>1
<1>3. GATE_32INTR_F \in SUBSET (0 .. 15) /\ Field(GATE_32INTR_F, 8, 15) = GATE_32INTR_F
  BY DEF GATE_32INTR_F, Field
<1>4. idt[v] = EncodeEntryAt(IDTEntryWith(a, s, GATE_32INTR_F))
  BY DEF Gate
<1>5. /\ Field(idt[v], 0, 15) = Field(a, 0, 15)
      /\ Shift(Field(idt[v], 48, 63), -32) = Field(a, 16, 31)
      /\ Shift(Field(idt[v], 16, 31), -16) = s
      /\ Field(idt[v], 40, 47) = Shift(GATE_32INTR_F, 32)
  <2> HIDE DEF a, s
  <2> QED
    BY <1>1, <1>2, <1>3, <1>4, GateDecodes
<1>6. s \in DOMAIN SelectorAt /\ IsCode(SelectorAt[s])
  BY Digits
<1>7. 8 * v + 7 <= idtr => Accepted(v)
  BY <1>5, <1>6, Zenon DEF Accepted
<1>8. Field(a, 0, 15) \union Field(a, 16, 31) = a
  BY <1>1 DEF Field
<1>9. a \in DOMAIN HandlerAt /\ HandlerAt[a] = h
  BY AddressAssumption DEF HandlerAt
<1>10. Target(v) = h
  <2> HIDE DEF a
  <2> QED
    BY <1>5, <1>8, <1>9, Zenon DEF Target
<1> QED
  BY <1>7, <1>10

\* With both tables in force every vector leads to its handler, and the one
\* without a gate to that of the general protection fault.
LEMMA VectorsLead ==
  ASSUME pc \in Steps \ NoGates, GDTOK, IDTOK
  PROVE  /\ \A v \in 0 .. 254 : Outcome(v) = HandlerOf(v)
         /\ Outcome(255) = "GeneralProtectionFault"
<1>1. IsCode(8)
  <2>1. gdtr # NoTable
    BY DEF GDTOK, NoGates, NoIDT, NoTask, NoTable
  <2> QED
    BY <2>1, KernelCode
<1>2. idt = IDTTable /\ idtr = 2040
  BY DEF IDTOK, NoGates
<1>3. ASSUME NEW v \in 0 .. 254 PROVE Accepted(v) /\ Target(v) = HandlerOf(v)
  <2>1. idt[v] = Gate(HandlerOf(v))
    BY <1>2 DEF IDTTable, HandlerOf
  <2>2. 8 * v + 7 <= idtr
    BY <1>2
  <2>3. HandlerOf(v) \in Handlers
    BY HandlersOfVectors
  <2> QED
    BY <1>1, <2>1, <2>2, <2>3, GateLeads
<1>4. ~ Accepted(255)
  BY <1>2 DEF Accepted
<1>5. Outcome(255) = HandlerOf(13)
  BY <1>3, <1>4 DEF Outcome
<1>6. \A v \in 0 .. 254 : Outcome(v) = HandlerOf(v)
  BY <1>3 DEF Outcome
<1> QED
  BY <1>5, <1>6, HandlersOfVectors

\* Before lidt there is no way out of an exception.
LEMMA NothingLeads ==
  ASSUME pc \in NoGates, IDTOK
  PROVE  \A v \in Nat : Outcome(v) = "reset"
<1>1. \A v \in Nat : ~ Accepted(v)
  BY DEF IDTOK, Accepted, NoTable
<1> QED
  BY <1>1 DEF Outcome

-----------------------------------------------------------------------------
(* Every step keeps the invariant *)

LEMMA InitInv == Init => DInv
<1> SUFFICES ASSUME Init PROVE DInv
  OBVIOUS
<1>1. GDTOK
  BY DEF Init, GDTOK, NoTask
<1>2. IDTOK /\ PICOK /\ CPUOK /\ pc \in Steps
  BY DeviceAssumption DEF Init, IDTOK, PICOK, CPUOK, NoIDT, NoGates, NoTask, Steps, After
<1> QED
  BY <1>1, <1>2 DEF DInv

\* What a step that leaves kmain where it is must keep.
LEMMA SameTables ==
  ASSUME DInv, UNCHANGED <<pc, tables, base, imr>>
  PROVE  (pc \in Steps)' /\ GDTOK' /\ IDTOK' /\ (irr' \in SUBSET (0 .. 15) => PICOK')
<1>1. UNCHANGED <<pc, gdt, countEntries, gdtr, tr, idt, idtr, base, imr>>
  BY DEF tables
<1>2. GDTOK'
  BY <1>1 DEF DInv, GDTOK, EntryAt
<1>3. IDTOK'
  BY <1>1 DEF DInv, IDTOK
<1>4. irr' \in SUBSET (0 .. 15) => PICOK'
  BY <1>1 DEF DInv, PICOK
<1> QED
  BY <1>1, <1>2, <1>3, <1>4 DEF DInv

\* Names of processor states are not those of handlers.
LEMMA CpuNames ==
  /\ "main" \notin Handlers /\ Stopped \intersect Handlers = {} /\ "main" \notin Stopped
  /\ {"PITTimerHandler", "KeyboardHandler"} \subseteq Handlers \intersect (Returns \ TakesErrCode)
BY DEF Handlers, Named, Stopped, Returns, TakesErrCode

LEMMA RaiseLineInv ==
  ASSUME DInv, NEW n \in Devices, RaiseLine(n)
  PROVE  DInv'
<1>1. n \in 0 .. 15
  BY DeviceAssumption
<1>2. irr' \in SUBSET (0 .. 15) /\ UNCHANGED <<pc, tables, base, imr>>
  BY <1>1 DEF RaiseLine, DInv, PICOK
<1>3. CPUOK'
  BY DEF RaiseLine, DInv, CPUOK
<1> QED
  BY <1>2, <1>3, SameTables DEF DInv

\* A request is taken only when kmain runs with the flag set: before its cli
\* there are no gates, after its sti the masks leave lines 0 and 1.
LEMMA AcceptInv ==
  ASSUME DInv, NEW n \in Devices, Accept(n)
  PROVE  DInv'
<1>1. irr' \in SUBSET (0 .. 15) /\ UNCHANGED <<pc, tables, base, imr>>
  BY DEF Accept, DInv, PICOK
<1>2. CASE pc = "cli"
  <2>1. cpu' = "reset"
    <3>1. VectorOf(n) \in Nat
      BY DeviceAssumption DEF VectorOf, Slave, DInv, PICOK
    <3>2. Outcome(VectorOf(n)) = "reset"
      BY <1>2, <3>1, NothingLeads DEF DInv, NoGates, NoIDT, NoTask
    <3> QED
      BY <3>2 DEF Accept
  <2>2. CPUOK'
    BY <1>2, <2>1, CpuNames DEF Accept, DInv, CPUOK
  <2> QED
    BY <1>1, <2>2, SameTables DEF DInv
<1>3. CASE pc # "cli"
  <2>1. pc = "running" /\ isr = {} /\ imr = 2 .. 15 /\ base = [master |-> 48, slave |-> 56]
    BY <1>3 DEF Accept, DInv, CPUOK, PICOK, NoGates, NoIDT, NoTask
  <2>2. n \in {0, 1}
    <3>1. n \in irr \ imr /\ n \in 0 .. 15
      BY DEF Accept, Pending, DInv, PICOK
    <3> QED
      BY <2>1, <3>1
  <2>3. VectorOf(n) = 48 + n
    BY <2>1, <2>2 DEF VectorOf, Slave
  <2>4. \A v \in 0 .. 254 : Outcome(v) = HandlerOf(v)
    BY <2>1, VectorsLead DEF DInv, NoGates, NoIDT, NoTask
  <2>5. cpu' = IF n = 0 THEN "PITTimerHandler" ELSE "KeyboardHandler"
    BY <2>2, <2>3, <2>4, HandlersOfVectors DEF Accept
  <2>6. isr' = {n}
    BY <2>1 DEF Accept
  <2>7. CPUOK'
    BY <1>3, <2>1, <2>2, <2>5, <2>6 DEF Accept, CPUOK
  <2> QED
    BY <1>1, <2>7, SameTables DEF DInv
<1> QED
  BY <1>2, <1>3

LEMMA FaultInv ==
  ASSUME DInv, NEW v \in Exceptions, Fault(v)
  PROVE  DInv'
<1>1. irr' = irr /\ UNCHANGED <<pc, tables, base, imr>>
  BY DEF Fault, pic
<1>2. cpu' \in (Handlers \ Returns) \union Stopped
  <2>1. CASE pc \in NoGates
    <3>1. v \in Nat
      BY DEF Exceptions
    <3> QED
      BY <2>1, <3>1, NothingLeads DEF Fault, DInv, Stopped
  <2>2. CASE pc \notin NoGates
    <3>1. v \in 0 .. 254
      BY DEF Exceptions
    <3> QED
      BY <2>2, <3>1, VectorsLead, HandlersOfVectors DEF Fault, DInv
  <2> QED
    BY <2>1, <2>2
<1>3. pc = "cli" => cpu' = "reset"
  <2>1. v \in Nat
    BY DEF Exceptions
  <2> QED
    BY <2>1, NothingLeads DEF Fault, DInv, NoGates, NoIDT, NoTask
<1>4. CPUOK'
  BY <1>1, <1>2, <1>3, CpuNames DEF Fault, CPUOK
<1> QED
  BY <1>1, <1>4, SameTables DEF DInv, PICOK

LEMMA EOIAlone ==
  ASSUME NEW n \in {0, 1}, isr = {n}, SendEOI(n)
  PROVE  isr' = {}
<1>1. isr \ Slave = {n}
  BY DEF Slave
<1>2. Ended({n}) = {n}
  <2>1. Priority(n) <= Priority(n)
    BY DEF Priority
  <2> QED
    BY <2>1 DEF Ended
<1>3. n \in Ended(isr \ Slave)
  BY <1>1, <1>2
<1> QED
  BY <1>3 DEF SendEOI

\* The end of interrupt of a handler ends the service of its own line: it is
\* the only one.
LEMMA HandleInv ==
  ASSUME DInv, Handle
  PROVE  DInv'
<1>1. irr' = irr /\ UNCHANGED <<pc, tables, base, imr>>
  BY DEF Handle
<1>2. pc # "cli" /\ cpu # "main"
  <2>1. cpu \in Handlers /\ "main" \notin Handlers /\ "reset" \notin Handlers
    BY CpuNames DEF Handle, Stopped
  <2>2. pc = "cli" => cpu \in {"main", "reset"}
    BY DEF DInv, CPUOK
  <2> QED
    BY <2>1, <2>2
<1>3. CASE cpu = "PITTimerHandler"
  <2>1. isr = {0} /\ pc = "running"
    BY <1>3 DEF DInv, CPUOK
  <2>2. SendEOI(0)
    BY <1>3 DEF Handle
  <2>3. isr' = {}
    BY <2>1, <2>2, EOIAlone
  <2>4. cpu' = "main" /\ iflag' = TRUE /\ faulted' = faulted
    BY <1>3, CpuNames DEF Handle
  <2>5. CPUOK'
    BY <1>1, <2>1, <2>3, <2>4 DEF CPUOK
  <2> QED
    BY <1>1, <2>5, SameTables DEF DInv, PICOK
<1>4. CASE cpu = "KeyboardHandler"
  <2>1. isr = {1} /\ pc = "running"
    BY <1>4 DEF DInv, CPUOK
  <2>2. SendEOI(1)
    BY <1>4 DEF Handle
  <2>3. isr' = {}
    BY <2>1, <2>2, EOIAlone
  <2>4. cpu' = "main" /\ iflag' = TRUE /\ faulted' = faulted
    BY <1>4, CpuNames DEF Handle
  <2>5. CPUOK'
    BY <1>1, <2>1, <2>3, <2>4 DEF CPUOK
  <2> QED
    BY <1>1, <2>5, SameTables DEF DInv, PICOK
<1>5. CASE cpu \notin {"PITTimerHandler", "KeyboardHandler"}
  <2>1. faulted /\ cpu \in Handlers \ Returns
    BY <1>2, <1>5, CpuNames DEF DInv, CPUOK, Handle
  <2>2. cpu' = "panicked" /\ iflag' = iflag /\ faulted' = faulted
    BY <2>1 DEF Handle
  <2>3. "panicked" \in Stopped /\ "panicked" \notin {"main", "PITTimerHandler", "KeyboardHandler"}
    BY DEF Stopped
  <2>4. ~ iflag
    BY <1>2 DEF DInv, CPUOK
  <2>5. CPUOK'
    BY <1>1, <1>2, <2>1, <2>2, <2>3, <2>4 DEF DInv, CPUOK
  <2> QED
    BY <1>1, <2>5, SameTables DEF DInv, PICOK
<1> QED
  BY <1>3, <1>4, <1>5

\* What a step of kmain starts from, and what it leaves to prove.
LEMMA KmainRuns ==
  ASSUME DInv, cpu = "main", pc \notin {"cli", "running"}
  PROVE  isr = {} /\ iflag = FALSE
BY DEF DInv, CPUOK

LEMMA CliInv ==
  ASSUME DInv, Cli
  PROVE  DInv'
<1>1. /\ pc = "cli" /\ pc' = "gdt" /\ cpu = "main" /\ cpu' = "main" /\ iflag' = FALSE
      /\ UNCHANGED <<gdt, countEntries, gdtr, tr, idt, idtr, base, irr, isr, imr>>
  BY DEF Cli, Step, Runs, After, tables, pic
<1>2. GDTOK'
  BY <1>1 DEF DInv, GDTOK, NoTask
<1>3. IDTOK' /\ PICOK'
  BY <1>1 DEF DInv, IDTOK, PICOK, NoIDT, NoGates, NoTask
<1>4. CPUOK'
  BY <1>1 DEF DInv, CPUOK
<1> QED
  BY <1>1, <1>2, <1>3, <1>4 DEF DInv, Steps

\* An entry more, at the end of the table.
LEMMA EntryAdded ==
  ASSUME DInv, pc \in {"gdt", "tss"}, NEW n, n = countEntries + 1, AddGDTEntry(EntryAt(n)'),
         \A i \in 1 .. countEntries : EntryAt(i)' = EntryAt(i)
  PROVE  /\ countEntries' = n
         /\ gdt' = [i \in 1 .. n |-> encodeEntry(EntryAt(i)')]
<1>1. countEntries \in 0 .. 5
  BY DEF DInv, GDTOK
<1>2. countEntries' = n
  BY <1>1 DEF AddGDTEntry
<1>3. gdt = [i \in 1 .. countEntries |-> encodeEntry(EntryAt(i))]
  BY DEF DInv, GDTOK
<1>4. PICK F : F = [i \in 1 .. n |-> encodeEntry(EntryAt(i)')]
  OBVIOUS
<1>5. gdt = [i \in 1 .. countEntries |-> F[i]]
  <2>1. \A i \in 1 .. countEntries : i \in 1 .. n
    BY <1>1
  <2>2. \A i \in 1 .. countEntries : encodeEntry(EntryAt(i)) = F[i]
    BY <1>4, <2>1
  <2> QED
    BY <1>3, <2>2
<1>6. gdt' = Append(gdt, F[n])
  <2>1. n \in 1 .. n
    BY <1>1
  <2>2. F[n] = encodeEntry(EntryAt(n)')
    BY <1>4, <2>1
  <2> QED
    BY <2>2 DEF AddGDTEntry
<1>7. gdt' = [i \in 1 .. n |-> F[i]]
  BY <1>1, <1>5, <1>6
<1> QED
  BY <1>2, <1>4, <1>7

\* kmain's steps after its cli run with the flag clear and nothing in service.
LEMMA KmainCPU ==
  ASSUME DInv, cpu = "main", cpu' = "main", pc \notin {"cli", "running"}, pc' # "cli",
         iflag' = iflag \/ iflag' = FALSE, isr' = isr \/ isr' = {}
  PROVE  CPUOK'
<1>1. isr = {} /\ iflag = FALSE
  BY KmainRuns
<1>2. iflag' = FALSE /\ isr' = {}
  BY <1>1
<1> QED
  BY <1>2 DEF CPUOK

LEMMA SetupGDTInv ==
  ASSUME DInv, SetupGDT
  PROVE  DInv'
<1>1. CASE Runs("gdt")
  <2>1. /\ pc = "gdt" /\ cpu = "main"
    BY <1>1 DEF Runs
  <2>2. /\ AddGDTEntry(BootEntries[Len(gdt) + 1])
        /\ pc' = IF Len(gdt) + 1 < Len(BootEntries) THEN "gdt" ELSE "refresh"
        /\ UNCHANGED <<cpu, iflag, gdtr, tr, idt, idtr, base, irr, isr, imr>>
    BY <2>1 DEF SetupGDT, Step, Runs, pic
  <2>3. countEntries \in 0 .. 4 /\ Len(gdt) = countEntries
    BY <2>1 DEF DInv, GDTOK
  <2>4. \A i \in 1 .. 5 : EntryAt(i) = BootEntries[i] /\ EntryAt(i)' = BootEntries[i]
    BY DEF EntryAt
  <2>5. PICK n \in 1 .. 5 : n = countEntries + 1
    BY <2>3
  <2>6. countEntries' = n /\ gdt' = [i \in 1 .. n |-> encodeEntry(EntryAt(i)')]
    <3>1. \A i \in 1 .. countEntries : EntryAt(i)' = EntryAt(i)
      BY <2>3, <2>4
    <3>2. AddGDTEntry(EntryAt(n)')
      BY <2>2, <2>3, <2>4, <2>5
    <3> QED
      BY <2>1, <2>5, <3>1, <3>2, EntryAdded
  <2>7. pc' = IF countEntries' < 5 THEN "gdt" ELSE "refresh"
    BY <2>2, <2>3, <2>5, <2>6, EntriesAreDescriptors
  <2>8. tr' = 0 /\ gdtr' = NoTable /\ idtr' = NoTable
    BY <2>1, <2>2 DEF DInv, GDTOK, IDTOK, NoGates, NoIDT, NoTask
  <2>9. GDTOK'
    BY <2>5, <2>6, <2>7, <2>8 DEF GDTOK, NoTask
  <2>10. IDTOK' /\ PICOK' /\ (pc \in Steps)'
    BY <2>2, <2>7, <2>8 DEF DInv, IDTOK, PICOK, NoGates, NoIDT, NoTask, Steps, After
  <2>11. CPUOK'
    BY <2>1, <2>2, <2>7, KmainCPU
  <2> QED
    BY <2>9, <2>10, <2>11 DEF DInv
<1>2. CASE Step("refresh")
  <2>1. /\ pc = "refresh" /\ pc' = "tss" /\ cpu = "main" /\ cpu' = "main"
        /\ RefreshGDT /\ UNCHANGED <<gdt, countEntries, tr, idt, idtr, base, irr, isr, imr>>
    BY <1>2 DEF SetupGDT, Step, Runs, After, pic
  <2>2. countEntries = 5
    BY <2>1 DEF DInv, GDTOK
  <2>3. gdtr' = 320
    BY <2>1, <2>2, Powers DEF RefreshGDT
  <2>4. GDTOK'
    BY <2>1, <2>2, <2>3 DEF DInv, GDTOK, EntryAt, NoTask
  <2>5. IDTOK' /\ PICOK' /\ (pc \in Steps)'
    BY <2>1 DEF DInv, IDTOK, PICOK, NoGates, NoIDT, NoTask, Steps, After
  <2>6. CPUOK'
    BY <2>1, KmainCPU DEF RefreshGDT
  <2> QED
    BY <2>4, <2>5, <2>6 DEF DInv
<1> QED
  BY <1>1, <1>2 DEF SetupGDT

\* TSSManager adds the task's entry, loads the longer table, and ltr finds a
\* task there.
LEMMA SetupTSSInv ==
  ASSUME DInv, SetupTSS
  PROVE  DInv'
<1>1. CASE Step("tss")
  <2>1. /\ pc = "tss" /\ pc' = "refreshTSS" /\ cpu = "main" /\ cpu' = "main"
        /\ tr' = countEntries * 8 /\ AddGDTEntry(TaskEntry)
        /\ UNCHANGED <<iflag, gdtr, idt, idtr, base, irr, isr, imr>>
    BY <1>1 DEF SetupTSS, Step, Runs, After, pic, TaskEntry
  <2>2. countEntries = 5
    BY <2>1 DEF DInv, GDTOK
  <2>3. /\ AddGDTEntry(EntryAt(6)')
        /\ \A i \in 1 .. countEntries : EntryAt(i)' = EntryAt(i)
    <3>1. EntryAt(6)' = TaskEntry
      BY <2>1 DEF EntryAt, TaskEntry, ConstructTSSKernEntry, ConstructGDTEntry
    <3>2. \A i \in 1 .. 5 : EntryAt(i)' = EntryAt(i)
      BY DEF EntryAt
    <3> QED
      BY <2>1, <2>2, <3>1, <3>2
  <2>4. countEntries' = 6 /\ gdt' = [i \in 1 .. 6 |-> encodeEntry(EntryAt(i)')]
    <3>1. PICK n : n = 6
      OBVIOUS
    <3>2. n = countEntries + 1 /\ pc \in {"gdt", "tss"}
      BY <2>1, <2>2, <3>1
    <3>3. AddGDTEntry(EntryAt(n)')
      BY <2>3, <3>1, Zenon
    <3>4. countEntries' = n /\ gdt' = [i \in 1 .. n |-> encodeEntry(EntryAt(i)')]
      BY <2>3, <3>2, <3>3, EntryAdded
    <3> QED
      BY <3>1, <3>4
  <2>5. tr' = 40 /\ gdtr' = 320
    BY <2>1, <2>2 DEF DInv, GDTOK
  <2>6. GDTOK'
    BY <2>1, <2>4, <2>5 DEF GDTOK, NoTask
  <2>7. IDTOK' /\ PICOK' /\ (pc \in Steps)'
    BY <2>1 DEF DInv, IDTOK, PICOK, NoGates, NoIDT, NoTask, Steps, After
  <2>8. CPUOK'
    BY <2>1, KmainCPU
  <2> QED
    BY <2>6, <2>7, <2>8 DEF DInv
<1>2. CASE Step("refreshTSS")
  <2>1. /\ pc = "refreshTSS" /\ pc' = "ltr" /\ cpu = "main" /\ cpu' = "main"
        /\ RefreshGDT /\ UNCHANGED <<gdt, countEntries, tr, idt, idtr, base, irr, isr, imr>>
    BY <1>2 DEF SetupTSS, Step, Runs, After, pic
  <2>2. countEntries = 6
    BY <2>1 DEF DInv, GDTOK, NoTask
  <2>3. gdtr' = 384
    BY <2>1, <2>2, Powers DEF RefreshGDT
  <2>4. GDTOK'
    BY <2>1, <2>2, <2>3 DEF DInv, GDTOK, EntryAt, NoTask
  <2>5. IDTOK' /\ PICOK' /\ (pc \in Steps)'
    BY <2>1 DEF DInv, IDTOK, PICOK, NoGates, NoIDT, NoTask, Steps, After
  <2>6. CPUOK'
    BY <2>1, KmainCPU DEF RefreshGDT
  <2> QED
    BY <2>4, <2>5, <2>6 DEF DInv
<1>3. CASE Runs("ltr")
  <2>1. /\ pc = "ltr" /\ pc' = "idt" /\ cpu = "main"
        /\ IF Segment(tr).access = {7, 3, 0}
           THEN gdt' = [gdt EXCEPT ![tr \div 8 + 1][6] = @ \union {1}] /\ cpu' = cpu
           ELSE gdt' = gdt /\ cpu' = Outcome(13)
        /\ UNCHANGED <<iflag, countEntries, gdtr, tr, idt, idtr, base, irr, isr, imr>>
    BY <1>3 DEF SetupTSS, Step, Runs, After, pic
  <2>2. countEntries = 6 /\ tr = 40 /\ gdtr = 384 /\ gdt = [i \in 1 .. 6 |-> encodeEntry(EntryAt(i))]
    BY <2>1 DEF DInv, GDTOK, NoTask
  <2>3. Segment(tr) = TaskEntry
    <3>1. 8 * 5 + 7 <= gdtr /\ countEntries > 5 /\ gdtr # NoTable
      BY <2>2 DEF NoTable
    <3>2. Segment(8 * 5) = EntryAt(5 + 1)
      BY <3>1, SegmentIsEntry DEF DInv
    <3>3. EntryAt(6) = TaskEntry
      BY <2>1 DEF EntryAt
    <3> QED
      BY <2>2, <3>2, <3>3
  <2>4. cpu' = "main" /\ gdt' = [gdt EXCEPT ![6] = [gdt[6] EXCEPT ![6] = @ \union {1}]]
    <3>1. tr \div 8 + 1 = 6
      BY <2>2
    <3>2. gdt' = [gdt EXCEPT ![tr \div 8 + 1][6] = @ \union {1}] /\ cpu' = cpu
      BY <2>1, <2>3, EntriesAreDescriptors
    <3> QED
      BY <2>1, <3>1, <3>2
  <2>5. [encodeEntry(TaskEntry) EXCEPT ![6] = @ \union {1}] = encodeEntry(BusyEntry)
    <3>1. TaskEntry = [base |-> TaskEntry.base, limit |-> TaskEntry.limit,
                       access |-> TaskEntry.access, flags |-> TaskEntry.flags]
      BY DEF TaskEntry, ConstructTSSKernEntry, ConstructGDTEntry
    <3>2. /\ BusyEntry.base = TaskEntry.base /\ BusyEntry.limit = TaskEntry.limit
          /\ BusyEntry.access = TaskEntry.access \union {1} /\ BusyEntry.flags = TaskEntry.flags
      BY <3>1 DEF BusyEntry
    <3> QED
      BY <3>2 DEF encodeEntry
  <2>6. gdt' = [i \in 1 .. 6 |-> encodeEntry(EntryAt(i)')]
    <3>1. EntryAt(6)' = BusyEntry /\ EntryAt(6) = TaskEntry
      BY <2>1 DEF EntryAt, BusyEntry, TaskEntry, ConstructTSSKernEntry, ConstructGDTEntry
    <3>2. \A i \in 1 .. 5 : EntryAt(i)' = EntryAt(i)
      BY DEF EntryAt
    <3>3. gdt' = [i \in 1 .. 6 |-> IF i = 6 THEN encodeEntry(BusyEntry) ELSE encodeEntry(EntryAt(i))]
      <4>1. gdt[6] = encodeEntry(TaskEntry)
        BY <2>2, <3>1
      <4> QED
        BY <2>2, <2>4, <2>5, <4>1
    <3>4. \A i \in 1 .. 6 : encodeEntry(EntryAt(i)') =
             (IF i = 6 THEN encodeEntry(BusyEntry) ELSE encodeEntry(EntryAt(i)))
      BY <3>1, <3>2
    <3> QED
      BY <3>3, <3>4
  <2>7. GDTOK'
    BY <2>1, <2>2, <2>6 DEF GDTOK, NoTask
  <2>8. IDTOK' /\ PICOK' /\ (pc \in Steps)'
    BY <2>1 DEF DInv, IDTOK, PICOK, NoGates, NoIDT, NoTask, Steps, After
  <2>9. CPUOK'
    BY <2>1, <2>4, KmainCPU
  <2> QED
    BY <2>7, <2>8, <2>9 DEF DInv
<1> QED
  BY <1>1, <1>2, <1>3 DEF SetupTSS

\* The steps of kmain behind the GDT's leave it alone.
LEMMA GDTKept ==
  ASSUME DInv, pc \notin NoTask \union {"refreshTSS", "ltr"},
         pc' \notin NoTask \union {"refreshTSS", "ltr"},
         UNCHANGED <<gdt, countEntries, gdtr, tr>>
  PROVE  GDTOK'
<1>1. countEntries = 6 /\ tr = 40 /\ gdtr = 384 /\ gdt = [i \in 1 .. 6 |-> encodeEntry(EntryAt(i))]
  BY DEF DInv, GDTOK, NoTask
<1>2. \A i \in 1 .. 6 : EntryAt(i)' = EntryAt(i)
  BY DEF EntryAt, BusyEntry, TaskEntry, ConstructTSSKernEntry, ConstructGDTEntry
<1>3. gdt' = [i \in 1 .. 6 |-> encodeEntry(EntryAt(i)')]
  BY <1>1, <1>2
<1> QED
  BY <1>1, <1>3 DEF GDTOK, NoTask

LEMMA SetupIDTInv ==
  ASSUME DInv, SetupIDT
  PROVE  DInv'
<1>1. /\ cpu = "main" /\ cpu' = "main"
      /\ UNCHANGED <<iflag, gdt, countEntries, gdtr, tr, base, irr, isr, imr>>
      /\ \/ pc = "idt" /\ pc' = "lidt" /\ idt' = IDTTable /\ idtr' = idtr
         \/ pc = "lidt" /\ pc' = "pic" /\ idt' = idt /\ idtr' = 2040
  BY DEF SetupIDT, Step, Runs, After, pic
<1>2. GDTOK'
  BY <1>1, GDTKept DEF NoTask
<1>3. CPUOK'
  BY <1>1, KmainCPU
<1>4. IDTOK'
  <2>1. CASE pc = "idt"
    BY <1>1, <2>1 DEF DInv, IDTOK, NoGates, NoIDT, NoTask
  <2>2. CASE pc = "lidt"
    BY <1>1, <2>2 DEF DInv, IDTOK, NoGates, NoIDT, NoTask
  <2> QED
    BY <1>1, <2>1, <2>2
<1>5. PICOK' /\ (pc \in Steps)'
  BY <1>1 DEF DInv, PICOK, NoGates, NoIDT, NoTask, Steps, After
<1> QED
  BY <1>2, <1>3, <1>4, <1>5 DEF DInv

\* For a line of the master, the mask that is read and written back loses or
\* gets that line and no other.
LEMMA MasterMask ==
  ASSUME NEW n \in 0 .. 7, imr \in SUBSET (0 .. 15)
  PROVE  /\ EnableInterrupt(n) => imr' = imr \ {n}
         /\ DisableInterrupt(n) => imr' = imr \union {n}
<1>1. MaskRead(n) = imr \ Slave /\ n \notin Slave
  BY DEF MaskRead, Slave
<1>2. \A m : MaskWritten(n, m) => imr' = m \union (imr \intersect Slave)
  BY DEF MaskWritten
<1>3. ASSUME EnableInterrupt(n) PROVE imr' = imr \ {n}
  <2>1. imr' = (MaskRead(n) \ {n}) \union (imr \intersect Slave)
    BY <1>2, <1>3 DEF EnableInterrupt
  <2> QED
    BY <1>1, <2>1
<1>4. ASSUME DisableInterrupt(n) PROVE imr' = imr \union {n}
  <2>1. imr' = (MaskRead(n) \union {n}) \union (imr \intersect Slave)
    BY <1>2, <1>4 DEF DisableInterrupt
  <2> QED
    BY <1>1, <2>1
<1> QED
  BY <1>3, <1>4

\* The last mask is what the two calls of EnableInterrupt at the end of kmain
\* make of CLI's.
LEMMA SetupPICInv ==
  ASSUME DInv, SetupPIC
  PROVE  DInv'
<1>1. /\ cpu = "main" /\ cpu' = "main" /\ pc' = After[pc]
      /\ pc \in {"pic", "mask", "pit", "keyboard", "picAgain", "maskAgain", "enable1", "enable0"}
      /\ UNCHANGED <<iflag, gdt, countEntries, gdtr, tr, idt, idtr>>
  BY DEF SetupPIC, Step, Runs, tables
<1>2. /\ pc' \in {"mask", "pit", "keyboard", "picAgain", "maskAgain", "enable1", "enable0", "sti"}
      /\ pc' = "enable1" => pc = "maskAgain"
      /\ pc' = "enable0" => pc = "enable1"
      /\ pc' = "sti" => pc = "enable0"
      /\ pc' = "mask" => pc = "pic"
  BY <1>1 DEF After
<1>3. GDTOK'
  BY <1>1, <1>2, GDTKept DEF NoTask
<1>4. isr' = isr \/ isr' = {}
  BY DEF SetupPIC, InitializePIC
<1>5. CPUOK'
  BY <1>1, <1>2, <1>4, KmainCPU
<1>6. IDTOK'
  BY <1>1, <1>2 DEF DInv, IDTOK, NoGates, NoIDT, NoTask
<1>7. /\ irr' \in SUBSET (0 .. 15) /\ imr' \in SUBSET (0 .. 15)
      /\ base' = [master |-> 48, slave |-> 56]
  <2>1. irr \in SUBSET (0 .. 15) /\ imr \in SUBSET (0 .. 15)
    BY DEF DInv, PICOK
  <2>2. CASE InitializePIC
    BY <2>2 DEF InitializePIC
  <2>3. CASE ~ InitializePIC
    <3>1. pc # "pic" /\ UNCHANGED <<base, irr, isr>>
      BY <2>3 DEF SetupPIC, Step, Runs
    <3>2. base = [master |-> 48, slave |-> 56]
      BY <1>1, <3>1 DEF DInv, PICOK, NoGates, NoIDT, NoTask
    <3>3. CLI \/ DisableInterrupt(0) \/ EnableInterrupt(1) \/ EnableInterrupt(0)
      BY <2>3 DEF SetupPIC
    <3>4. imr' \in SUBSET (0 .. 15)
      <4>1. ASSUME NEW n \in {0, 1}, EnableInterrupt(n) \/ DisableInterrupt(n)
            PROVE  imr' \in SUBSET (0 .. 15)
        <5>1. imr' = imr \ {n} \/ imr' = imr \union {n}
          <6>1. n \in 0 .. 7
            OBVIOUS
          <6> QED
            BY <2>1, <4>1, <6>1, MasterMask
        <5>2. n \in 0 .. 15
          OBVIOUS
        <5> QED
          BY <2>1, <5>1, <5>2, Zenon
      <4> QED
        BY <3>3, <4>1 DEF CLI
    <3> QED
      BY <2>1, <3>1, <3>2, <3>4
  <2> QED
    BY <2>2, <2>3
<1>8. pc = "maskAgain" => imr' = 0 .. 15
  BY DEF SetupPIC, Step, Runs, CLI
<1>9. pc = "enable1" => imr' = {0} \union (2 .. 15)
  <2>1. ASSUME pc = "enable1" PROVE EnableInterrupt(1) /\ imr = 0 .. 15
    BY <2>1 DEF SetupPIC, Step, Runs, DInv, PICOK
  <2>2. imr \in SUBSET (0 .. 15)
    BY DEF DInv, PICOK
  <2> QED
    BY <2>1, <2>2, MasterMask
<1>10. pc = "enable0" => imr' = 2 .. 15
  <2>1. ASSUME pc = "enable0" PROVE EnableInterrupt(0) /\ imr = {0} \union (2 .. 15)
    BY <2>1 DEF SetupPIC, Step, Runs, DInv, PICOK
  <2>2. imr \in SUBSET (0 .. 15)
    BY DEF DInv, PICOK
  <2> QED
    BY <2>1, <2>2, MasterMask
<1>11. PICOK' /\ (pc \in Steps)'
  BY <1>2, <1>7, <1>8, <1>9, <1>10 DEF PICOK, Steps, After
<1> QED
  BY <1>3, <1>5, <1>6, <1>11 DEF DInv

LEMMA StiInv ==
  ASSUME DInv, Sti
  PROVE  DInv'
<1>1. /\ pc = "sti" /\ pc' = "running" /\ cpu = "main" /\ cpu' = "main" /\ iflag' = TRUE
      /\ UNCHANGED <<gdt, countEntries, gdtr, tr, idt, idtr, base, irr, isr, imr>>
  BY DEF Sti, Step, Runs, After, tables, pic
<1>2. GDTOK'
  BY <1>1, GDTKept DEF NoTask
<1>3. IDTOK' /\ PICOK' /\ (pc \in Steps)'
  BY <1>1 DEF DInv, IDTOK, PICOK, NoGates, NoIDT, NoTask, Steps
<1>4. CPUOK'
  BY <1>1 DEF DInv, CPUOK
<1> QED
  BY <1>2, <1>3, <1>4 DEF DInv

LEMMA NextInv ==
  ASSUME DInv, [Next]_vars
  PROVE  DInv'
<1>1. CASE UNCHANGED vars
  <2>1. UNCHANGED <<pc, cpu, iflag, tables, base, irr, isr, imr, faulted>>
    BY <1>1 DEF vars, pic
  <2>2. CPUOK'
    BY <2>1 DEF DInv, CPUOK
  <2> QED
    BY <2>1, <2>2, SameTables DEF DInv, PICOK
<1>2. CASE \E n \in Devices : RaiseLine(n) \/ Accept(n)
  BY <1>2, RaiseLineInv, AcceptInv
<1>3. CASE \E v \in Exceptions : Fault(v)
  BY <1>3, FaultInv
<1>4. CASE Handle
  BY <1>4, HandleInv
<1>5. CASE Boot
  BY <1>5, CliInv, SetupGDTInv, SetupTSSInv, SetupIDTInv, SetupPICInv, StiInv DEF Boot
<1> QED
  BY <1>1, <1>2, <1>3, <1>4, <1>5 DEF Next

-----------------------------------------------------------------------------
(* The theorems *)

\* At every step of kmain the tables hold what their constructors were given,
\* the masks leave only lines with a driver once interrupts are on, and only
\* the handlers of these lines run unless there was an exception.
THEOREM Invariance == Spec => []DInv
<1> QED
  BY InitInv, NextInv, PTL DEF Spec

\* The selectors of gdt.h name their segments, wherever the task is.
THEOREM SelectorsStayNamed == Spec => []SelectorsName
<1>1. DInv => SelectorsName
  <2> SUFFICES ASSUME DInv, gdtr # NoTable
               PROVE  /\ \A i \in 1 .. 4 : Segment(8 * i) = BootEntries[i + 1]
                      /\ pc \notin {"tss", "refreshTSS", "ltr"} /\ cpu # "reset" =>
                           tr = 40 /\ Segment(tr) = BusyEntry
    BY DEF SelectorsName, BusyEntry, TaskEntry
  <2>1. ASSUME NEW i \in 1 .. 4 PROVE Segment(8 * i) = BootEntries[i + 1]
    <3>1. i \in 1 .. 5 /\ countEntries > i /\ 8 * i + 7 <= gdtr
      BY DEF DInv, GDTOK, NoTask, NoTable
    <3>2. Segment(8 * i) = EntryAt(i + 1)
      BY <3>1, SegmentIsEntry DEF DInv
    <3> QED
      BY <3>2 DEF EntryAt
  <2>2. ASSUME pc \notin {"tss", "refreshTSS", "ltr"}
        PROVE  tr = 40 /\ Segment(tr) = BusyEntry
    <3>1. tr = 40 /\ countEntries = 6 /\ gdtr = 384
      BY <2>2 DEF DInv, GDTOK, NoTask, NoTable
    <3>2. Segment(8 * 5) = EntryAt(5 + 1)
      BY <3>1, SegmentIsEntry DEF DInv, NoTable
    <3>3. EntryAt(6) = BusyEntry
      BY <2>2 DEF EntryAt
    <3> QED
      BY <3>1, <3>2, <3>3
  <2> QED
    BY <2>1, <2>2
<1> QED
  BY <1>1, Invariance, PTL

\* The bits of hexadecimal digits.
LEMMA HexBits ==
  ASSUME NEW k \in 1 .. 8, NEW digits \in [1 .. k -> 0 .. 15]
  PROVE  /\ Hex(digits) \in SUBSET (0 .. 4 * k - 1)
         /\ \A b \in Hex(digits) : \E i \in 1 .. k :
              b \in 4 * (k - i) .. 4 * (k - i) + 3 /\ digits[i] # 0
<1>1. DOMAIN digits = 1 .. k /\ Cardinality(1 .. k) = k
  <2>1. Cardinality(1 .. k) = k
    <3>1. k \in Nat /\ k >= 1
      OBVIOUS
    <3> QED
      BY <3>1, FS_Interval
  <2> QED
    BY <2>1
<1>2. Hex(digits) = UNION {Shift(BitsOf(digits[i]), 4 * (k - i)) : i \in 1 .. k}
  BY <1>1 DEF Hex
<1>3. ASSUME NEW b \in Hex(digits)
      PROVE  /\ b \in 0 .. 4 * k - 1
             /\ \E i \in 1 .. k : b \in 4 * (k - i) .. 4 * (k - i) + 3 /\ digits[i] # 0
  <2>1. PICK i \in 1 .. k : b \in Shift(BitsOf(digits[i]), 4 * (k - i))
    BY <1>2
  <2>2. PICK c \in BitsOf(digits[i]) : b = c + 4 * (k - i)
    BY <2>1 DEF Shift
  <2>3. c \in 0 .. 3 /\ digits[i] # 0
    BY Digits
  <2> QED
    BY <2>2, <2>3
<1> QED
  BY <1>3

\* The self test of IDTEntry passes.
LEMMA IDTEntryTested == testIDTEntry
<1> DEFINE a == Hex(<<15, 15>>)
           s == BitsOf(8)
           f == Hex(<<4, 14, 0, 0>>)
           g == EncodeEntryAt(IDTEntryWith(a, s, f))
<1>1. a \in SUBSET (0 .. 31)
  <2>1. <<15, 15>> \in [1 .. 2 -> 0 .. 15]
    OBVIOUS
  <2>2. a \in SUBSET (0 .. 4 * 2 - 1)
    BY <2>1, HexBits
  <2> QED
    BY <2>2
<1>2. s \in SUBSET (0 .. 15)
  <2>1. s \in SUBSET (0 .. 3)
    BY Digits
  <2> QED
    BY <2>1
<1>3. f \in SUBSET (0 .. 15) /\ Field(f, 8, 15) = f
  <2>1. <<4, 14, 0, 0>> \in [1 .. 4 -> 0 .. 15]
    OBVIOUS
  <2>2. \A b \in f : \E i \in 1 .. 4 :
          b \in 4 * (4 - i) .. 4 * (4 - i) + 3 /\ <<4, 14, 0, 0>>[i] # 0
    BY <2>1, HexBits
  <2> HIDE DEF f
  <2>3. \A b \in f : b \in 8 .. 15
    BY <2>2
  <2> QED
    BY <2>3 DEF Field
<1>4. /\ Field(g, 0, 15) = Field(a, 0, 15)
      /\ Shift(Field(g, 16, 31), -16) = s
      /\ Field(Shift(Field(g, 32, 47), -32), 8, 15) = f
      /\ Shift(Shift(Field(g, 48, 63), -48), 16) = Field(a, 16, 31)
  <2> HIDE DEF a, s, f
  <2> QED
    BY <1>1, <1>2, <1>3, GateDecodes
<1>5. Field(a, 16, 31) \union Field(a, 0, 15) = a
  <2> HIDE DEF a
  <2>1. \A b \in a : b \in 16 .. 31 \/ b \in 0 .. 15
    BY <1>1
  <2> QED
    BY <2>1 DEF Field
<1>6. /\ IDTEntry(g).flags = f /\ IDTEntry(g).segment = s
      /\ GetOffset(IDTEntry(g)) = a
  <2> HIDE DEF a, s, f, g
  <2> QED
    BY <1>4, <1>5 DEF IDTEntry, GetOffset
<1> QED
  BY <1>6 DEF testIDTEntry

\* From lidt on every vector leads where the processor needs it to.
THEOREM VectorsAlwaysReach == Spec => []VectorsReach
<1>1. DInv => VectorsReach
  <2> SUFFICES ASSUME DInv, idtr # NoTable PROVE VectorsReach
    BY DEF VectorsReach
  <2>1. pc \in Steps \ NoGates
    BY DEF DInv, IDTOK
  <2>2. /\ \A v \in 0 .. 254 : Outcome(v) = HandlerOf(v)
        /\ Outcome(255) = "GeneralProtectionFault"
    BY <2>1, VectorsLead DEF DInv
  <2>3. \A v \in Exceptions : /\ Outcome(v) \in Handlers \ Returns
                              /\ Outcome(v) \in TakesErrCode <=> v \in PushesErrCode
    <3>1. \A v \in Exceptions : v \in 0 .. 254
      BY DEF Exceptions
    <3> QED
      BY <2>2, <3>1, HandlersOfVectors
  <2>4. Outcome(48) = "PITTimerHandler" /\ Outcome(49) = "KeyboardHandler"
    BY <2>2, HandlersOfVectors
  <2>5. ASSUME NEW v \in (22 .. 255) \ ({254} \union (32 .. 37) \union {48, 49})
        PROVE  Outcome(v) \in Handlers \ Returns
    <3>1. CASE v = 255
      <4>1. 13 \in Exceptions
        BY DEF Exceptions
      <4> QED
        BY <2>2, <3>1, <4>1, HandlersOfVectors
    <3>2. CASE v # 255
      <4>1. v \in (22 .. 253) \ ((32 .. 37) \union {48, 49}) /\ v \in 0 .. 254
        BY <3>2
      <4> QED
        BY <2>2, <4>1, HandlersOfVectors
    <3> QED
      BY <3>1, <3>2
  <2> QED
    BY <2>3, <2>4, <2>5, IDTEntryTested DEF VectorsReach
<1> QED
  BY <1>1, Invariance, PTL

\* No device stops the machine, at whatever step of the boot it raises
\* whatever line.
THEOREM LinesAlwaysServed == Spec => []LinesServed
<1>1. DInv => LinesServed
  <2> SUFFICES ASSUME DInv, pc # "cli"
               PROVE  /\ cpu # "main" /\ ~ faulted => cpu \in Returns \ TakesErrCode
                      /\ iflag => isr = {}
    BY DEF LinesServed
  <2>1. iflag => isr = {}
    BY DEF DInv, CPUOK
  <2>2. cpu # "main" /\ ~ faulted => cpu \in {"PITTimerHandler", "KeyboardHandler"}
    BY DEF DInv, CPUOK
  <2> QED
    BY <2>1, <2>2, CpuNames
<1> QED
  BY <1>1, Invariance, PTL
=============================================================================
