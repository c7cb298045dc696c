---------------------------- MODULE FatImage_proofs ----------------------------
(***************************************************************************)
(* Theorems about FatImage, for disks, files and trees of any size.        *)
(***************************************************************************)
EXTENDS FatImage, FiniteSetTheorems, WellFoundedInduction, TLAPS

-----------------------------------------------------------------------------
(* Arithmetic *)

\* Induction, the way the provers can use it: by the least counterexample.
LEMMA LeastNat ==
  ASSUME NEW T \in SUBSET Nat, T # {}
  PROVE  \E x \in T : \A y \in T : x <= y
<1>1. \E x \in T : \A y \in T : ~ (<<y, x>> \in OpToRel(<, Nat))
  BY NatLessThanWellFounded, WFMin, Zenon
<1>2. \E x \in T : \A y \in T : ~ (y < x)
  BY <1>1, Zenon DEF OpToRel
<1> QED
  BY <1>2

\* Division, as the provers need it.
LEMMA Divided ==
  ASSUME NEW a \in Nat, NEW d \in Nat \ {0}
  PROVE  /\ a \div d \in Nat
         /\ (a \div d) * d <= a
         /\ a < (a \div d + 1) * d
BY Z3

\* A byte of a file lies in one of the clusters its size needs.
LEMMA DividesMonotone ==
  ASSUME NEW a \in Nat, NEW b \in Nat, NEW d \in Nat \ {0}, a <= b
  PROVE  a \div d <= b \div d
<1> DEFINE q == a \div d
           r == b \div d
<1>1. q \in Nat /\ q * d <= a /\ r \in Nat /\ b < (r + 1) * d
  BY Divided
<1>2. q * d < (r + 1) * d
  BY <1>1
<1>3. ASSUME q >= r + 1 PROVE FALSE
  <2>1. PICK k \in Nat : q = r + 1 + k
    BY <1>1, <1>3
  <2>2. q * d = (r + 1) * d + k * d
    BY <2>1, <1>1
  <2>3. k * d \in Nat
    BY <2>1
  <2> QED
    BY <1>1, <1>2, <2>2, <2>3
<1> QED
  BY <1>1, <1>3

\* A cluster has room for a directory entry.
LEMMA Cluster == bytesPerCluster \in Nat /\ bytesPerCluster >= 32
BY FatAssumption DEF bytesPerCluster, DIR_ENTRY

\* A disk of the tool has a FAT of eight entries at least.
LEMMA FatLong == disk \in Disks => FatLen \in Nat /\ FatLen >= 8
<1> SUFFICES ASSUME disk \in Disks PROVE FatLen \in Nat /\ FatLen >= 8
  OBVIOUS
<1> DEFINE t == (2 * (SECTOR_SIZE \div 4) * SecPerClus + 2) \div 2
           x == disk - RES_SEC_COUNT
<1>1. x \in Nat /\ x >= 1
  BY FatAssumption
<1>2. t \in Nat /\ t >= 1
  <2>1. SECTOR_SIZE \div 4 \in Nat
    BY FatAssumption
  <2>2. (SECTOR_SIZE \div 4) * SecPerClus \in Nat
    BY <2>1, FatAssumption
  <2>3. 2 * (SECTOR_SIZE \div 4) * SecPerClus = 2 * ((SECTOR_SIZE \div 4) * SecPerClus)
    BY <2>1, FatAssumption
  <2> QED
    BY <2>2, <2>3
<1>3. (x + t - 1) \div t \in Nat /\ (x + t - 1) \div t >= 1
  <2> DEFINE a == x + t - 1
  <2>1. a \in Nat /\ a >= t
    BY <1>1, <1>2
  <2>2. a \div t \in Nat /\ a < (a \div t + 1) * t
    BY <2>1, <1>2, Divided
  <2>3. a \div t # 0
    BY <2>1, <2>2, <1>2
  <2> QED
    BY <2>2, <2>3
<1>4. FatSizeSectors \in Nat /\ FatSizeSectors >= 1
  BY <1>3 DEF FatSizeSectors
<1>5. PICK k \in Nat : FatSizeSectors = 1 + k
  BY <1>4
<1>6. FatSizeSectors * SECTOR_SIZE = SECTOR_SIZE + k * SECTOR_SIZE /\ k * SECTOR_SIZE \in Nat
  BY <1>5, FatAssumption
<1>7. FatSizeSectors * SECTOR_SIZE \in Nat /\ FatSizeSectors * SECTOR_SIZE >= 32
  BY <1>6, FatAssumption DEF DIR_ENTRY
<1> QED
  BY <1>7 DEF FatLen

-----------------------------------------------------------------------------
(* GetEmptyClusters *)

\* The n-th smallest element of a set is the one with n - 1 below it.
LEMMA Ranked ==
  ASSUME NEW S \in SUBSET Int, IsFiniteSet(S), NEW n \in 1 .. Cardinality(S)
  PROVE  \E c \in S : Cardinality({d \in S : d < c}) = n - 1
<1> DEFINE Below(c) == {d \in S : d < c}
           k == Cardinality(S)
           r == [c \in S |-> Cardinality(Below(c))]
<1>1. k \in Nat
  BY FS_CardinalityType
<1>2. ASSUME NEW c \in S
      PROVE  IsFiniteSet(Below(c)) /\ Cardinality(Below(c)) \in 0 .. k - 1
  <2>1. Below(c) \in SUBSET S /\ Below(c) # S
    OBVIOUS
  <2>2. IsFiniteSet(Below(c)) /\ Cardinality(Below(c)) <= k /\ Cardinality(Below(c)) # k
    BY <2>1, FS_Subset
  <2> QED
    BY <2>2, <1>1, FS_CardinalityType
<1>3. ASSUME NEW c \in S, NEW e \in S, c < e
      PROVE  Cardinality(Below(c)) < Cardinality(Below(e))
  <2>1. \A d \in S : d < c => d < e
    BY <1>3
  <2>2. Below(c) \in SUBSET Below(e)
    BY <2>1
  <2>3. c \in Below(e) /\ c \notin Below(c)
    BY <1>3
  <2>4. Cardinality(Below(c)) <= Cardinality(Below(e)) /\ Cardinality(Below(c)) # Cardinality(Below(e))
    BY <2>2, <2>3, <1>2, FS_Subset
  <2> QED
    BY <2>4, <1>2
<1>4. r \in [S -> 0 .. k - 1]
  BY <1>2
<1>5. \A c, e \in S : c # e => r[c] # r[e]
  <2> SUFFICES ASSUME NEW c \in S, NEW e \in S, c < e \/ e < c
               PROVE  r[c] # r[e]
    OBVIOUS
  <2>1. Cardinality(Below(c)) \in Int /\ Cardinality(Below(e)) \in Int
    BY <1>2, <1>1
  <2> QED
    BY <1>3, <2>1
<1>6. r \in Injection(S, 0 .. k - 1)
  BY <1>4, <1>5 DEF Injection, IsInjective
<1>7. IsFiniteSet(0 .. k - 1) /\ Cardinality(0 .. k - 1) = k
  <2>1. 0 \in Int /\ k - 1 \in Int /\ (0 > k - 1 => k = 0) /\ (k - 1) - 0 + 1 = k
    BY <1>1
  <2>2. /\ IsFiniteSet(0 .. k - 1)
        /\ Cardinality(0 .. k - 1) = IF 0 > k - 1 THEN 0 ELSE (k - 1) - 0 + 1
    BY <2>1, FS_Interval
  <2> QED
    BY <2>1, <2>2
<1>8. r \in Surjection(S, 0 .. k - 1)
  BY <1>6, <1>7, FS_Injection
<1>9. n - 1 \in 0 .. k - 1
  BY <1>1
<1> QED
  BY <1>8, <1>9 DEF Surjection

\* The clusters a file gets: free ones, each once, or too few and a zero at
\* the end.
HasLength(chain, count) == chain \in Seq(Nat) /\ Len(chain) = count
AllFree(chain) ==
  /\ \A n \in DOMAIN chain : chain[n] \in FreeEntries
  /\ \A n, m \in DOMAIN chain : n # m => chain[n] # chain[m]
TooFew(chain) == chain[Len(chain)] = 0

\* There are finitely many free entries.
LEMMA FreeFinite ==
  disk \in Disks => FreeEntries \in SUBSET Nat /\ IsFiniteSet(FreeEntries)
<1> SUFFICES ASSUME disk \in Disks
             PROVE  FreeEntries \in SUBSET Nat /\ IsFiniteSet(FreeEntries)
  OBVIOUS
<1>1. FatLen \in Nat
  BY FatLong
<1>2. FreeEntries \in SUBSET (3 .. FatLen - 4)
  BY DEF FreeEntries
<1>3. IsFiniteSet(3 .. FatLen - 4)
  BY <1>1, FS_Interval
<1>4. 3 .. FatLen - 4 \subseteq Nat
  BY <1>1
<1> QED
  BY <1>2, <1>3, <1>4, FS_Subset

LEMMA EmptyClusters ==
  ASSUME disk \in Disks, NEW count \in Nat \ {0},
         NEW chain, chain = GetEmptyClusters(count)
  PROVE  /\ HasLength(chain, count)
         /\ AllFree(chain) \/ TooFew(chain)
         /\ 0 \in Range(chain) <=> ~ AllFree(chain)
<1> DEFINE F == FreeEntries
           rank(c) == Cardinality({d \in F : d < c})
<1>1. F \in SUBSET Nat /\ IsFiniteSet(F) /\ 0 \notin F /\ Cardinality(F) \in Nat
  BY FreeFinite, FS_CardinalityType DEF FreeEntries
<1>2. chain = [n \in 1 .. count |->
                 IF n <= Cardinality(F) THEN CHOOSE c \in F : rank(c) = n - 1 ELSE 0]
  BY DEF GetEmptyClusters
<1>3. ASSUME NEW n \in 1 .. count, n <= Cardinality(F)
      PROVE  chain[n] \in F /\ rank(chain[n]) = n - 1
  <2>1. \E c \in F : rank(c) = n - 1
    BY <1>1, <1>3, Ranked
  <2>2. chain[n] = CHOOSE c \in F : rank(c) = n - 1
    BY <1>2, <1>3
  <2> QED
    BY <2>1, <2>2
<1>4. ASSUME NEW n \in 1 .. count, ~ (n <= Cardinality(F)) PROVE chain[n] = 0
  BY <1>2, <1>4
<1>5. HasLength(chain, count) /\ DOMAIN chain = 1 .. count
  <2>1. \A n \in 1 .. count : chain[n] \in Nat
    <3>1. \A n \in 1 .. count : n <= Cardinality(F) => chain[n] \in F
      BY <1>3
    <3>2. \A n \in 1 .. count : ~ (n <= Cardinality(F)) => chain[n] = 0
      BY <1>4
    <3>3. F \subseteq Nat /\ 0 \in Nat
      BY <1>1
    <3> QED
      BY <3>1, <3>2, <3>3, Zenon
  <2>2. chain = [n \in 1 .. count |-> chain[n]]
    BY <1>2
  <2>3. chain \in [1 .. count -> Nat]
    BY <2>1, <2>2
  <2> QED
    BY <2>3 DEF HasLength
<1>6. CASE count <= Cardinality(F)
  <2>1. \A n \in 1 .. count : n <= Cardinality(F)
    BY <1>1, <1>6
  <2>2. \A n \in 1 .. count : chain[n] \in F /\ rank(chain[n]) = n - 1
    BY <2>1, <1>3
  <2>3. ASSUME NEW n \in 1 .. count, NEW m \in 1 .. count, chain[n] = chain[m]
        PROVE  n = m
    <3>1. rank(chain[n]) = rank(chain[m])
      BY <2>3
    <3>2. n - 1 = m - 1
      BY <2>2, <3>1
    <3> QED
      BY <3>2
  <2>4. AllFree(chain)
    BY <1>5, <2>2, <2>3 DEF AllFree
  <2> QED
    BY <2>4, <1>1, <1>5 DEF AllFree, Range
<1>7. CASE ~ (count <= Cardinality(F))
  <2>1. chain[count] = 0
    BY <1>4, <1>7
  <2> QED
    BY <2>1, <1>1, <1>5 DEF AllFree, TooFew, Range, HasLength
<1> QED
  BY <1>6, <1>7, <1>5

-----------------------------------------------------------------------------
(* UpdateFAT and CopyFileToClusters *)

LastPlace(chain, c) == Max({0} \union {n \in DOMAIN chain : chain[n] = c})

\* Where a cluster stands last in a chain.
LEMMA LastPlaceIs ==
  ASSUME NEW len \in Nat, NEW chain, DOMAIN chain = 1 .. len, NEW c,
         NEW n \in 0 .. len, n # 0 => chain[n] = c,
         \A m \in 1 .. len : chain[m] = c => m <= n
  PROVE  LastPlace(chain, c) = n
<1> DEFINE S == {0} \union {m \in DOMAIN chain : chain[m] = c}
<1>1. n \in S /\ \A y \in S : y \in Nat /\ n >= y
  OBVIOUS
<1>2. \A x \in S : (\A y \in S : x >= y) => x = n
  BY <1>1
<1> QED
  BY <1>1, <1>2 DEF LastPlace, Max

\* A chain of clusters that differ, written into the FAT.
LEMMA ChainWritten ==
  ASSUME NEW chain \in Seq(Nat), chain # << >>, UpdateFAT(chain),
         \A n, m \in DOMAIN chain : n # m => chain[n] # chain[m]
  PROVE  /\ DOMAIN fat' = DOMAIN fat
         /\ \A c \in DOMAIN fat : c \notin Range(chain) => fat'[c] = fat[c]
         /\ \A n \in DOMAIN chain : chain[n] \in DOMAIN fat =>
              fat'[chain[n]] = IF n = Len(chain) THEN EOC ELSE chain[n + 1]
<1>1. DOMAIN chain = 1 .. Len(chain) /\ Len(chain) \in Nat /\ Len(chain) >= 1
  OBVIOUS
<1>2. fat' = [c \in DOMAIN fat |->
                IF LastPlace(chain, c) = 0 THEN fat[c]
                ELSE IF LastPlace(chain, c) = Len(chain) THEN EOC
                ELSE chain[LastPlace(chain, c) + 1]]
  BY DEF UpdateFAT, LastPlace
<1>3. ASSUME NEW c, c \notin Range(chain) PROVE LastPlace(chain, c) = 0
  <2>1. \A m \in 1 .. Len(chain) : chain[m] # c
    BY <1>1, <1>3 DEF Range
  <2> QED
    BY <1>1, <2>1, LastPlaceIs
<1>4. ASSUME NEW n \in DOMAIN chain PROVE LastPlace(chain, chain[n]) = n
  <2>1. \A m \in 1 .. Len(chain) : chain[m] = chain[n] => m <= n
    BY <1>1
  <2> QED
    BY <1>1, <2>1, LastPlaceIs
<1>5. \A n \in DOMAIN chain : n # 0
  BY <1>1
<1> QED
  BY <1>2, <1>3, <1>4, <1>5

\* The clusters of a file, filled with it.
LEMMA FileCopied ==
  ASSUME NEW chain \in Seq(Nat), NEW f, NEW size,
         CopyFileToClusters(f, size, chain),
         \A n, m \in DOMAIN chain : n # m => chain[n] # chain[m]
  PROVE  /\ DOMAIN data' = DOMAIN data
         /\ \A c \in DOMAIN data : c \notin Range(chain) => data'[c] = data[c]
         /\ \A n \in DOMAIN chain : chain[n] \in DOMAIN data =>
              data'[chain[n]] = Part(f, size, n)
<1>1. DOMAIN chain = 1 .. Len(chain) /\ Len(chain) \in Nat
  OBVIOUS
<1>2. data' = [c \in DOMAIN data |->
                 IF LastPlace(chain, c) = 0 THEN data[c]
                 ELSE Part(f, size, LastPlace(chain, c))]
  BY DEF CopyFileToClusters, LastPlace
<1>3. ASSUME NEW c, c \notin Range(chain) PROVE LastPlace(chain, c) = 0
  <2>1. \A m \in 1 .. Len(chain) : chain[m] # c
    BY <1>1, <1>3 DEF Range
  <2> QED
    BY <1>1, <2>1, LastPlaceIs
<1>4. ASSUME NEW n \in DOMAIN chain PROVE LastPlace(chain, chain[n]) = n
  <2>1. \A m \in 1 .. Len(chain) : chain[m] = chain[n] => m <= n
    BY <1>1
  <2> QED
    BY <1>1, <2>1, LastPlaceIs
<1>5. \A n \in DOMAIN chain : n # 0
  BY <1>1
<1> QED
  BY <1>2, <1>3, <1>4, <1>5

\* A chain that is too short ends in entry 0 of the FAT, whose signature it
\* destroys; and nothing ever brings it back.
LEMMA SignatureGoes ==
  ASSUME NEW chain \in Seq(Nat), chain # << >>, UpdateFAT(chain),
         0 \in DOMAIN fat, TooFew(chain) \/ fat[0] # SIGNATURE
  PROVE  fat'[0] # SIGNATURE
<1>1. DOMAIN chain = 1 .. Len(chain) /\ Len(chain) \in Nat /\ Len(chain) >= 1
  OBVIOUS
<1>2. fat'[0] = IF LastPlace(chain, 0) = 0 THEN fat[0]
                ELSE IF LastPlace(chain, 0) = Len(chain) THEN EOC
                ELSE chain[LastPlace(chain, 0) + 1]
  BY DEF UpdateFAT, LastPlace
<1>3. EOC # SIGNATURE /\ SIGNATURE \notin Nat
  BY DEF EOC, SIGNATURE
<1>4. CASE TooFew(chain)
  <2>1. \A m \in 1 .. Len(chain) : chain[m] = 0 => m <= Len(chain)
    BY <1>1
  <2>2. LastPlace(chain, 0) = Len(chain)
    BY <1>1, <1>4, <2>1, LastPlaceIs DEF TooFew
  <2> QED
    BY <1>1, <1>2, <1>3, <2>2
<1>5. CASE ~ TooFew(chain)
  <2>1. LastPlace(chain, 0) \in 0 .. Len(chain)
    <3> DEFINE S == {n \in DOMAIN chain : chain[n] = 0}
               U == {u \in Nat : \A n \in S : n <= u}
    <3>1. U \in SUBSET Nat /\ Len(chain) \in U
      BY <1>1
    <3>2. PICK u \in U : \A v \in U : u <= v
      BY <3>1, LeastNat
    <3>3. u \in 0 .. Len(chain) /\ \A n \in S : n <= u
      BY <3>1, <3>2, <1>1
    <3>4. u # 0 => u \in S
      <4>1. SUFFICES ASSUME u # 0, u \notin S PROVE FALSE
        OBVIOUS
      <4>2. \A n \in S : n <= u - 1
        BY <3>3, <4>1, <1>1
      <4>3. u - 1 \in U
        BY <4>1, <4>2, <3>3, <1>1
      <4> QED
        BY <4>3, <3>2, <3>3, <1>1
    <3>5. LastPlace(chain, 0) = u
      BY <1>1, <3>3, <3>4, LastPlaceIs
    <3> QED
      BY <3>3, <3>5
  <2>2. LastPlace(chain, 0) \notin {0, Len(chain)} => chain[LastPlace(chain, 0) + 1] \in Nat
    BY <1>1, <2>1
  <2> QED
    BY <1>2, <1>3, <1>5, <2>2
<1> QED
  BY <1>4, <1>5

-----------------------------------------------------------------------------
(* The invariant.  The image so far has a chain of its own for every entry *)
(* of the root, as long as nobody got too few clusters.                    *)

Shaped ==
  /\ disk \in Disks
  /\ DOMAIN fat = 0 .. FatLen - 1 /\ DOMAIN data = 0 .. DataLen - 1
  /\ files \in Seq(FileSizes \union {Directory}) /\ short \in BOOLEAN
  /\ root \in Seq([file : Nat, first : Nat, size : Nat])
  /\ status \in {"building", "written", "failed", "panic"}

\* A chain of the FAT, from first on to EOC.
IsChain(chain, first) ==
  /\ chain \in Seq(3 .. FatLen - 4) /\ chain # << >> /\ chain[1] = first
  /\ \A i, j \in DOMAIN chain : i # j => chain[i] # chain[j]
  /\ \A i \in DOMAIN chain :
       fat[chain[i]] = IF i = Len(chain) THEN EOC ELSE chain[i + 1]

\* The clusters of a chain hold the file of an entry.
Holds(chain, e) ==
  /\ Len(chain) = ClustersFromSize(files[e.file])
  /\ \A i \in DOMAIN chain :
       /\ chain[i] \in DOMAIN data
       /\ data[chain[i]] = Part(e.file, files[e.file], i)
  /\ files[e.file] < SIZE_RANGE => e.size = files[e.file]

OwnChain(chain, e) ==
  /\ IsChain(chain, e.first)
  /\ e.file \in DOMAIN files
  /\ files[e.file] # Directory => Holds(chain, e)

OwnChains(own) ==
  /\ DOMAIN own = DOMAIN root
  /\ \A n \in DOMAIN root : \E e : root[n] = e /\ OwnChain(own[n], e)
  /\ \A n, m \in DOMAIN root : n # m =>
       \A i \in DOMAIN own[n], j \in DOMAIN own[m] : own[n][i] # own[m][j]

AllThere ==
  \A f \in DOMAIN files : files[f] # Directory => \E n \in DOMAIN root : root[n].file = f

Sound ==
  status \in {"building", "written"} /\ ~ short => AllThere /\ \E own : OwnChains(own)

Refused ==
  /\ short /\ status = "building" => fat[0] # SIGNATURE
  /\ FullRefused

FInv == Shaped /\ Refused /\ Sound

\* The empty image: no entries, no files.
LEMMA InitImage == Init => FInv
<1> SUFFICES ASSUME Init PROVE FInv
  OBVIOUS
<1>1. Shaped
  <2>1. DOMAIN fat = 0 .. FatLen - 1 /\ DOMAIN data = 0 .. DataLen - 1 /\ disk \in Disks
    BY DEF Init
  <2>2. root = << >> /\ files = << >> /\ status = "building" /\ short = FALSE
    BY DEF Init
  <2>3. files \in Seq(FileSizes \union {Directory})
    BY <2>2
  <2>4. root \in Seq([file : Nat, first : Nat, size : Nat])
    BY <2>2
  <2> QED
    BY <2>1, <2>2, <2>3, <2>4, Zenon DEF Shaped
<1>2. Refused
  BY DEF Init, Refused, FullRefused
<1>3. OwnChains(<< >>) /\ AllThere
  BY DEF Init, OwnChains, AllThere
<1> QED
  BY <1>1, <1>2, <1>3 DEF FInv, Sound

\* Serialize changes nothing of the image, only what becomes of it.
LEMMA SerializeImage == FInv /\ Serialize => FInv'
<1> SUFFICES ASSUME FInv, Serialize PROVE FInv'
  OBVIOUS
<1>1. UNCHANGED <<disk, fat, data, root, files, short>> /\ status = "building"
      /\ status' \in {"written", "failed"} /\ (status' = "written" => fat[0] = SIGNATURE)
  BY DEF Serialize
<1>2. Shaped'
  BY <1>1 DEF FInv, Shaped, FatLen, DataLen, FatSizeSectors
<1>3. Refused'
  BY <1>1 DEF FInv, Refused, FullRefused
<1>4. \A own : OwnChains(own) => OwnChains(own)'
  BY <1>1 DEF OwnChains, OwnChain, IsChain, Holds, FatLen, FatSizeSectors
<1>5. Sound'
  BY <1>1, <1>4 DEF FInv, Sound, AllThere
<1> QED
  BY <1>2, <1>3, <1>5 DEF FInv

\* UpdateFAT has written a chain, as ChainWritten says.
Written(chain) ==
  /\ DOMAIN fat' = DOMAIN fat
  /\ \A c \in DOMAIN fat : c \notin Range(chain) => fat'[c] = fat[c]
  /\ \A n \in DOMAIN chain : chain[n] \in DOMAIN fat =>
       fat'[chain[n]] = IF n = Len(chain) THEN EOC ELSE chain[n + 1]

\* The clusters of a new chain were free, so that no other chain has them and
\* none is broken.
LEMMA ChainKept ==
  ASSUME Shaped, disk' = disk, NEW chain \in Seq(Nat), AllFree(chain), Written(chain),
         NEW ch, NEW first, IsChain(ch, first)
  PROVE  /\ IsChain(ch, first)'
         /\ \A i \in DOMAIN ch, j \in DOMAIN chain : ch[i] # chain[j]
<1>1. FatLen' = FatLen /\ FatLen \in Nat /\ FatLen >= 8
  BY FatLong DEF Shaped, FatLen, FatSizeSectors
<1>2. \A i \in DOMAIN ch : ch[i] \in 3 .. FatLen - 4
  <2>1. \A S : ch \in Seq(S) => \A i \in DOMAIN ch : ch[i] \in S
    OBVIOUS
  <2> QED
    BY <2>1 DEF IsChain
<1>3. \A i \in DOMAIN ch : fat[ch[i]] # EMPTY
  <2>1. DOMAIN ch = 1 .. Len(ch) /\ Len(ch) \in Nat
    BY DEF IsChain
  <2>2. ASSUME NEW i \in DOMAIN ch PROVE fat[ch[i]] # EMPTY
    <3>1. CASE i = Len(ch)
      BY <3>1 DEF IsChain, EOC, EMPTY
    <3>2. CASE i # Len(ch)
      <4>1. i + 1 \in DOMAIN ch
        BY <2>1, <3>2
      <4> QED
        BY <4>1, <3>2, <1>1, <1>2 DEF IsChain, EMPTY
    <3> QED
      BY <3>1, <3>2
  <2> QED
    BY <2>2
<1>4. \A j \in DOMAIN chain : fat[chain[j]] = EMPTY
  BY DEF AllFree, FreeEntries
<1>5. \A i \in DOMAIN ch, j \in DOMAIN chain : ch[i] # chain[j]
  BY <1>3, <1>4
<1>6. \A i \in DOMAIN ch : ch[i] \in DOMAIN fat /\ ch[i] \notin Range(chain)
  BY <1>1, <1>2, <1>5 DEF Shaped, Range
<1>7. \A i \in DOMAIN ch : fat'[ch[i]] = fat[ch[i]]
  BY <1>6 DEF Written
<1> QED
  BY <1>1, <1>5, <1>7 DEF IsChain

\* What UpdateFAT wrote is a chain.
LEMMA ChainNew ==
  ASSUME Shaped, disk' = disk, NEW chain \in Seq(Nat), chain # << >>,
         AllFree(chain), Written(chain)
  PROVE  IsChain(chain, chain[1])'
<1>1. FatLen' = FatLen /\ FatLen \in Nat /\ FatLen >= 8
  BY FatLong DEF Shaped, FatLen, FatSizeSectors
<1>2. DOMAIN chain = 1 .. Len(chain) /\ Len(chain) \in Nat
  OBVIOUS
<1>3. \A i \in DOMAIN chain : chain[i] \in 3 .. FatLen - 4
  BY DEF AllFree, FreeEntries
<1>4. chain \in Seq(3 .. FatLen - 4)
  <2>1. ASSUME NEW S, \A i \in DOMAIN chain : chain[i] \in S PROVE chain \in Seq(S)
    BY <2>1, <1>2
  <2> QED
    BY <2>1, <1>3
<1>5. \A i \in DOMAIN chain : chain[i] \in DOMAIN fat
  BY <1>1, <1>3 DEF Shaped
<1> QED
  BY <1>1, <1>4, <1>5 DEF IsChain, AllFree, Written

\* UpdateDirEntry has added an entry for a chain.
LEMMA EntryAdded ==
  ASSUME Shaped, disk' = disk, NEW chain \in Seq(Nat), chain # << >>,
         AllFree(chain), Written(chain), NEW own, OwnChains(own),
         NEW x, files' = Append(files, x),
         NEW e, root' = Append(root, e), e.first = chain[1], e.file = Len(files) + 1,
         DOMAIN data' = DOMAIN data,
         \A c \in DOMAIN data : c \notin Range(chain) => data'[c] = data[c],
         x # Directory => Holds(chain, e)'
  PROVE  \E o : OwnChains(o)'
<1> DEFINE L == Len(root)
<1>1. /\ L \in Nat /\ DOMAIN root = 1 .. L /\ DOMAIN root' = 1 .. L + 1
      /\ \A n \in 1 .. L : root'[n] = root[n]
      /\ root'[L + 1] = e
  BY DEF Shaped
<1>2. /\ DOMAIN files' = 1 .. Len(files) + 1 /\ DOMAIN files = 1 .. Len(files)
      /\ \A f \in DOMAIN files : files'[f] = files[f]
      /\ files'[Len(files) + 1] = x /\ Len(files) \in Nat
  BY DEF Shaped
<1>3. PICK o : o = [n \in 1 .. L + 1 |-> IF n = L + 1 THEN chain ELSE own[n]]
  OBVIOUS
<1>4. DOMAIN o = 1 .. L + 1 /\ o[L + 1] = chain /\ \A n \in 1 .. L : o[n] = own[n]
  BY <1>1, <1>3
<1>5. ASSUME NEW n \in 1 .. L
      PROVE  /\ \E r : root'[n] = r /\ OwnChain(o[n], r)'
             /\ \A i \in DOMAIN o[n], j \in DOMAIN chain : o[n][i] # chain[j]
  <2>1. PICK ch : ch = own[n]
    OBVIOUS
  <2>2. PICK r : root[n] = r /\ OwnChain(ch, r)
    BY <1>1, <2>1 DEF OwnChains
  <2>3. IsChain(ch, r.first) /\ r.file \in DOMAIN files
        /\ (files[r.file] # Directory => Holds(ch, r))
    BY <2>2 DEF OwnChain
  <2>4. IsChain(ch, r.first)' /\ \A i \in DOMAIN ch, j \in DOMAIN chain : ch[i] # chain[j]
    BY <2>3, ChainKept
  <2>5. \A i \in DOMAIN ch : ch[i] \notin Range(chain)
    BY <2>4 DEF Range
  <2>6. files'[r.file] = files[r.file] /\ r.file \in DOMAIN files'
    BY <1>2, <2>3
  <2>7. Holds(ch, r) => Holds(ch, r)'
    BY <2>5, <2>6 DEF Holds, Part, ClustersFromSize
  <2>8. o[n] = ch /\ root'[n] = r
    BY <1>1, <1>4, <2>1, <2>2
  <2>9. OwnChain(ch, r)'
    BY <2>3, <2>4, <2>6, <2>7 DEF OwnChain
  <2> QED
    BY <2>4, <2>8, <2>9
<1>6. root'[L + 1] = e /\ OwnChain(chain, e)'
  <2>1. IsChain(chain, chain[1])'
    BY ChainNew
  <2>2. e.file \in DOMAIN files' /\ files'[e.file] = x
    BY <1>2
  <2> QED
    BY <1>1, <2>1, <2>2 DEF OwnChain
<1>7. ASSUME NEW n \in 1 .. L + 1, NEW m \in 1 .. L + 1, n # m,
             NEW i \in DOMAIN o[n], NEW j \in DOMAIN o[m]
      PROVE  o[n][i] # o[m][j]
  <2>1. CASE n \in 1 .. L /\ m \in 1 .. L
    <3>1. own[n] = o[n] /\ own[m] = o[m] /\ n \in DOMAIN root /\ m \in DOMAIN root
      BY <2>1, <1>1, <1>4
    <3>2. \A p, q \in DOMAIN root : p # q =>
            \A k \in DOMAIN own[p], l \in DOMAIN own[q] : own[p][k] # own[q][l]
      BY Zenon DEF OwnChains
    <3>3. i \in DOMAIN own[n] /\ j \in DOMAIN own[m]
      BY <3>1
    <3>4. own[n][i] # own[m][j]
      BY <3>1, <3>2, <3>3, <1>7, Zenon
    <3> QED
      BY <3>1, <3>4
  <2>2. CASE n = L + 1 /\ m \in 1 .. L
    BY <2>2, <1>4, <1>5, <1>7
  <2>3. CASE n \in 1 .. L /\ m = L + 1
    BY <2>3, <1>4, <1>5, <1>7
  <2> QED
    BY <2>1, <2>2, <2>3, <1>1, <1>7
<1>8. \A n \in 1 .. L + 1 : n = L + 1 \/ n \in 1 .. L
  BY <1>1
<1> QED
  <2>1. \A n \in 1 .. L + 1 : \E r : root'[n] = r /\ OwnChain(o[n], r)'
    BY <1>4, <1>5, <1>6, <1>8
  <2>2. DOMAIN o = DOMAIN root' /\ DOMAIN root' = 1 .. L + 1
    BY <1>1, <1>4
  <2>3. \A n \in DOMAIN root' : \E r : root'[n] = r /\ OwnChain(o[n], r)'
    BY <2>1, <2>2
  <2>4. \A n, m \in DOMAIN root' : n # m =>
          \A i \in DOMAIN o[n], j \in DOMAIN o[m] : o[n][i] # o[m][j]
    BY <1>7, <2>2
  <2>5. OwnChains(o)'
    BY <2>2, <2>3, <2>4, Zenon DEF OwnChains
  <2> QED
    BY <2>5

\* What is left of a size in an entry.
LEMMA SizeTyped ==
  ASSUME NEW size \in Nat
  PROVE  IntToBytes(size) \in Nat
<1>1. \A n \in Nat \ {0} : size % n \in Nat
  OBVIOUS
<1> QED
  BY <1>1, FatAssumption DEF IntToBytes

\* A size that fits is not cut.
LEMMA SmallUncut ==
  ASSUME NEW size \in Nat, NEW n \in Nat \ {0}, size < n
  PROVE  size % n = size
OBVIOUS

\* The clusters a file needs.
LEMMA SizeHasClusters ==
  ASSUME NEW size \in Nat
  PROVE  ClustersFromSize(size) \in Nat \ {0}
<1> DEFINE B == bytesPerCluster
<1>1. B \in Nat \ {0} /\ size + B \in Nat /\ B <= size + B
  BY Cluster
<1>2. (size + B) \div B \in Nat /\ B \div B <= (size + B) \div B
  BY <1>1, Divided, DividesMonotone
<1>3. B \div B = 1
  <2>1. B \div B \in Nat /\ (B \div B) * B <= B /\ B < (B \div B + 1) * B
    BY <1>1, Divided
  <2>2. B \div B # 0
    BY <2>1, <1>1
  <2>3. B \div B >= 2 => (B \div B) * B >= 2 * B
    <3>1. SUFFICES ASSUME B \div B >= 2 PROVE (B \div B) * B >= 2 * B
      OBVIOUS
    <3>2. PICK k \in Nat : B \div B = 2 + k
      BY <2>1, <3>1
    <3>3. (2 + k) * B = 2 * B + k * B /\ k * B \in Nat
      BY <1>1
    <3> QED
      BY <3>2, <3>3, <1>1
  <2> QED
    BY <2>1, <2>2, <2>3, <1>1
<1> QED
  BY <1>2, <1>3 DEF ClustersFromSize

\* What addFile and addDir have in common: they take the clusters of a chain,
\* UpdateFAT writes it, and the name goes into the root directory or not.
LEMMA AddedShape ==
  ASSUME Shaped, disk' = disk, DOMAIN fat' = DOMAIN fat, DOMAIN data' = DOMAIN data,
         NEW x \in FileSizes \union {Directory}, files' = Append(files, x),
         short' \in BOOLEAN, NEW e \in [file : Nat, first : Nat, size : Nat],
         root' \in {root, Append(root, e)},
         status' \in {"building", "written", "failed", "panic"}
  PROVE  Shaped'
<1>1. FatLen' = FatLen /\ DataLen' = DataLen
  BY DEF FatLen, DataLen, FatSizeSectors
<1>2. files' \in Seq(FileSizes \union {Directory})
  <2>1. \A S, s, y : s \in Seq(S) /\ y \in S => Append(s, y) \in Seq(S)
    OBVIOUS
  <2> QED
    BY <2>1 DEF Shaped
<1>3. root' \in Seq([file : Nat, first : Nat, size : Nat])
  <2>1. \A S, s, y : s \in Seq(S) /\ y \in S => Append(s, y) \in Seq(S)
    OBVIOUS
  <2>2. PICK R : R = [file : Nat, first : Nat, size : Nat]
    OBVIOUS
  <2>3. root \in Seq(R) /\ e \in R
    BY <2>2, Zenon DEF Shaped
  <2>4. root' \in Seq(R)
    BY <2>1, <2>3
  <2> QED
    BY <2>2, <2>4
<1>4. /\ disk' \in Disks /\ DOMAIN fat' = 0 .. FatLen' - 1
      /\ DOMAIN data' = 0 .. DataLen' - 1
  BY <1>1 DEF Shaped
<1> QED
  BY <1>2, <1>3, <1>4, Zenon DEF Shaped

\* Every file has its entry, the new one too.
LEMMA AddedThere ==
  ASSUME Shaped, AllThere, NEW x, files' = Append(files, x), NEW e,
         \/ root' = Append(root, e) /\ e.file = Len(files) + 1
         \/ root' = root /\ x = Directory
  PROVE  AllThere'
<1>1. /\ DOMAIN files' = 1 .. Len(files) + 1 /\ DOMAIN files = 1 .. Len(files)
      /\ \A f \in DOMAIN files : files'[f] = files[f]
      /\ files'[Len(files) + 1] = x /\ Len(files) \in Nat
  BY DEF Shaped
<1>2. SUFFICES ASSUME NEW f \in DOMAIN files', files'[f] # Directory
               PROVE  \E n \in DOMAIN root' : root'[n].file = f
  BY DEF AllThere
<1>3. DOMAIN root = 1 .. Len(root) /\ Len(root) \in Nat
  BY DEF Shaped
<1>4. CASE root' = Append(root, e) /\ e.file = Len(files) + 1
  <2>1. /\ DOMAIN root' = 1 .. Len(root) + 1 /\ root'[Len(root) + 1] = e
        /\ \A n \in DOMAIN root : root'[n] = root[n]
    BY <1>4, <1>3 DEF Shaped
  <2>2. CASE f = Len(files) + 1
    BY <2>1, <2>2, <1>3, <1>4
  <2>3. CASE f \in DOMAIN files
    <3>1. PICK n \in DOMAIN root : root[n].file = f
      BY <2>3, <1>1, <1>2 DEF AllThere
    <3> QED
      BY <3>1, <2>1, <1>3
  <2> QED
    BY <2>2, <2>3, <1>1
<1>5. CASE root' = root /\ x = Directory
  BY <1>1, <1>2, <1>5 DEF AllThere
<1> QED
  BY <1>4, <1>5

\* The step of addFile.
LEMMA AddFileImage ==
  ASSUME FInv, NEW size \in FileSizes, NEW longExt \in BOOLEAN, AddFile(size, longExt)
  PROVE  FInv'
<1> DEFINE count == ClustersFromSize(size)
<1>1. Shaped /\ status = "building" /\ Sound /\ Refused
  BY DEF FInv, AddFile, CanAdd
<1>2. PICK chain : chain = GetEmptyClusters(count)
  OBVIOUS
<1>3. size \in Nat /\ count \in Nat \ {0} /\ disk \in Disks
  BY <1>1, SizeHasClusters, FatAssumption DEF Shaped
<1>4. /\ chain \in Seq(Nat) /\ Len(chain) = count /\ chain # << >>
      /\ AllFree(chain) \/ TooFew(chain)
      /\ 0 \in Range(chain) <=> ~ AllFree(chain)
  BY <1>2, <1>3, EmptyClusters DEF HasLength
<1>5. PICK f : f = Len(files) + 1
  OBVIOUS
<1>6. PICK e : e = Entry(f, chain[1], size)
  OBVIOUS
<1>7. /\ files' = Append(files, size) /\ disk' = disk
      /\ short' = (short \/ 0 \in Range(chain))
  BY <1>2 DEF AddFile
<1>8. short' = (short \/ ~ AllFree(chain))
  BY <1>4, <1>7
<1>9. e \in [file : Nat, first : Nat, size : Nat]
  <2>1. f \in Nat /\ chain[1] \in Nat
    BY <1>1, <1>4, <1>5 DEF Shaped
  <2>2. IntToBytes(size) \in Nat
    BY <1>3, SizeTyped
  <2> QED
    BY <2>1, <2>2, <1>6 DEF Entry
<1>10. CASE \E c \in Range(chain) : c \notin DOMAIN data
  <2>1. status' = "panic" /\ UNCHANGED <<fat, data, root>>
    BY <1>2, <1>10 DEF AddFile
  <2>2. Shaped'
    BY <1>1, <1>7, <1>8, <1>9, <2>1, AddedShape DEF Shaped
  <2> QED
    BY <2>1, <2>2 DEF FInv, Sound, Refused, FullRefused
<1>11. CASE \A c \in Range(chain) : c \in DOMAIN data
  <2>1. /\ CopyFileToClusters(f, size, chain)
        /\ UpdateFAT(chain)
        /\ UpdateDirEntry(e, longExt)
        /\ status' = AfterFile(longExt)
    BY <1>2, <1>5, <1>6, <1>11 DEF AddFile
  <2>2. /\ status' \in {"building", "failed", "panic"}
        /\ root' \in {root, Append(root, e)}
        /\ status' = "building" => root' = Append(root, e)
    BY <1>1, <2>1 DEF UpdateDirEntry, AfterFile
  <2>3. DOMAIN fat' = DOMAIN fat /\ DOMAIN data' = DOMAIN data
    BY <2>1 DEF UpdateFAT, CopyFileToClusters
  <2>4. Shaped'
    BY <1>1, <1>7, <1>8, <1>9, <2>2, <2>3, AddedShape DEF Shaped
  <2>5. Refused'
    <3>1. SUFFICES ASSUME short', status' = "building" PROVE fat'[0] # SIGNATURE
      BY <2>2 DEF Refused, FullRefused
    <3>2. TooFew(chain) \/ fat[0] # SIGNATURE
      BY <1>1, <1>4, <1>8, <3>1 DEF Refused
    <3>3. 0 \in DOMAIN fat
      BY <1>1, FatLong DEF Shaped
    <3> QED
      BY <1>4, <2>1, <3>2, <3>3, SignatureGoes
  <2>6. Sound'
    <3>1. SUFFICES ASSUME ~ short', status' = "building"
                   PROVE  AllThere' /\ \E own : OwnChains(own)'
      BY <2>2 DEF Sound
    <3>2. ~ short /\ AllFree(chain) /\ root' = Append(root, e)
      BY <1>8, <2>2, <3>1
    <3>3. AllThere /\ \E own : OwnChains(own)
      BY <1>1, <3>2 DEF Sound
    <3>4. /\ e.file = Len(files) + 1 /\ e.first = chain[1]
          /\ files'[e.file] = size
          /\ size < SIZE_RANGE => e.size = size
      <4>1. size < SIZE_RANGE => size % SIZE_RANGE = size
        BY <1>3, FatAssumption, SmallUncut
      <4>2. files'[Len(files) + 1] = size
        BY <1>1, <1>7 DEF Shaped
      <4> QED
        BY <1>5, <1>6, <4>1, <4>2 DEF Entry, IntToBytes
    <3>5. AllThere'
      BY <1>1, <1>7, <3>2, <3>3, <3>4, AddedThere
    <3>6. \A n, m \in DOMAIN chain : n # m => chain[n] # chain[m]
      BY <3>2 DEF AllFree
    <3>7. Written(chain)
      BY <1>4, <2>1, <3>6, ChainWritten DEF Written
    <3>8. /\ \A c \in DOMAIN data : c \notin Range(chain) => data'[c] = data[c]
          /\ \A n \in DOMAIN chain : data'[chain[n]] = Part(f, size, n)
      <4>1. \A n \in DOMAIN chain : chain[n] \in DOMAIN data
        BY <1>11 DEF Range
      <4> QED
        BY <1>4, <2>1, <3>6, <4>1, FileCopied
    <3>9. Holds(chain, e)'
      <4>1. \A n \in DOMAIN chain : chain[n] \in DOMAIN data'
        BY <1>11, <2>3 DEF Range
      <4> QED
        BY <1>4, <1>5, <3>4, <3>8, <4>1 DEF Holds
    <3> QED
      BY <1>1, <1>4, <1>7, <2>3, <3>2, <3>3, <3>4, <3>5, <3>7, <3>8, <3>9, EntryAdded
  <2> QED
    BY <2>4, <2>5, <2>6 DEF FInv
<1> QED
  BY <1>10, <1>11

\* The step of addDir.
LEMMA AddDirImage ==
  ASSUME FInv, NEW longExt \in BOOLEAN, AddDir(longExt)
  PROVE  FInv'
<1>1. Shaped /\ status = "building" /\ Sound /\ Refused
  BY DEF FInv, AddDir, CanAdd
<1>2. PICK chain : chain = GetEmptyClusters(1)
  OBVIOUS
<1>3. disk \in Disks
  BY <1>1 DEF Shaped
<1>4. /\ chain \in Seq(Nat) /\ Len(chain) = 1 /\ chain # << >>
      /\ AllFree(chain) \/ TooFew(chain)
      /\ 0 \in Range(chain) <=> ~ AllFree(chain)
  <2>1. 1 \in Nat \ {0}
    OBVIOUS
  <2>2. /\ HasLength(chain, 1)
        /\ AllFree(chain) \/ TooFew(chain)
        /\ 0 \in Range(chain) <=> ~ AllFree(chain)
    BY <1>2, <1>3, <2>1, EmptyClusters
  <2>3. Len(<< >>) # 1
    OBVIOUS
  <2>4. chain \in Seq(Nat) /\ Len(chain) = 1
    BY <2>2, Zenon DEF HasLength
  <2> QED
    BY <2>2, <2>3, <2>4, Zenon
<1>5. PICK f : f = Len(files) + 1
  OBVIOUS
<1>6. PICK e : e = Entry(f, chain[1], 0)
  OBVIOUS
<1>7. /\ files' = Append(files, Directory) /\ disk' = disk /\ data' = data
      /\ short' = (short \/ 0 \in Range(chain))
      /\ UpdateFAT(chain) /\ UpdateDirEntry(e, longExt)
      /\ status' = IF DirHasRoom /\ ~ longExt THEN "panic" ELSE status
  BY <1>2, <1>5, <1>6 DEF AddDir
<1>8. short' = (short \/ ~ AllFree(chain))
  BY <1>4, <1>7
<1>9. e \in [file : Nat, first : Nat, size : Nat]
  <2>1. f \in Nat /\ chain[1] \in Nat
    BY <1>1, <1>4, <1>5 DEF Shaped
  <2>2. IntToBytes(0) \in Nat
    BY SizeTyped
  <2> QED
    BY <2>1, <2>2, <1>6 DEF Entry
<1>10. /\ status' \in {"building", "panic"}
       /\ root' \in {root, Append(root, e)}
       /\ DOMAIN fat' = DOMAIN fat
  BY <1>1, <1>7 DEF UpdateDirEntry, UpdateFAT
<1>11. Shaped'
  BY <1>1, <1>7, <1>8, <1>9, <1>10, AddedShape DEF Shaped
<1>12. Refused'
  <2>1. SUFFICES ASSUME short', status' = "building" PROVE fat'[0] # SIGNATURE
    BY <1>10 DEF Refused, FullRefused
  <2>2. TooFew(chain) \/ fat[0] # SIGNATURE
    BY <1>1, <1>4, <1>8, <2>1 DEF Refused
  <2>3. 0 \in DOMAIN fat
    BY <1>1, FatLong DEF Shaped
  <2> QED
    BY <1>4, <1>7, <2>2, <2>3, SignatureGoes
<1>13. Sound'
  <2>1. SUFFICES ASSUME ~ short', status' = "building"
                 PROVE  AllThere' /\ \E own : OwnChains(own)'
    BY <1>10 DEF Sound
  <2>2. ~ short /\ AllFree(chain)
    BY <1>8, <2>1
  <2>3. AllThere
    BY <1>1, <2>2 DEF Sound
  <2>4. PICK own : OwnChains(own)
    BY <1>1, <2>2 DEF Sound
  <2>5. e.file = Len(files) + 1 /\ e.first = chain[1]
    BY <1>5, <1>6 DEF Entry
  <2>6. AllThere'
    BY <1>1, <1>7, <1>10, <2>3, <2>5, AddedThere
  <2>7. \A n, m \in DOMAIN chain : n # m => chain[n] # chain[m]
    BY <2>2 DEF AllFree
  <2>8. Written(chain)
    BY <1>4, <1>7, <2>7, ChainWritten DEF Written
  <2>9. CASE root' = Append(root, e)
    BY <1>1, <1>4, <1>7, <2>2, <2>4, <2>5, <2>6, <2>8, <2>9, EntryAdded
  <2>10. CASE root' = root
    <3>1. \A x \in DOMAIN files : x \in DOMAIN files' /\ files'[x] = files[x]
      BY <1>1, <1>7 DEF Shaped
    <3>2. ASSUME NEW ch, NEW r, OwnChain(ch, r) PROVE OwnChain(ch, r)'
      <4>1. IsChain(ch, r.first) /\ r.file \in DOMAIN files
            /\ (files[r.file] # Directory => Holds(ch, r))
        BY <3>2 DEF OwnChain
      <4>2. IsChain(ch, r.first)'
        BY <1>1, <1>4, <1>7, <2>2, <2>8, <4>1, ChainKept
      <4>3. Holds(ch, r) => Holds(ch, r)'
        BY <1>7, <3>1, <4>1 DEF Holds, Part, ClustersFromSize
      <4> QED
        BY <3>1, <4>1, <4>2, <4>3 DEF OwnChain
    <3>3. OwnChains(own)'
      BY <2>4, <2>10, <3>2 DEF OwnChains
    <3> QED
      BY <2>6, <3>3
  <2> QED
    BY <1>10, <2>9, <2>10
<1> QED
  BY <1>11, <1>12, <1>13 DEF FInv

\* Each step keeps the invariant.
LEMMA NextImage == FInv /\ [Next]_vars => FInv'
<1> SUFFICES ASSUME FInv, [Next]_vars PROVE FInv'
  OBVIOUS
<1>1. CASE \E size \in FileSizes, longExt \in BOOLEAN : AddFile(size, longExt)
  BY <1>1, AddFileImage
<1>2. CASE \E longExt \in BOOLEAN : AddDir(longExt)
  BY <1>2, AddDirImage
<1>3. CASE Serialize
  BY <1>3, SerializeImage
<1>4. CASE UNCHANGED vars
  <2>1. UNCHANGED <<disk, fat, data, root, status, files, short>>
    BY <1>4 DEF vars
  <2>2. Shaped'
    BY <2>1 DEF FInv, Shaped, FatLen, DataLen, FatSizeSectors
  <2>3. Refused'
    BY <2>1 DEF FInv, Refused, FullRefused
  <2>4. \A own : OwnChains(own) => OwnChains(own)'
    BY <2>1 DEF OwnChains, OwnChain, IsChain, Holds, FatLen, FatSizeSectors
  <2>5. Sound'
    BY <2>1, <2>4 DEF FInv, Sound, AllThere
  <2> QED
    BY <2>2, <2>3, <2>5 DEF FInv
<1> QED
  BY <1>1, <1>2, <1>3, <1>4 DEF Next

\* The image in memory is sound as long as nobody got too few clusters.
THEOREM Invariance == Spec => []FInv
BY InitImage, NextImage, PTL DEF Spec

\* A disk that could not hold everything never becomes an image, whatever its
\* size and the tree's: the chain that was too short ends in entry 0 of the
\* FAT, and Serialize finds the signature gone.
THEOREM TooSmallRefused == Spec => []FullRefused
<1>1. FInv => FullRefused
  BY DEF FInv, Refused
<1> QED
  BY <1>1, Invariance, PTL

-----------------------------------------------------------------------------
(* Reading back: the chain a reader follows is the one that was written. *)

\* Where it goes, step by step.
LEMMA Followed ==
  ASSUME NEW chain, NEW first, IsChain(chain, first), Shaped
  PROVE  /\ DOMAIN ChainFrom(first) = 0 .. FatLen
         /\ \A n \in 0 .. FatLen :
              ChainFrom(first)[n] = IF n < Len(chain) THEN chain[n + 1] ELSE EOC
<1> DEFINE at == ChainFrom(first)
           L == Len(chain)
           Step(p, n) == IF n = 0 THEN first
                         ELSE IF p[n - 1] \in DOMAIN fat THEN fat[p[n - 1]] ELSE EOC
<1>1. FatLen \in Nat
  BY FatLong DEF Shaped
<1>2. L \in Nat /\ L >= 1 /\ DOMAIN chain = 1 .. L
  <2>1. \A S, s : s \in Seq(S) /\ s # << >> =>
          Len(s) \in Nat /\ Len(s) >= 1 /\ DOMAIN s = 1 .. Len(s)
    OBVIOUS
  <2> QED
    BY <2>1 DEF IsChain
<1>3. PICK g : g = [n \in 0 .. FatLen |-> IF n < L THEN chain[n + 1] ELSE EOC]
  OBVIOUS
<1>4. \A i \in DOMAIN chain :
        chain[i] \in DOMAIN fat /\ fat[chain[i]] = IF i = L THEN EOC ELSE chain[i + 1]
  <2>1. \A S : chain \in Seq(S) => \A i \in DOMAIN chain : chain[i] \in S
    OBVIOUS
  <2>2. \A i \in DOMAIN chain : chain[i] \in 3 .. FatLen - 4
    BY <2>1 DEF IsChain
  <2> QED
    BY <1>1, <2>2 DEF IsChain, Shaped
<1>5. EOC \notin DOMAIN fat
  BY DEF EOC, Shaped
<1>6. \A n \in 0 .. FatLen : g[n] = Step(g, n)
  <2>1. SUFFICES ASSUME NEW n \in 0 .. FatLen PROVE g[n] = Step(g, n)
    OBVIOUS
  <2>2. CASE n = 0
    BY <1>1, <1>2, <1>3, <2>2 DEF IsChain
  <2>3. CASE n # 0 /\ n <= L
    <3>1. n \in DOMAIN chain /\ n - 1 \in 0 .. FatLen /\ n - 1 < L
      BY <1>1, <1>2, <2>3
    <3>2. g[n - 1] = chain[n]
      BY <1>3, <3>1
    <3> QED
      BY <1>3, <1>4, <2>1, <2>3, <3>1, <3>2
  <2>4. CASE n > L
    <3>1. n - 1 \in 0 .. FatLen /\ ~ (n - 1 < L) /\ ~ (n < L) /\ n # 0
      BY <1>1, <1>2, <2>4
    <3>2. g[n - 1] = EOC /\ g[n] = EOC
      BY <1>3, <3>1
    <3> QED
      BY <1>5, <3>1, <3>2
  <2> QED
    BY <1>2, <2>2, <2>3, <2>4
<1>7. g = [n \in 0 .. FatLen |-> Step(g, n)]
  BY <1>3, <1>6
<1>8. at = CHOOSE p : p = [n \in 0 .. FatLen |-> Step(p, n)]
  BY DEF ChainFrom
<1>9. at = [n \in 0 .. FatLen |-> Step(at, n)]
  BY <1>7, <1>8
<1>10. PICK a : a = at
  OBVIOUS
<1>11. \A n \in 0 .. FatLen : a[n] = Step(a, n)
  BY <1>9, <1>10
<1>12. \A n \in 0 .. FatLen : a[n] = g[n]
  <2> DEFINE T == {n \in 0 .. FatLen : a[n] # g[n]}
  <2>1. SUFFICES ASSUME T # {} PROVE FALSE
    OBVIOUS
  <2>2. T \in SUBSET Nat
    BY <1>1
  <2>3. PICK x \in T : \A y \in T : x <= y
    BY <2>1, <2>2, LeastNat
  <2>4. x \in 0 .. FatLen /\ a[x] # g[x]
    OBVIOUS
  <2>5. a[x] = Step(a, x) /\ g[x] = Step(g, x)
    BY <1>6, <1>11, <2>4
  <2>6. x # 0
    BY <2>4, <2>5
  <2>7. x - 1 \in 0 .. FatLen /\ x - 1 \notin T
    BY <2>3, <2>4, <2>6, <1>1
  <2>8. a[x - 1] = g[x - 1]
    BY <2>7
  <2> QED
    BY <2>4, <2>5, <2>6, <2>8
<1>13. DOMAIN a = 0 .. FatLen
  BY <1>9, <1>10
<1> QED
  BY <1>3, <1>10, <1>12, <1>13

\* The minimum is the element below all others.
LEMMA MinIs ==
  ASSUME NEW S \in SUBSET Nat, NEW n \in S, \A y \in S : n <= y
  PROVE  Min(S) = n
<1>1. \A x \in S : (\A y \in S : x <= y) => x = n
  OBVIOUS
<1> QED
  BY <1>1 DEF Min

\* A reader comes along the chain, to its end or to the first cluster the disk
\* does not have.
LEMMA ReadChain ==
  ASSUME NEW chain, NEW first, IsChain(chain, first), Shaped
  PROVE  /\ DOMAIN Chain(first) = 1 .. ChainLen(first)
         /\ ChainLen(first) \in 0 .. Len(chain)
         /\ \A i \in 1 .. ChainLen(first) : Chain(first)[i] = chain[i]
         /\ (\A i \in DOMAIN chain : chain[i] \in DOMAIN data) =>
              ChainLen(first) = Len(chain) /\ EndsWell(first)
<1> DEFINE L == Len(chain)
<1>1. FatLen \in Nat /\ FatLen >= 8
  BY FatLong DEF Shaped
<1>2. L \in Nat /\ L >= 1 /\ DOMAIN chain = 1 .. L
  <2>1. \A S, s : s \in Seq(S) /\ s # << >> =>
          Len(s) \in Nat /\ Len(s) >= 1 /\ DOMAIN s = 1 .. Len(s)
    OBVIOUS
  <2> QED
    BY <2>1 DEF IsChain
<1>3. \A i \in DOMAIN chain : chain[i] \in 3 .. FatLen - 4
  <2>1. \A S : chain \in Seq(S) => \A i \in DOMAIN chain : chain[i] \in S
    OBVIOUS
  <2> QED
    BY <2>1 DEF IsChain
<1>4. L <= FatLen
  <2> DEFINE F == 3 .. FatLen - 4
             c == [i \in 1 .. L |-> chain[i]]
  <2>1. c \in [1 .. L -> F]
    BY <1>2, <1>3
  <2>2. c \in Injection(1 .. L, F)
    BY <1>2, <2>1 DEF IsChain, Injection, IsInjective
  <2>3. IsFiniteSet(F) /\ Cardinality(F) <= FatLen
    <3>1. 3 \in Int /\ FatLen - 4 \in Int
      BY <1>1
    <3>2. IsFiniteSet(F) /\ Cardinality(F) = IF 3 > FatLen - 4 THEN 0 ELSE (FatLen - 4) - 3 + 1
      BY <3>1, FS_Interval
    <3> QED
      BY <1>1, <3>2
  <2>4. Cardinality(1 .. L) <= Cardinality(F)
    BY <2>2, <2>3, FS_Injection
  <2>5. Cardinality(1 .. L) = L
    <3>1. 1 \in Int /\ L \in Int
      BY <1>2
    <3>2. Cardinality(1 .. L) = IF 1 > L THEN 0 ELSE L - 1 + 1
      BY <3>1, FS_Interval
    <3> QED
      BY <1>2, <3>2
  <2>6. Cardinality(F) \in Nat
    BY <2>3, FS_CardinalityType
  <2> QED
    BY <1>1, <1>2, <2>3, <2>4, <2>5, <2>6
<1>5. PICK at : at = ChainFrom(first)
  OBVIOUS
<1>6. \A n \in 0 .. FatLen : at[n] = IF n < L THEN chain[n + 1] ELSE EOC
  BY <1>5, Followed
<1>7. DOMAIN at = 0 .. FatLen
  BY <1>5, Followed
<1> DEFINE Out == {n \in DOMAIN at : at[n] \notin ROOT .. DataLen - 1}
           S == Out \union {FatLen + 1}
<1>8. L \in Out /\ S \in SUBSET Nat
  BY <1>1, <1>2, <1>4, <1>6, <1>7 DEF EOC, ROOT
<1>9. PICK k \in S : \A y \in S : k <= y
  BY <1>8, LeastNat
<1>10. ChainLen(first) = k
  BY <1>5, <1>8, <1>9, MinIs DEF ChainLen
<1>11. k \in 0 .. L
  BY <1>2, <1>8, <1>9
<1>12. DOMAIN Chain(first) = 1 .. k /\ \A i \in 1 .. k : Chain(first)[i] = at[i - 1]
  BY <1>5, <1>10 DEF Chain
<1>13. ASSUME NEW i \in 1 .. k PROVE at[i - 1] = chain[i]
  <2>1. i - 1 \in 0 .. FatLen /\ i - 1 < L /\ (i - 1) + 1 = i
    BY <1>1, <1>2, <1>4, <1>11
  <2> QED
    BY <1>6, <2>1
<1>14. ASSUME \A i \in DOMAIN chain : chain[i] \in DOMAIN data
       PROVE  k = L /\ EndsWell(first)
  <2>1. ASSUME k < L PROVE FALSE
    <3>1. k \in 0 .. FatLen /\ k \in Out /\ k + 1 \in DOMAIN chain
      BY <1>1, <1>2, <1>4, <1>11, <2>1
    <3>2. at[k] = chain[k + 1]
      BY <1>6, <2>1, <3>1
    <3>3. chain[k + 1] \in 3 .. FatLen - 4 /\ chain[k + 1] \in 0 .. DataLen - 1
      BY <1>3, <1>14, <3>1 DEF Shaped
    <3>4. chain[k + 1] \in ROOT .. DataLen - 1
      BY <3>3 DEF ROOT
    <3> QED
      BY <3>1, <3>2, <3>4
  <2>2. k = L
    BY <1>2, <1>11, <2>1
  <2>3. L \in 1 .. FatLen /\ at[L] = EOC
    BY <1>1, <1>2, <1>4, <1>6
  <2> QED
    BY <1>5, <1>10, <2>2, <2>3 DEF EndsWell
<1> QED
  BY <1>10, <1>11, <1>12, <1>13, <1>14

\* No two entries of a written image share a cluster, and none has the root's,
\* on disks of any size: a chain is made of clusters that were free.
THEOREM NothingShared == Spec => []ChainsApart
<1>1. FInv => ChainsApart
  <2> SUFFICES ASSUME FInv, status = "written", NEW n \in DOMAIN root, NEW m \in DOMAIN root
               PROVE  /\ ROOT \notin Range(Chain(root[n].first))
                      /\ n # m => Range(Chain(root[n].first))
                                    \intersect Range(Chain(root[m].first)) = {}
    BY DEF ChainsApart
  <2>1. Shaped /\ ~ short
    BY DEF FInv, Refused, FullRefused
  <2>2. PICK own : OwnChains(own)
    BY <2>1 DEF FInv, Sound
  <2>3. ASSUME NEW p \in DOMAIN root
        PROVE  \A c \in Range(Chain(root[p].first)) :
                 c \in 3 .. FatLen - 4 /\ \E i \in DOMAIN own[p] : c = own[p][i]
    <3>1. PICK ch : ch = own[p]
      OBVIOUS
    <3>2. PICK e : root[p] = e /\ OwnChain(ch, e)
      BY <2>2, <2>3, <3>1 DEF OwnChains
    <3>3. IsChain(ch, e.first)
      BY <3>2 DEF OwnChain
    <3>4. /\ DOMAIN Chain(e.first) = 1 .. ChainLen(e.first)
          /\ ChainLen(e.first) \in 0 .. Len(ch)
          /\ \A i \in 1 .. ChainLen(e.first) : Chain(e.first)[i] = ch[i]
      BY <2>1, <3>3, ReadChain
    <3>5. /\ Len(ch) \in Nat /\ DOMAIN ch = 1 .. Len(ch)
          /\ \A i \in DOMAIN ch : ch[i] \in 3 .. FatLen - 4
      <4>1. \A S, s : s \in Seq(S) =>
              /\ Len(s) \in Nat /\ DOMAIN s = 1 .. Len(s)
              /\ \A i \in DOMAIN s : s[i] \in S
        OBVIOUS
      <4> QED
        BY <3>3, <4>1 DEF IsChain
    <3>6. \A i \in 1 .. ChainLen(e.first) : i \in DOMAIN ch
      BY <3>4, <3>5
    <3>7. \A c \in Range(Chain(e.first)) : \E i \in DOMAIN ch : c = ch[i]
      BY <3>4, <3>6 DEF Range
    <3> QED
      BY <3>1, <3>2, <3>5, <3>7
  <2>4. ROOT \notin Range(Chain(root[n].first))
    <3>1. ROOT \notin 3 .. FatLen - 4
      BY DEF ROOT
    <3> QED
      BY <2>3, <3>1, Zenon
  <2>5. ASSUME n # m, NEW c \in Range(Chain(root[n].first)),
               c \in Range(Chain(root[m].first))
        PROVE  FALSE
    <3>1. PICK i \in DOMAIN own[n] : c = own[n][i]
      BY <2>3
    <3>2. PICK j \in DOMAIN own[m] : c = own[m][j]
      BY <2>3, <2>5
    <3>3. own[n][i] # own[m][j]
      BY <2>2, <2>5, Zenon DEF OwnChains
    <3> QED
      BY <3>1, <3>2, <3>3
  <2> QED
    BY <2>4, <2>5
<1> QED
  BY <1>1, Invariance, PTL

\* The cluster that has a byte of a file, and what it has of it.
LEMMA ByteHeld ==
  ASSUME NEW f, NEW size \in Nat, NEW b \in 0 .. size - 1
  PROVE  LET k == b \div bytesPerCluster + 1 IN
         /\ k \in 1 .. ClustersFromSize(size)
         /\ Part(f, size, k).file = f
         /\ Part(f, size, k).from = (k - 1) * bytesPerCluster
         /\ b < Part(f, size, k).to
<1> DEFINE B == bytesPerCluster
           q == b \div B
           k == q + 1
<1>1. B \in Nat \ {0} /\ b \in Nat /\ b < size
  BY Cluster
<1>2. q \in Nat /\ q * B <= b /\ b < k * B
  BY <1>1, Divided
<1>3. k \in 1 .. ClustersFromSize(size)
  <2>1. (b + B) \div B <= (size + B) \div B
    BY <1>1, DividesMonotone
  <2>2. (b + B) \div B >= k
    <3> DEFINE r == (b + B) \div B
    <3>1. r \in Nat /\ b + B < (r + 1) * B
      BY <1>1, Divided
    <3>2. ASSUME r < k PROVE FALSE
      <4>1. \A x, y \in Nat : x < y + 1 => \E d \in Nat : y = x + d
        <5>1. \A x, y \in Nat : x < y + 1 => y - x \in Nat /\ y = x + (y - x)
          OBVIOUS
        <5> QED
          BY <5>1
      <4>2. PICK d \in Nat : q = r + d
        BY <1>2, <3>1, <3>2, <4>1, Zenon
      <4>3. q * B = r * B + d * B /\ d * B \in Nat /\ (r + 1) * B = r * B + B
        BY <1>1, <3>1, <4>2
      <4>4. r * B \in Nat
        BY <1>1, <3>1
      <4> QED
        BY <1>1, <1>2, <3>1, <4>3, <4>4
    <3> QED
      BY <1>2, <3>1, <3>2
  <2>3. (size + B) \div B \in Nat /\ (b + B) \div B \in Nat
    BY <1>1, Divided
  <2> QED
    BY <1>2, <2>1, <2>2, <2>3 DEF ClustersFromSize
<1>4. k - 1 = q /\ q * B < size /\ q * B \in Nat /\ k * B \in Nat
  BY <1>1, <1>2
<1>5. Part(f, size, k) = [file |-> f, from |-> q * B, to |-> Min({k * B, size})]
  BY <1>4 DEF Part
<1>6. Min({k * B, size}) = IF k * B <= size THEN k * B ELSE size
  <2> DEFINE n == IF k * B <= size THEN k * B ELSE size
  <2>1. {k * B, size} \in SUBSET Nat /\ n \in {k * B, size}
        /\ \A y \in {k * B, size} : n <= y
    BY <1>4
  <2> QED
    BY <2>1, MinIs
<1> QED
  BY <1>1, <1>2, <1>3, <1>4, <1>5, <1>6

\* Every file of the tree is in a written image, with all its bytes along the
\* chain of its entry, on disks of any size, for files and trees of any size;
\* its entry has its size if that fits into the four bytes.
THEOREM FilesReadBack == Spec => []ReadsBack
<1>1. FInv => ReadsBack
  <2> SUFFICES ASSUME FInv, status = "written",
                      NEW f \in DOMAIN files, files[f] # Directory
               PROVE  \E n \in FileEntries :
                        /\ root[n].file = f /\ HoldsItsFile(root[n])
                        /\ files[f] < SIZE_RANGE => root[n].size = files[f]
    BY DEF ReadsBack
  <2>1. Shaped /\ ~ short
    BY DEF FInv, Refused, FullRefused
  <2>2. AllThere
    BY <2>1 DEF FInv, Sound
  <2>3. PICK own : OwnChains(own)
    BY <2>1 DEF FInv, Sound
  <2>4. PICK n \in DOMAIN root : root[n].file = f
    BY <2>2 DEF AllThere
  <2>5. PICK ch : ch = own[n]
    OBVIOUS
  <2>6. PICK e : root[n] = e /\ OwnChain(ch, e)
    BY <2>3, <2>5 DEF OwnChains
  <2>7. IsChain(ch, e.first) /\ Holds(ch, e) /\ e.file = f
    BY <2>4, <2>6 DEF OwnChain
  <2>8. PICK S : S = files[e.file] /\ S \in Nat
    <3>1. \A T : files \in Seq(T) => files[f] \in T
      OBVIOUS
    <3>2. files[f] \in FileSizes
      BY <2>1, <3>1 DEF Shaped
    <3> QED
      BY <2>7, <3>2, FatAssumption
  <2>9. \A i \in DOMAIN ch : ch[i] \in DOMAIN data /\ data[ch[i]] = Part(e.file, S, i)
    BY <2>7, <2>8 DEF Holds
  <2>10. /\ DOMAIN Chain(e.first) = 1 .. Len(ch) /\ EndsWell(e.first)
         /\ \A i \in 1 .. Len(ch) : Chain(e.first)[i] = ch[i]
    BY <2>1, <2>7, <2>9, ReadChain
  <2>11. DOMAIN ch = 1 .. Len(ch) /\ Len(ch) = ClustersFromSize(S)
    <3>1. \A T, s : s \in Seq(T) => DOMAIN s = 1 .. Len(s)
      OBVIOUS
    <3> QED
      BY <2>7, <2>8, <3>1 DEF IsChain, Holds
  <2>12. ASSUME NEW b \in 0 .. S - 1
         PROVE  LET k == b \div bytesPerCluster + 1
                    held == data[Chain(e.first)[k]] IN
                /\ k \in DOMAIN Chain(e.first)
                /\ held.file = e.file /\ held.from = (k - 1) * bytesPerCluster
                /\ b < held.to
    <3> DEFINE k == b \div bytesPerCluster + 1
    <3>1. /\ k \in 1 .. ClustersFromSize(S)
          /\ Part(e.file, S, k).file = e.file
          /\ Part(e.file, S, k).from = (k - 1) * bytesPerCluster
          /\ b < Part(e.file, S, k).to
      BY <2>8, ByteHeld
    <3>2. k \in DOMAIN ch /\ k \in DOMAIN Chain(e.first) /\ Chain(e.first)[k] = ch[k]
      BY <2>10, <2>11, <3>1
    <3>3. data[Chain(e.first)[k]] = Part(e.file, S, k)
      BY <2>9, <3>2
    <3> HIDE DEF k
    <3>4. /\ k \in DOMAIN Chain(e.first)
          /\ data[Chain(e.first)[k]].file = e.file
          /\ data[Chain(e.first)[k]].from = (k - 1) * bytesPerCluster
          /\ b < data[Chain(e.first)[k]].to
      BY <3>1, <3>2, <3>3
    <3> QED
      BY <3>4 DEF k
  <2>13. HoldsItsFile(e)
    BY <2>8, <2>10, <2>12 DEF HoldsItsFile
  <2>14. S < SIZE_RANGE => e.size = S
    BY <2>7, <2>8 DEF Holds
  <2> QED
    BY <2>4, <2>6, <2>7, <2>8, <2>13, <2>14 DEF FileEntries
<1> QED
  BY <1>1, Invariance, PTL
=============================================================================
