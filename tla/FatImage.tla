-------------------------------- MODULE FatImage --------------------------------
(***************************************************************************)
(* The tool that makes the boot disk, src/scripts/fatfs: class Manager of  *)
(* pkg/manager/fat32.go walks a directory and adds what it finds to a      *)
(* FAT32 image in memory, which entity/fs.go then writes.                  *)
(*                                                                         *)
(* Everything goes into the root directory: BuildFSFromRoot takes the      *)
(* parent of a base name, which is always ".".  The two FATs are only      *)
(* ever written together and are one function here.  What a cluster holds  *)
(* is an interval of a file's bytes.                                       *)
(***************************************************************************)
EXTENDS Integers, Sequences, FiniteSetsExt

CONSTANTS
  SECTOR_SIZE, SecPerClus, RES_SEC_COUNT,
  SIZE_RANGE, \* an entry's field for the size goes so far: 2^32 in the code
  Disks,      \* sizes of the disk, in sectors
  FileSizes,  \* sizes of the files, in bytes
  MaxAdds     \* bound: files and directories in the tree

DIR_ENTRY == 32

ASSUME FatAssumption ==
  /\ SECTOR_SIZE \in Nat /\ SECTOR_SIZE >= DIR_ENTRY /\ SECTOR_SIZE % 4 = 0
  /\ SecPerClus \in Nat \ {0} /\ RES_SEC_COUNT \in Nat /\ SIZE_RANGE \in Nat \ {0}
  /\ Disks \subseteq Nat /\ FileSizes \subseteq Nat /\ MaxAdds \in Nat
  /\ \A d \in Disks :
       /\ d > RES_SEC_COUNT  \* MapDiskSzToSecPerClus: all that are accepted
       /\ d \div SecPerClus + SECTOR_SIZE < 2^28  \* clusters have numbers below EOC

VARIABLES
  disk,    \* DiskSizeSectors
  fat,     \* FAT[0] and FAT[1]
  data,    \* what the clusters hold, the root directory's apart
  root,    \* the root directory's entries
  status,  \* building, written, failed (an error was reported) or panic
  files,   \* history: the sizes of the files and directories added
  short    \* history: somebody got fewer clusters than it asked for

vars == <<disk, fat, data, root, status, files, short>>

EMPTY == 0                \* EMT_MARKER, which a pointer to cluster 0 equals
EOC == -1                 \* EOC_MARKER
SIGNATURE == -2           \* what FAT entry 0 must be
ROOT == 2
Directory == -1           \* in files, for a directory

Nothing == [file |-> 0, from |-> 0, to |-> 0]

-----------------------------------------------------------------------------
(* The layout of the disk *)

bytesPerCluster == SecPerClus * SECTOR_SIZE
Slots == bytesPerCluster \div DIR_ENTRY

\* loadExtendedBPB: one sector of a FAT holds SECTOR_SIZE / 4 entries.
FatSizeSectors ==
  LET tmpVal2 == (2 * (SECTOR_SIZE \div 4) * SecPerClus + 2) \div 2 IN
  (disk - RES_SEC_COUNT + tmpVal2 - 1) \div tmpVal2

FatLen == (FatSizeSectors * SECTOR_SIZE) \div 4

\* loadDataRegion.
DataLen ==
  (disk - (RES_SEC_COUNT + 2 + 2 * FatSizeSectors) + SecPerClus) \div SecPerClus

-----------------------------------------------------------------------------
(* The helpers of Add *)

\* CalculateClustersFromSize: one more than needed for an exact multiple.
ClustersFromSize(size) == (size + bytesPerCluster) \div bytesPerCluster

\* The free entries, not looking at the first three and the last three.
FreeEntries == {c \in 3 .. FatLen - 4 : fat[c] = EMPTY}

\* GetEmptyClusters takes them in order: the slice has the length asked for,
\* with zeros at its end if there are too few.
GetEmptyClusters(count) ==
  [n \in 1 .. count |->
     IF n <= Cardinality(FreeEntries)
     THEN CHOOSE c \in FreeEntries : Cardinality({d \in FreeEntries : d < c}) = n - 1
     ELSE 0]

\* Mutant: the last cluster of a chain is not marked.
UpdateFATNoEnd(chain) ==
  fat' = [c \in DOMAIN fat |->
            LET last == Max({0} \union {n \in DOMAIN chain : chain[n] = c}) IN
            IF last = 0 \/ last = Len(chain) THEN fat[c] ELSE chain[last + 1]]

\* UpdateFAT: each cluster of the chain points to the next one, the last one
\* is EOC.  Where a cluster stands twice, the later place counts.
UpdateFAT(chain) ==
  fat' = [c \in DOMAIN fat |->
            LET last == Max({0} \union {n \in DOMAIN chain : chain[n] = c}) IN
            IF last = 0 THEN fat[c]
            ELSE IF last = Len(chain) THEN EOC ELSE chain[last + 1]]

\* Mutant: an incomplete last cluster is not copied.
PartWhole(f, size, n) ==
  LET from == (n - 1) * bytesPerCluster IN
  IF n * bytesPerCluster <= size
  THEN [file |-> f, from |-> from, to |-> n * bytesPerCluster] ELSE Nothing

\* What the n-th cluster of a file of that size gets of it.
Part(f, size, n) ==
  LET from == (n - 1) * bytesPerCluster IN
  IF from < size THEN [file |-> f, from |-> from, to |-> Min({n * bytesPerCluster, size})]
  ELSE Nothing

\* CopyFileToClusters, for clusters that all exist.
CopyFileToClusters(f, size, clusters) ==
  data' = [c \in DOMAIN data |->
             LET last == Max({0} \union {n \in DOMAIN clusters : clusters[n] = c}) IN
             IF last = 0 THEN data[c] ELSE Part(f, size, last)]

\* GetFirstEmptyDirEntryOffset finds one.
DirHasRoom == Len(root) < Slots

\* UpdateDirEntry; a name whose extension is too short panics.
UpdateDirEntry(entry, longExt) ==
  root' = IF DirHasRoom /\ longExt THEN Append(root, entry) ELSE root

\* What the four bytes of a number are read as.
IntToBytes(num) == num % SIZE_RANGE

\* GetDirEntryBytesFromFstat: the clusters' numbers fit, sizes need not.
Entry(f, first, size) == [file |-> f, first |-> first, size |-> IntToBytes(size)]

-----------------------------------------------------------------------------
(* The program *)

\* NewManager, with a disk whose size and boot code it accepts.
Init ==
  /\ disk \in Disks
  /\ fat = [c \in 0 .. FatLen - 1 |->
              CASE c = 0 -> SIGNATURE [] c \in {1, ROOT} -> EOC [] OTHER -> EMPTY]
  /\ data = [c \in 0 .. DataLen - 1 |-> Nothing]
  /\ root = << >> /\ files = << >>
  /\ status = "building" /\ short = FALSE

CanAdd == status = "building" /\ Len(files) < MaxAdds

\* The status once UpdateDirEntry returned to addFile.
AfterFile(longExt) ==
  CASE ~DirHasRoom -> "failed"
    [] DirHasRoom /\ ~longExt -> "panic"
    [] OTHER -> status

\* addFile.  longExt: the name has no extension or one of three characters or
\* more, else its conversion panics (GetFnameBytes).
AddFile(size, longExt) ==
  LET clusters == GetEmptyClusters(ClustersFromSize(size))
      f == Len(files) + 1 IN
  /\ CanAdd
  /\ files' = Append(files, size)
  /\ short' = (short \/ 0 \in Range(clusters))
  /\ IF \E c \in Range(clusters) : c \notin DOMAIN data
     THEN status' = "panic" /\ UNCHANGED <<fat, data, root>>
     ELSE /\ CopyFileToClusters(f, size, clusters)
          /\ UpdateFAT(clusters)
          /\ UpdateDirEntry(Entry(f, clusters[1], size), longExt)
          /\ status' = AfterFile(longExt)
  /\ disk' = disk

\* addDir: the errors of UpdateFAT and UpdateDirEntry are ignored.
AddDir(longExt) ==
  LET clusters == GetEmptyClusters(1)
      f == Len(files) + 1 IN
  /\ CanAdd
  /\ files' = Append(files, Directory)
  /\ short' = (short \/ 0 \in Range(clusters))
  /\ UpdateFAT(clusters)
  /\ UpdateDirEntry(Entry(f, clusters[1], 0), longExt)
  /\ status' = IF DirHasRoom /\ ~longExt THEN "panic" ELSE status
  /\ UNCHANGED <<disk, data>>

\* Mutant: the FATs are not looked at.
SerializeUnchecked ==
  /\ status = "building"
  /\ status' = "written"
  /\ UNCHANGED <<disk, fat, data, root, files, short>>

\* Serialize: clusters 2 and up are written, if both FATs begin as they must.
Serialize ==
  /\ status = "building"
  /\ status' = IF fat[0] = SIGNATURE /\ fat[1] = EOC THEN "written" ELSE "failed"
  /\ UNCHANGED <<disk, fat, data, root, files, short>>

Next ==
  \/ \E size \in FileSizes, longExt \in BOOLEAN : AddFile(size, longExt)
  \/ \E longExt \in BOOLEAN : AddDir(longExt)
  \/ Serialize

Spec == Init /\ [][Next]_vars

-----------------------------------------------------------------------------
(***************************************************************************)
(* Reading the image back, as README.md of the tool describes it: from the *)
(* entry's first cluster along the FAT until EOC.                          *)
(***************************************************************************)
ChainFrom(first) ==
  LET at[n \in 0 .. FatLen] ==
        IF n = 0 THEN first
        ELSE IF at[n - 1] \in DOMAIN fat THEN fat[at[n - 1]] ELSE EOC
  IN at

ChainLen(first) ==
  LET at == ChainFrom(first) IN
  Min({n \in DOMAIN at : at[n] \notin ROOT .. DataLen - 1} \union {FatLen + 1})

Chain(first) == [n \in 1 .. ChainLen(first) |-> ChainFrom(first)[n - 1]]

EndsWell(first) ==
  ChainLen(first) \in 1 .. FatLen /\ ChainFrom(first)[ChainLen(first)] = EOC

FileEntries == {n \in DOMAIN root : files[root[n].file] # Directory}

\* The chain of an entry has an end, and the clusters along it hold the bytes
\* of its file in order.
HoldsItsFile(e) ==
  LET chain == Chain(e.first) IN
  /\ EndsWell(e.first)
  /\ \A b \in 0 .. files[e.file] - 1 :
       LET k == b \div bytesPerCluster + 1
           held == data[chain[k]] IN
       /\ k \in DOMAIN chain
       /\ held.file = e.file /\ held.from = (k - 1) * bytesPerCluster
       /\ b < held.to

\* Every file of the tree is in an image that is written, with an entry from
\* which all its bytes are found along the FAT.  The size in the entry is the
\* file's if it fits there; a longer file's is cut (fatdirentry.go:83), and
\* whoever goes by it reads less than what is there.
ReadsBack ==
  status = "written" =>
    \A f \in DOMAIN files : files[f] # Directory =>
      \E n \in FileEntries :
        /\ root[n].file = f
        /\ HoldsItsFile(root[n])
        /\ files[f] < SIZE_RANGE => root[n].size = files[f]

\* No cluster of a written image is on the chains of two entries, directories
\* included, nor is the root's own.
ChainsApart ==
  status = "written" =>
    \A n, m \in DOMAIN root :
      /\ ROOT \notin Range(Chain(root[n].first))
      /\ n # m => Range(Chain(root[n].first)) \intersect Range(Chain(root[m].first)) = {}

\* A disk that has too few clusters for the tree never becomes an image,
\* although GetEmptyClusters reports no error.  A directory that finds no room
\* in the root is another matter: addDir ignores it, and the image lacks it.
FullRefused == short => status # "written"
=============================================================================
