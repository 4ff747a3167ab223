--------------------------- MODULE EspSizeProofs ---------------------------
(* What holds of the ESP for files of any sizes.  The arithmetic is in two  *)
(* lemmas about the FAT layout; the invariant carries the sums along.       *)
EXTENDS EspSize, TLAPS

\* How far the sums have come in each phase.
IInv ==
    /\ TypeOK
    /\ treeSize = Total(walked, 1)
    /\ phase # "walk" => walked = File /\ image = WithOverhead(Total(File, 1))
    /\ phase = "mkdir" => free = Clusters(image) - 1
    /\ phase \in {"mcopy", "ok"} => free + Total(copied, Sector) + Dirs = Clusters(image) - 1
    /\ phase \in {"walk", "mkfs", "mkdir"} => copied = {}
    /\ phase = "ok" => copied = File
    /\ LargeTreesFit

\* Rounding up yields a natural number that is below one unit more.
LEMMA RoundUpBound ==
    ASSUME NEW n \in Nat
    PROVE  /\ RoundUp(n, 1) = n
           /\ RoundUp(n, Sector) \in Nat
           /\ RoundUp(n, Sector) * 512 <= n + 511
  BY DEF RoundUp, Sector

LEMMA ClustersInInt == ASSUME NEW n \in Nat PROVE Clusters(n) \in Int
  BY DEF Clusters, DataSectors, FatSectors, RoundUp, Sector

LEMMA EnoughInNat == Enough \in Nat
  BY SMT DEF Enough

\* A file system 5% larger than a tree of 1 MiB or more has a cluster for every
\* sector of the tree and eight more: three started sectors, three directories.
LEMMA LayoutFits ==
    ASSUME NEW t \in Nat, t >= Enough, NEW n \in Nat, n * 512 <= t + 3 * 511
    PROVE  n + Dirs + 1 <= Clusters(WithOverhead(t))
<1> DEFINE esp == WithOverhead(t)
           blocks == esp \div 1024
           data == DataSectors(esp)
           est == (data * 512 + 16) \div 520
           fat == FatSectors(esp)
<1>1. esp \in Nat /\ 100 * esp > 105 * t - 100
  BY DEF WithOverhead
<1>2. blocks \in Nat /\ 1024 * blocks > esp - 1024
  BY <1>1
<1>3. data = 2 * blocks - 32 /\ data \in Nat
  BY <1>1, <1>2 DEF DataSectors, Enough
<1>4. est \in Nat /\ 520 * est <= data * 512 + 16
  BY <1>3
<1>5. fat = ((est + 2) * 4 + 511) \div 512
  BY DEF FatSectors, RoundUp, Sector
<1>6. fat \in Nat /\ 512 * fat <= (est + 2) * 4 + 511
  BY <1>4, <1>5
<1>7. Clusters(esp) = data - 2 * fat
  BY DEF Clusters
<1> QED
  BY <1>1, <1>2, <1>3, <1>4, <1>6, <1>7 DEF Enough, Dirs

\* Sums over the three files grow by one part at a time.
LEMMA TotalStep ==
    ASSUME size \in [File -> Nat], NEW S \in SUBSET File, NEW f \in File, f \notin S,
           NEW unit \in {1, Sector}
    PROVE  /\ Total(S, unit) \in Nat
           /\ Total(S \cup {f}, unit) = Total(S, unit) + RoundUp(size[f], unit)
<1>1. \A g \in File : RoundUp(size[g], unit) \in Nat
  BY RoundUpBound
<1>2. CASE f = "shim.efi"
  BY <1>1, <1>2 DEF Total, File
<1>3. CASE f = "kernel.efi"
  BY <1>1, <1>3 DEF Total, File
<1>4. CASE f = "startup.nsh"
  BY <1>1, <1>4 DEF Total, File
<1> QED
  BY <1>2, <1>3, <1>4 DEF File

\* The whole is no smaller than its parts, and rounding costs less than one
\* sector a file.
LEMMA TotalBounds ==
    ASSUME size \in [File -> Nat]
    PROVE  /\ Total({}, 1) = 0 /\ Total({}, Sector) = 0
           /\ Total(File, 1) \in Nat /\ Total(File, Sector) \in Nat
           /\ Total(File, Sector) * 512 <= Total(File, 1) + 3 * 511
<1>1. \A g \in File : /\ size[g] \in Nat /\ RoundUp(size[g], 1) = size[g]
                      /\ RoundUp(size[g], Sector) \in Nat
                      /\ RoundUp(size[g], Sector) * 512 <= size[g] + 511
  BY RoundUpBound
<1> QED
  BY <1>1 DEF Total, File

\* A file not yet copied is in the difference of the sums.
LEMMA PartFits ==
    ASSUME size \in [File -> Nat], NEW S \in SUBSET File, NEW f \in File, f \notin S
    PROVE  Total(S, Sector) + RoundUp(size[f], Sector) <= Total(File, Sector)
<1>1. \A g \in File : RoundUp(size[g], Sector) \in Nat
  BY RoundUpBound
<1>2. CASE f = "shim.efi"
  BY <1>1, <1>2 DEF Total, File
<1>3. CASE f = "kernel.efi"
  BY <1>1, <1>3 DEF Total, File
<1>4. CASE f = "startup.nsh"
  BY <1>1, <1>4 DEF Total, File
<1> QED
  BY <1>2, <1>3, <1>4 DEF File

\* The layout lemma for the tree at hand: a tree with fewer clusters than it
\* needs is small.
LEMMA TreeFits ==
    ASSUME size \in [File -> Nat], NEW n \in Nat, n <= Total(File, Sector),
           Clusters(WithOverhead(Total(File, 1))) \in Int,
           Clusters(WithOverhead(Total(File, 1))) < n + 3
    PROVE  Total(File, 1) < Enough
<1> SUFFICES ASSUME ~(Total(File, 1) < Enough) PROVE FALSE
  OBVIOUS
<1>1. /\ Total(File, 1) \in Nat /\ Total(File, Sector) \in Nat
      /\ Total(File, Sector) * 512 <= Total(File, 1) + 3 * 511
  BY TotalBounds
<1>2. Total(File, 1) >= Enough
  BY <1>1, EnoughInNat
<1>3. Total(File, Sector) + Dirs + 1 <= Clusters(WithOverhead(Total(File, 1)))
  BY <1>1, <1>2, LayoutFits
<1> QED
  BY <1>1, <1>3 DEF Dirs

-----------------------------------------------------------------------------
LEMMA InitIInv == Init => IInv
<1> SUFFICES ASSUME Init PROVE IInv
  OBVIOUS
<1>1. size \in [File -> Nat]
  BY SizesAssumption DEF Init
<1> QED
  BY <1>1, TotalBounds DEF Init, IInv, TypeOK, LargeTreesFit

\* The walk adds a file to both sums.
LEMMA WalkIInv == ASSUME IInv, NEW f \in File, WalkFile(f) PROVE IInv'
<1>1. size \in [File -> Nat] /\ size' = size
  BY SizesAssumption DEF IInv, TypeOK, WalkFile
<1>2. /\ phase = "walk" /\ phase' = "walk" /\ f \notin walked
      /\ walked' = walked \cup {f} /\ treeSize' = treeSize + size[f]
      /\ image' = image /\ free' = free /\ copied' = copied
  BY DEF WalkFile
<1>3. treeSize' = Total(walked, 1) + RoundUp(size[f], 1)
  BY <1>1, <1>2, RoundUpBound DEF IInv
<1>4. treeSize' = Total(walked', 1) /\ treeSize' \in Nat
  <2>1. walked \in SUBSET File /\ treeSize \in Nat
    BY DEF IInv, TypeOK
  <2>2. Total(walked \cup {f}, 1) = Total(walked, 1) + RoundUp(size[f], 1)
    BY <1>1, <1>2, <2>1, TotalStep
  <2> QED
    BY <1>1, <1>2, <1>3, <2>1, <2>2
<1>5. Total(walked', 1) = Total(walked, 1)'
  BY <1>1 DEF Total
<1>6. TypeOK'
  BY <1>1, <1>2, <1>4 DEF IInv, TypeOK
<1> QED
  BY <1>2, <1>4, <1>5, <1>6 DEF IInv, LargeTreesFit

LEMMA TruncateIInv == ASSUME IInv, Truncate PROVE IInv'
<1>1. size \in [File -> Nat]
  BY SizesAssumption DEF IInv, TypeOK
<1>2. /\ size' = size /\ walked' = walked /\ treeSize' = treeSize /\ free' = free /\ copied' = copied
      /\ walked = File /\ image' = WithOverhead(treeSize)
      /\ phase = "walk" /\ phase' = "mkfs"
  BY DEF Truncate
<1>3. image' = WithOverhead(Total(File, 1)) /\ image' \in Nat
  BY <1>1, <1>2, TotalBounds DEF IInv, WithOverhead
<1>4. \A S, u : Total(S, u)' = Total(S, u)
  BY <1>2 DEF Total
<1> QED
  BY <1>2, <1>3, <1>4 DEF IInv, TypeOK, LargeTreesFit

\* Formatting fails only for a tree too small for the layout lemma.
LEMMA MakeFatIInv == ASSUME IInv, MakeFat PROVE IInv'
<1>1. size \in [File -> Nat] /\ phase = "mkfs" /\ image = WithOverhead(Total(File, 1))
  BY SizesAssumption DEF IInv, TypeOK, MakeFat
<1>2. UNCHANGED <<size, walked, treeSize, image, copied>>
  BY DEF MakeFat
<1>3. Clusters(image) \in Int
  BY ClustersInInt DEF IInv, TypeOK
<1>4. CASE Clusters(image) > 0
  <2>1. free' = Clusters(image) - 1 /\ phase' = "mkdir" /\ free' \in Nat
    BY <1>3, <1>4 DEF MakeFat
  <2> QED
    BY <1>1, <1>2, <2>1 DEF IInv, TypeOK, LargeTreesFit, Total, Clusters, DataSectors, FatSectors
<1>5. CASE ~(Clusters(image) > 0)
  <2>1. free' = free /\ phase' = "error"
    BY <1>5 DEF MakeFat
  <2>2. Total(File, 1) < Enough
    <3>1. 0 <= Total(File, Sector) /\ 0 \in Nat /\ Clusters(image) < 0 + 3
      BY <1>1, <1>3, <1>5, TotalBounds
    <3> QED
      BY <1>1, <1>3, <3>1, TreeFits
  <2> QED
    BY <1>1, <1>2, <2>1, <2>2 DEF IInv, TypeOK, LargeTreesFit, Total
<1> QED
  BY <1>4, <1>5

\* So does mcopy: at the directories...
LEMMA MakeDirsIInv == ASSUME IInv, MakeDirs PROVE IInv'
<1>1. /\ size \in [File -> Nat] /\ phase = "mkdir" /\ image = WithOverhead(Total(File, 1))
      /\ free = Clusters(image) - 1 /\ free \in Nat
  BY SizesAssumption DEF IInv, TypeOK, MakeDirs
<1>2. UNCHANGED <<size, walked, treeSize, image, copied>>
  BY DEF MakeDirs
<1>3. \A S, u : Total(S, u)' = Total(S, u)
  BY <1>2 DEF Total
<1>4. Clusters(image)' = Clusters(image)
  BY <1>2 DEF Clusters, DataSectors, FatSectors
<1>5. CASE Dirs <= free
  <2>1. free' = free - Dirs /\ phase' = "mcopy" /\ free' \in Nat
    BY <1>1, <1>5 DEF MakeDirs, Dirs
  <2>2. copied = {}
    BY <1>1 DEF IInv
  <2>3. free' + Total({}, Sector) + Dirs = Clusters(image) - 1
    BY <1>1, <2>1, TotalBounds DEF Dirs
  <2> QED
    BY <1>1, <1>2, <1>3, <1>4, <2>1, <2>2, <2>3 DEF IInv, TypeOK, LargeTreesFit
<1>7. Clusters(image) \in Int
  BY ClustersInInt DEF IInv, TypeOK
<1>6. CASE ~(Dirs <= free)
  <2>1. free' = free /\ phase' = "error"
    BY <1>6 DEF MakeDirs
  <2>2. Total(File, 1) < Enough
    <3>1. 0 <= Total(File, Sector) /\ 0 \in Nat /\ Clusters(image) < 0 + 3
      BY <1>1, <1>6, <1>7, TotalBounds DEF Dirs
    <3> QED
      BY <1>1, <1>7, <3>1, TreeFits
  <2> QED
    BY <1>1, <1>2, <1>3, <1>4, <2>1, <2>2 DEF IInv, TypeOK, LargeTreesFit
<1> QED
  BY <1>5, <1>6

\* ... and at the file whose part of the sum is missing.
LEMMA CopyIInv == ASSUME IInv, NEW f \in File, CopyFile(f) PROVE IInv'
<1> DEFINE part == RoundUp(size[f], Sector)
<1>1. /\ size \in [File -> Nat] /\ phase = "mcopy" /\ image = WithOverhead(Total(File, 1))
      /\ free + Total(copied, Sector) + Dirs = Clusters(image) - 1 /\ free \in Nat
      /\ f \notin copied /\ copied \in SUBSET File
  BY SizesAssumption DEF IInv, TypeOK, CopyFile
<1>2. UNCHANGED <<size, walked, treeSize, image>>
  BY DEF CopyFile
<1>3. \A S, u : Total(S, u)' = Total(S, u)
  BY <1>2 DEF Total
<1>4. Clusters(image)' = Clusters(image)
  BY <1>2 DEF Clusters, DataSectors, FatSectors
<1>5. part \in Nat /\ Total(copied, Sector) \in Nat
      /\ Total(copied \cup {f}, Sector) = Total(copied, Sector) + part
      /\ Total(copied, Sector) + part <= Total(File, Sector)
  <2>1. part \in Nat
    BY <1>1, RoundUpBound
  <2>2. /\ Total(copied, Sector) \in Nat
        /\ Total(copied \cup {f}, Sector) = Total(copied, Sector) + part
    BY <1>1, TotalStep
  <2>3. Total(copied, Sector) + part <= Total(File, Sector)
    BY <1>1, PartFits
  <2> QED
    BY <2>1, <2>2, <2>3
<1>8. Clusters(image) \in Int
  BY ClustersInInt DEF IInv, TypeOK
<1>6. CASE part <= free
  <2>1. free' = free - part /\ copied' = copied \cup {f} /\ phase' = "mcopy" /\ free' \in Nat
    BY <1>1, <1>5, <1>6 DEF CopyFile
  <2>2. free' + Total(copied', Sector) + Dirs = Clusters(image) - 1
    BY <1>1, <1>5, <2>1 DEF Dirs
  <2>3. Total(copied', Sector) = Total(copied, Sector)'
    BY <1>2 DEF Total
  <2> QED
    BY <1>1, <1>2, <1>3, <1>4, <2>1, <2>2, <2>3 DEF IInv, TypeOK, LargeTreesFit
<1>7. CASE ~(part <= free)
  <2>1. free' = free /\ copied' = copied /\ phase' = "error"
    BY <1>7 DEF CopyFile
  <2>2. Total(File, 1) < Enough
    <3> DEFINE n == Total(copied, Sector) + part
    <3>2. n \in Nat /\ n <= Total(File, Sector)
      BY <1>5
    <3>3. Clusters(image) < n + 3
      BY <1>1, <1>5, <1>7, <1>8 DEF Dirs
    <3> QED
      BY <1>1, <1>8, <3>2, <3>3, TreeFits
  <2> QED
    BY <1>1, <1>2, <1>3, <1>4, <2>1, <2>2 DEF IInv, TypeOK, LargeTreesFit
<1> QED
  BY <1>6, <1>7

LEMMA CopyDoneIInv == ASSUME IInv, CopyDone PROVE IInv'
<1>1. /\ phase = "mcopy" /\ phase' = "ok" /\ copied = File
      /\ UNCHANGED <<size, walked, treeSize, image, free, copied>>
  BY DEF CopyDone
<1>2. \A S, u : Total(S, u)' = Total(S, u)
  BY <1>1 DEF Total
<1>3. Clusters(image)' = Clusters(image)
  BY <1>1 DEF Clusters, DataSectors, FatSectors
<1> QED
  BY <1>1, <1>2, <1>3 DEF IInv, TypeOK, LargeTreesFit

LEMMA StutterIInv == ASSUME IInv, UNCHANGED vars PROVE IInv'
<1>1. UNCHANGED <<size, phase, walked, treeSize, image, free, copied>>
  BY DEF vars
<1>2. \A S, u : Total(S, u)' = Total(S, u)
  BY <1>1 DEF Total
<1>3. Clusters(image)' = Clusters(image)
  BY <1>1 DEF Clusters, DataSectors, FatSectors
<1> QED
  BY <1>1, <1>2, <1>3 DEF IInv, TypeOK, LargeTreesFit

\* The invariant of the whole: see IInv.
THEOREM Invariance == Spec => []IInv
<1>1. IInv /\ [Next]_vars => IInv'
  <2> SUFFICES ASSUME IInv, [Next]_vars PROVE IInv'
    OBVIOUS
  <2>1. ASSUME NEW f \in File, WalkFile(f) PROVE IInv'
    BY <2>1, WalkIInv
  <2>2. ASSUME NEW f \in File, CopyFile(f) PROVE IInv'
    BY <2>2, CopyIInv
  <2>3. CASE Truncate \/ MakeFat \/ MakeDirs \/ CopyDone
    BY <2>3, TruncateIInv, MakeFatIInv, MakeDirsIInv, CopyDoneIInv
  <2>4. CASE Terminated \/ UNCHANGED vars
    BY <2>4, StutterIInv DEF Terminated
  <2> QED
    BY <2>1, <2>2, <2>3, <2>4 DEF Next
<1> QED
  BY InitIInv, <1>1, PTL DEF Spec

\* Every variable keeps its type: the free clusters never go below zero, whatever
\* the file system's size comes to and whatever is copied to it (main.go:738-772).
THEOREM TypeCorrect == Spec => []TypeOK
<1>1. IInv => TypeOK
  BY DEF IInv
<1> QED
  BY Invariance, <1>1, PTL

\* genESP never runs out of space for a tree of 1 MiB or more, whatever the
\* sizes of the three files.
THEOREM LargeTreesAlwaysFit == Spec => []LargeTreesFit
<1>1. IInv => LargeTreesFit
  BY DEF IInv
<1> QED
  BY Invariance, <1>1, PTL

\* A success of genESP accounts for every cluster on the file system.
THEOREM SuccessAlwaysFits == Spec => []SuccessFits
<1>1. IInv => SuccessFits
  <2> SUFFICES ASSUME IInv, phase = "ok" PROVE copied = File /\ Total(File, Sector) + Dirs + 1 <= Clusters(image)
    BY DEF SuccessFits
  <2>1. /\ size \in [File -> Nat] /\ copied = File /\ free \in Nat
        /\ free + Total(copied, Sector) + Dirs = Clusters(image) - 1
    BY SizesAssumption DEF IInv, TypeOK
  <2>2. Clusters(image) \in Int
    BY ClustersInInt DEF IInv, TypeOK
  <2> QED
    BY <2>1, <2>2, TotalBounds DEF Dirs
<1> QED
  BY Invariance, <1>1, PTL
=============================================================================
