------------------------------ MODULE EspSize ------------------------------
(***************************************************************************)
(* The ESP image of an iso (go/cmd/oci-boot/main.go, getDirSize and        *)
(* genESP): the sizes of the files are added up, 5% is put on top for the  *)
(* file system, mkfs.fat formats a file of that size, and mcopy copies the *)
(* directory efi into it.  PopulateEFI stages three files at most.         *)
(***************************************************************************)
EXTENDS Naturals, Integers, FiniteSets

CONSTANT Sizes       \* for each of the files a size in bytes
File == {"shim.efi", "kernel.efi", "startup.nsh"}
ASSUME SizesAssumption == Sizes \subseteq [File -> Nat]

VARIABLES size, phase,
          walked, treeSize,   \* getDirSize: the files seen, and their sum
          image,              \* the size of the image file
          free, copied        \* free clusters of the FAT file system; files on it
vars == <<size, phase, walked, treeSize, image, free, copied>>

Sector == 512
Dirs == 2            \* efi and efi/boot, of one cluster each

\* A plausible bug: 3% on top.
WithLess(bytes) == (bytes * 103) \div 100

\* int64(float64(treeSize) * 1.05)
WithOverhead(bytes) == (bytes * 105) \div 100

RoundUp(n, unit) == (n + unit - 1) \div unit

\* mkfs.fat -s 1 -F 32: clusters of one sector, 32 reserved sectors, two FATs of
\* 4 bytes a cluster.  It works in blocks of 1 KiB, and estimates the clusters
\* to size the FATs.
DataSectors(bytes) == 2 * (bytes \div 1024) - 32
FatSectors(bytes) == RoundUp(((DataSectors(bytes) * Sector + 16) \div (Sector + 8) + 2) * 4, Sector)
Clusters(bytes) == DataSectors(bytes) - 2 * FatSectors(bytes)

Init ==
    /\ size \in Sizes
    /\ phase = "walk" /\ walked = {} /\ treeSize = 0 /\ image = 0 /\ free = 0 /\ copied = {}

\* A plausible bug: mcopy's status is ignored.
CopyFileUnchecked(f) ==
    /\ phase = "mcopy" /\ f \notin copied
    /\ IF RoundUp(size[f], Sector) <= free
         THEN free' = free - RoundUp(size[f], Sector) ELSE UNCHANGED free
    /\ copied' = copied \cup {f}
    /\ UNCHANGED <<size, phase, walked, treeSize, image>>

\* filepath.Walk comes to a file.
WalkFile(f) ==
    /\ phase = "walk" /\ f \notin walked
    /\ walked' = walked \cup {f}
    /\ treeSize' = treeSize + size[f]
    /\ UNCHANGED <<size, phase, image, free, copied>>

Truncate ==
    /\ phase = "walk" /\ walked = File
    /\ image' = WithOverhead(treeSize)
    /\ phase' = "mkfs"
    /\ UNCHANGED <<size, walked, treeSize, free, copied>>

\* mkfs.fat refuses an image without a data cluster; the root directory has one.
MakeFat ==
    /\ phase = "mkfs"
    /\ IF Clusters(image) > 0
         THEN free' = Clusters(image) - 1 /\ phase' = "mkdir"
         ELSE UNCHANGED free /\ phase' = "error"
    /\ UNCHANGED <<size, walked, treeSize, image, copied>>

\* mcopy makes the directories, then copies each file or fails: "Disk full".
MakeDirs ==
    /\ phase = "mkdir"
    /\ IF Dirs <= free THEN free' = free - Dirs /\ phase' = "mcopy"
                       ELSE UNCHANGED free /\ phase' = "error"
    /\ UNCHANGED <<size, walked, treeSize, image, copied>>

CopyFile(f) ==
    /\ phase = "mcopy" /\ f \notin copied
    /\ IF RoundUp(size[f], Sector) <= free
         THEN /\ free' = free - RoundUp(size[f], Sector)
              /\ copied' = copied \cup {f} /\ UNCHANGED phase
         ELSE phase' = "error" /\ UNCHANGED <<free, copied>>
    /\ UNCHANGED <<size, walked, treeSize, image>>

CopyDone ==
    /\ phase = "mcopy" /\ copied = File
    /\ phase' = "ok"
    /\ UNCHANGED <<size, walked, treeSize, image, free, copied>>

Terminated == phase \in {"ok", "error"} /\ UNCHANGED vars

Next ==
    \/ \E f \in File : WalkFile(f) \/ CopyFile(f)
    \/ Truncate \/ MakeFat \/ MakeDirs \/ CopyDone \/ Terminated

Spec == Init /\ [][Next]_vars

-----------------------------------------------------------------------------
\* The sum of the sizes of some of the files, in units rounded up.
Total(files, unit) ==
    LET part(f) == IF f \in files THEN RoundUp(size[f], unit) ELSE 0
    IN  part("shim.efi") + part("kernel.efi") + part("startup.nsh")

\* The types, and that no more clusters are taken than there are: a part of the
\* invariant in EspSizeProofs, which SuccessFits rests on.
TypeOK ==
    /\ size \in Sizes
    /\ phase \in {"walk", "mkfs", "mkdir", "mcopy", "ok", "error"}
    /\ walked \subseteq File /\ copied \subseteq File
    /\ treeSize \in Nat /\ image \in Nat /\ free \in Nat

\* The 5% are enough for every tree of 1 MiB or more, however the sizes fall on
\* the clusters: the FATs, the reserved sectors, the directories and what the
\* last clusters of the files waste fit in.
Enough == 1048576
LargeTreesFit == phase = "error" => Total(File, 1) < Enough

\* A reported success means that all files are on the ESP and the clusters they
\* and the directories take were there.
SuccessFits ==
    phase = "ok" => /\ copied = File
                    /\ Total(File, Sector) + Dirs + 1 <= Clusters(image)
=============================================================================
