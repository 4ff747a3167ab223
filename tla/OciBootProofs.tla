--------------------------- MODULE OciBootProofs ---------------------------
(* What holds of oci-boot for every command line and every host.  The       *)
(* properties of the end of a run are carried by what each phase knows: of  *)
(* the verdict (VerdictInv), the output (OutputInv), the temporary          *)
(* directories (LeakInv), the mount (MountInv), the kit (KitInv) and the    *)
(* tree (TreeInv), which a boot of the image then reads.                    *)
EXTENDS BootMedia, Integers, FiniteSetTheorems, SequenceTheorems, WellFoundedInduction, TLAPS

Ending == {"unwind", "done"}
KitPhases == {"start", "kit", "pull", "failed", "unpack", "unsquash", "atomfs", "copyout", "rename",
              "locate"}

\* There is a verdict when the removals begin, and the kit's place is known
\* from locate on, or the run ended before.
VerdictInv ==
    /\ phase \in Ending <=> result # "none"
    /\ phase \in KitPhases => kitDir = Empty
    /\ phase \notin KitPhases \cup Ending => kitDir # Empty

\* The output is touched by the last steps only, and tells the verdict.
OutputInv ==
    /\ phase \notin Ending \cup {"mcopy"} => output = "old"
    /\ phase = "mcopy" => output = "partial"
    /\ phase \in Ending => (result = "ok" <=> output = "whole")

\* A directory that exists is to be removed, could not be, or is the one of the
\* molecule, whose removal is nobody's once its mount failed.
LeakInv ==
    /\ \A t \in temps : \/ t \in deferred \/ t \in stuck
                        \/ t = "unsquash" /\ (phase = "copyout" \/ (result = "error" /\ kitDir = Empty))
    /\ phase \in {"start", "kit"} => deferred = {}
    /\ phase = "pull" => deferred \subseteq {"kit"}
    /\ phase = "unpack" => deferred \subseteq {"kit", "oci"}
    /\ phase = "done" /\ deferred # {} =>
          /\ result = "fatal"
          /\ kitDir # Empty \/ (deferred \subseteq {"kit"} /\ request.kit = << >>)

\* The molecule's directory is never among the deferred removals.
MountInv ==
    /\ "unsquash" \notin deferred
    /\ phase = "copyout" => mounted
    /\ mounted => /\ "unsquash" \in temps
                  /\ phase = "copyout" \/ (result = "error" /\ "unsquash" \in stuck)

\* Layer by layer, the kit is the overlay of those extracted so far, or more than
\* that when unsquashfs extracts them.
Unsquashing ==
    /\ request.kitIsRef /\ ~request.root /\ ~Which("squashtool") /\ HasWhiteouts(request.kit)
    /\ \A i \in 1 .. applied : request.kit[i].kind = "squash"
KitInv ==
    /\ Overlay(request.kit, applied) \subseteq rootfs
    /\ rootfs = Overlay(request.kit, applied) \/ Unsquashing
    /\ phase \in {"start", "kit", "pull", "failed", "unpack", "atomfs", "copyout"} => rootfs = {} /\ applied = 0
    /\ phase \in {"pull", "failed", "unpack", "unsquash", "atomfs", "copyout"} => request.kitIsRef
    /\ phase = "unsquash" => /\ ~request.root /\ applied < Len(request.kit)
                             /\ \A i \in 1 .. applied : request.kit[i].kind = "squash"
    /\ phase \in {"rename", "locate"} \/ kitDir # Empty => applied = Len(request.kit)

IInv == TypeOK /\ VerdictInv /\ OutputInv /\ LeakInv /\ MountInv /\ KitInv

USE DEF Ending, KitPhases, Fail, Goto, kitvars, Which

-----------------------------------------------------------------------------
(* Extracting layers.                                                      *)

LEMMA NoLayersNothing == ASSUME NEW layers PROVE Overlay(layers, 0) = {}
  BY DEF Overlay

\* A layer extracted with its whiteouts over the overlay of those before it gives
\* the overlay of both: extracting one at a time, in order, makes the image.
THEOREM ExtractingOverlays ==
    ASSUME NEW layers, NEW n \in Nat
    PROVE  Extracted(Overlay(layers, n), layers, n + 1) = Overlay(layers, n + 1)
<1> DEFINE V(i, m) == {f \in FilesOf(layers, i) : \A j \in i + 1 .. m : f.at \notin Touched(layers, j)}
<1>1. V(n + 1, n + 1) = FilesOf(layers, n + 1)
  OBVIOUS
<1>2. ASSUME NEW i \in 1 .. n
      PROVE  V(i, n + 1) = {f \in V(i, n) : f.at \notin Touched(layers, n + 1)}
  <2>1. i + 1 .. n + 1 = (i + 1 .. n) \cup {n + 1}
    OBVIOUS
  <2>2. \A f : (\A j \in i + 1 .. n + 1 : f.at \notin Touched(layers, j))
               <=> /\ \A j \in i + 1 .. n : f.at \notin Touched(layers, j)
                   /\ f.at \notin Touched(layers, n + 1)
    BY <2>1
  <2> HIDE DEF V
  <2>3. V(i, n + 1) = {f \in FilesOf(layers, i) : \A j \in i + 1 .. n + 1 : f.at \notin Touched(layers, j)}
    BY DEF V
  <2>4. V(i, n) = {f \in FilesOf(layers, i) : \A j \in i + 1 .. n : f.at \notin Touched(layers, j)}
    BY DEF V
  <2> QED
    BY <2>2, <2>3, <2>4
<1>3. \A f : f \in Overlay(layers, n) <=> \E i \in 1 .. n : f \in V(i, n)
  BY DEF Overlay
<1>4. \A f : f \in Overlay(layers, n + 1) <=> \E i \in 1 .. n + 1 : f \in V(i, n + 1)
  BY DEF Overlay
<1> HIDE DEF V
<1>5. \A f : f \in Overlay(layers, n + 1)
               <=> f \in V(n + 1, n + 1) \/ \E i \in 1 .. n : f \in V(i, n + 1)
  BY <1>4
<1>6. \A f : f \in Overlay(layers, n + 1)
               <=> f \in FilesOf(layers, n + 1) \/ (f \in Overlay(layers, n) /\ f.at \notin Touched(layers, n + 1))
  BY <1>1, <1>2, <1>3, <1>5
<1> QED
  BY <1>6 DEF Extracted

\* Without the whiteouts nothing of the overlay is lost.
LEMMA ExtractingOverKeeps ==
    ASSUME NEW layers, NEW n \in Nat, NEW dir, Overlay(layers, n) \subseteq dir
    PROVE  /\ Overlay(layers, n + 1) \subseteq ExtractedOver(dir, layers, n + 1)
           /\ Overlay(layers, n + 1) \subseteq Extracted(dir, layers, n + 1)
  BY ExtractingOverlays DEF Extracted, ExtractedOver, Touched

\* Without whiteouts in the layer there is no difference.
LEMMA NoWhiteoutsNoDifference ==
    ASSUME NEW layers, NEW n, NEW dir, layers[n].dels = {}
    PROVE  ExtractedOver(dir, layers, n) = Extracted(dir, layers, n)
  BY DEF Extracted, ExtractedOver, Touched

-----------------------------------------------------------------------------
LEMMA InitIInv == Init => IInv
<1> SUFFICES ASSUME Init PROVE IInv
  OBVIOUS
<1>1. Len(request.layers) \in Nat
  BY RequestsAssumption DEF Init
<1>2. next \in 1 .. Len(request.layers) + 1
  BY <1>1 DEF Init
<1>3. applied \in 0 .. Len(request.kit)
  BY RequestsAssumption DEF Init
<1>4. TypeOK
  BY <1>2, <1>3 DEF Init, TypeOK, Phases, Temps
<1>5. KitInv
  <2>1. Overlay(request.kit, 0) = {}
    BY NoLayersNothing
  <2> QED
    BY <2>1 DEF Init, KitInv
<1> QED
  BY <1>4, <1>5 DEF Init, IInv, VerdictInv, OutputInv, LeakInv, MountInv

\* What the deferred removals of some directories do: what is still there could
\* not be removed, or was not among them.
LEMMA RemoveEffect ==
    ASSUME NEW dirs \in SUBSET Temps, TypeOK, "unsquash" \notin dirs, Remove(dirs)
    PROVE  /\ temps' \subseteq temps /\ deferred' = deferred \ dirs
           /\ stuck \subseteq stuck' /\ stuck' \subseteq Temps
           /\ \A t \in temps' : t \in dirs => t \in stuck'
           /\ "unsquash" \in temps => "unsquash" \in temps'
  BY DEF Remove, TypeOK, Temps

\* The verdict and the output: every step that ends the run sets both.
LEMMA KitVerdict == ASSUME IInv, KitStep PROVE VerdictInv' /\ OutputInv'
<1> USE DEF IInv, TypeOK, VerdictInv, OutputInv, KitStep, Phases
<1>1. CASE Start
  BY <1>1 DEF Start, treevars, dirvars
<1>2. CASE GetBootKit
  BY <1>2 DEF GetBootKit, MakeTemp
<1>3. CASE PullKit
  BY <1>3 DEF PullKit, MakeTemp
<1>4. CASE UnpackLayer \/ UnpackNothing \/ ExtractSquash
  BY <1>4 DEF UnpackLayer, UnpackTar, UnpackNothing, ExtractSquash
<1>5. CASE MountMolecule
  BY <1>5 DEF MountMolecule
<1>6. CASE CopyOut
  BY <1>6 DEF CopyOut
<1>7. CASE RenameEntries
  BY <1>7 DEF RenameEntries
<1>8. CASE LocateKit
  BY <1>8 DEF LocateKit, Empty
<1> QED
  BY <1>1, <1>2, <1>3, <1>4, <1>5, <1>6, <1>7, <1>8

LEMMA TreeVerdict == ASSUME IInv, TreeStep PROVE VerdictInv' /\ OutputInv'
<1> USE DEF IInv, TypeOK, VerdictInv, OutputInv, TreeStep, Phases
<1>1. CASE MakeCreateDir \/ MakeEspDir
  BY <1>1 DEF MakeCreateDir, MakeEspDir, MakeTemp
<1>2. CASE PopulateEFI
  BY <1>2 DEF PopulateEFI
<1>3. CASE GenESP \/ TruncateFails
  BY <1>3 DEF GenESP, TruncateFails
<1>4. CASE CopyBootLayer \/ SyncRepo \/ CopyModules
  BY <1>4 DEF CopyBootLayer, SyncRepo, CopyModules
<1>5. CASE CopyLayer \/ LayersDone
  BY <1>5 DEF CopyLayer, LayersDone
<1>6. CASE InsertFile \/ FilesDone
  BY <1>6 DEF InsertFile, FilesDone
<1> QED
  BY <1>1, <1>2, <1>3, <1>4, <1>5, <1>6

LEMMA ImageVerdict == ASSUME IInv, ImageStep PROVE VerdictInv' /\ OutputInv'
<1> USE DEF IInv, TypeOK, VerdictInv, OutputInv, ImageStep, Phases
<1>1. CASE WriteIso
  BY <1>1 DEF WriteIso
<1>2. CASE GenGptDisk
  BY <1>2 DEF GenGptDisk
<1>3. CASE FillDisk
  BY <1>3 DEF FillDisk
<1>4. CASE Unwind
  BY <1>4 DEF Unwind
<1>5. CASE StepFails
  BY <1>5 DEF StepFails
<1> QED
  BY <1>1, <1>2, <1>3, <1>4, <1>5
\* The temporary directories and the mount.
LEMMA KitDirs == ASSUME IInv, KitStep PROVE LeakInv' /\ MountInv'
<1> USE DEF IInv, TypeOK, VerdictInv, LeakInv, MountInv, Phases, KitStep
<1>1. CASE Start
  BY <1>1 DEF Start, treevars, dirvars
<1>2. CASE GetBootKit
  BY <1>2 DEF GetBootKit, MakeTemp
<1>3. CASE PullKit
  BY <1>3 DEF PullKit, MakeTemp
<1>4. CASE UnpackLayer
  BY <1>4 DEF UnpackLayer, UnpackTar
<1>9. CASE UnpackNothing
  <2>1. Remove({"xdir", "oci"})
    BY <1>9 DEF UnpackNothing
  <2>2. /\ temps' \subseteq temps /\ deferred' = deferred \ {"xdir", "oci"}
        /\ stuck \subseteq stuck' /\ stuck' \subseteq Temps
        /\ \A t \in temps' : t \in {"xdir", "oci"} => t \in stuck'
        /\ "unsquash" \in temps => "unsquash" \in temps'
    BY <2>1, RemoveEffect DEF Temps
  <2> QED
    BY <1>9, <2>2 DEF UnpackNothing
<1>10. CASE ExtractSquash
  BY <1>10 DEF ExtractSquash, dirvars
<1>5. CASE MountMolecule
  BY <1>5 DEF MountMolecule
<1>6. CASE CopyOut
  BY <1>6 DEF CopyOut
<1>7. CASE RenameEntries
  <2>1. Remove({"xdir", "oci"})
    BY <1>7 DEF RenameEntries
  <2>2. /\ temps' \subseteq temps /\ deferred' = deferred \ {"xdir", "oci"}
        /\ stuck \subseteq stuck' /\ stuck' \subseteq Temps
        /\ \A t \in temps' : t \in {"xdir", "oci"} => t \in stuck'
        /\ "unsquash" \in temps => "unsquash" \in temps'
    BY <2>1, RemoveEffect DEF Temps
  <2> QED
    BY <1>7, <2>2 DEF RenameEntries
<1>8. CASE LocateKit
  BY <1>8 DEF LocateKit, dirvars
<1> QED
  BY <1>1, <1>2, <1>3, <1>4, <1>5, <1>6, <1>7, <1>8, <1>9, <1>10

LEMMA TreeDirs == ASSUME IInv, TreeStep PROVE LeakInv' /\ MountInv'
<1> USE DEF IInv, TypeOK, VerdictInv, LeakInv, MountInv, Phases, TreeStep
<1>1. CASE MakeCreateDir \/ MakeEspDir
  BY <1>1 DEF MakeCreateDir, MakeEspDir, MakeTemp
<1>2. CASE PopulateEFI
  BY <1>2 DEF PopulateEFI, dirvars
<1>3. CASE GenESP
  <2>1. Remove({"esp"})
    BY <1>3 DEF GenESP
  <2>2. /\ temps' \subseteq temps /\ deferred' = deferred \ {"esp"}
        /\ stuck \subseteq stuck' /\ stuck' \subseteq Temps
        /\ \A t \in temps' : t \in {"esp"} => t \in stuck'
        /\ "unsquash" \in temps => "unsquash" \in temps'
    BY <2>1, RemoveEffect DEF Temps
  <2> QED
    BY <1>3, <2>2 DEF GenESP
<1>4. CASE TruncateFails
  BY <1>4 DEF TruncateFails, dirvars
<1>5. CASE CopyBootLayer \/ SyncRepo \/ CopyModules
  BY <1>5 DEF CopyBootLayer, SyncRepo, CopyModules, dirvars
<1>6. CASE CopyLayer \/ LayersDone
  BY <1>6 DEF CopyLayer, LayersDone, dirvars
<1>7. CASE InsertFile \/ FilesDone
  BY <1>7 DEF InsertFile, FilesDone, dirvars
<1> QED
  BY <1>1, <1>2, <1>3, <1>4, <1>5, <1>6, <1>7

LEMMA ImageDirs == ASSUME IInv, ImageStep PROVE LeakInv' /\ MountInv'
<1> USE DEF IInv, TypeOK, VerdictInv, LeakInv, MountInv, Phases, ImageStep
<1>1. CASE WriteIso
  BY <1>1 DEF WriteIso, dirvars
<1>2. CASE GenGptDisk
  BY <1>2 DEF GenGptDisk, dirvars
<1>3. CASE FillDisk
  BY <1>3 DEF FillDisk, dirvars
<1>4. CASE Unwind
  <2>1. Remove(deferred)
    BY <1>4 DEF Unwind
  <2>2. /\ temps' \subseteq temps /\ deferred' = deferred \ deferred
        /\ stuck \subseteq stuck' /\ stuck' \subseteq Temps
        /\ \A t \in temps' : t \in deferred => t \in stuck'
        /\ "unsquash" \in temps => "unsquash" \in temps'
    BY <2>1, RemoveEffect DEF Temps
  <2> QED
    BY <1>4, <2>2 DEF Unwind
<1>5. CASE StepFails
  BY <1>5 DEF StepFails, dirvars
<1> QED
  BY <1>1, <1>2, <1>3, <1>4, <1>5

\* The type invariant.
LEMMA KitType == ASSUME IInv, KitStep PROVE TypeOK'
<1> USE DEF IInv, TypeOK, KitStep, Phases
<1>1. CASE Start
  BY <1>1 DEF Start, treevars, dirvars
<1>0. Len(request.kit) \in Nat /\ Len(request.kit) \in 0 .. Len(request.kit)
  BY RequestsAssumption
<1>2. CASE GetBootKit
  BY <1>0, <1>2 DEF GetBootKit, MakeTemp, UnpackAll, Temps
<1>3. CASE PullKit
  BY <1>3 DEF PullKit, MakeTemp, Temps
<1>4. CASE UnpackLayer
  BY <1>0, <1>4 DEF UnpackLayer, UnpackTar, UnpackAll, Temps
<1>9. CASE UnpackNothing
  <2>1. Remove({"xdir", "oci"})
    BY <1>9 DEF UnpackNothing
  <2>2. temps' \subseteq Temps /\ deferred' \subseteq Temps /\ stuck' \subseteq Temps
    BY <2>1, RemoveEffect DEF MountInv, Temps
  <2> QED
    BY <1>9, <2>2 DEF UnpackNothing
<1>10. CASE ExtractSquash
  <2>1. applied + 1 \in 0 .. Len(request.kit)
    BY <1>0, <1>10 DEF KitInv, ExtractSquash
  <2> QED
    BY <1>10, <2>1 DEF ExtractSquash, dirvars
<1>5. CASE MountMolecule
  BY <1>5 DEF MountMolecule, Temps
<1>6. CASE CopyOut
  BY <1>0, <1>6 DEF CopyOut, UnpackAll, Temps
<1>7. CASE RenameEntries
  <2>1. Remove({"xdir", "oci"})
    BY <1>7 DEF RenameEntries
  <2>2. temps' \subseteq Temps /\ deferred' \subseteq Temps /\ stuck' \subseteq Temps
    BY <2>1, RemoveEffect DEF MountInv, Temps
  <2> QED
    BY <1>7, <2>2 DEF RenameEntries
<1>8. CASE LocateKit
  BY <1>8 DEF LocateKit, dirvars
<1> QED
  BY <1>1, <1>2, <1>3, <1>4, <1>5, <1>6, <1>7, <1>8, <1>9, <1>10

LEMMA TreeType == ASSUME IInv, TreeStep PROVE TypeOK'
<1> USE DEF IInv, TypeOK, TreeStep, Phases
<1>1. CASE MakeCreateDir \/ MakeEspDir
  BY <1>1 DEF MakeCreateDir, MakeEspDir, MakeTemp, Temps
<1>2. CASE PopulateEFI
  BY <1>2 DEF PopulateEFI, dirvars
<1>3. CASE GenESP
  <2>1. Remove({"esp"})
    BY <1>3 DEF GenESP
  <2>2. temps' \subseteq Temps /\ deferred' \subseteq Temps /\ stuck' \subseteq Temps
    BY <2>1, RemoveEffect DEF MountInv, Temps
  <2> QED
    BY <1>3, <2>2 DEF GenESP
<1>4. CASE TruncateFails
  BY <1>4 DEF TruncateFails, dirvars
<1>5. CASE CopyBootLayer \/ SyncRepo \/ CopyModules
  BY <1>5 DEF CopyBootLayer, SyncRepo, CopyModules, dirvars
<1>6. CASE LayersDone
  BY <1>6 DEF LayersDone, dirvars
<1>7. CASE InsertFile \/ FilesDone
  BY <1>7 DEF InsertFile, FilesDone, dirvars
<1>8. CASE CopyLayer
  <2>1. Len(request.layers) \in Nat
    BY RequestsAssumption
  <2>2. next \in 1 .. Len(request.layers) /\ next' = next + 1 /\ request' = request
    BY <1>8, <2>1 DEF CopyLayer
  <2>3. next' \in 1 .. Len(request'.layers) + 1
    BY <2>1, <2>2
  <2> QED
    BY <1>8, <2>3 DEF CopyLayer, dirvars
<1> QED
  BY <1>1, <1>2, <1>3, <1>4, <1>5, <1>6, <1>7, <1>8

LEMMA ImageType == ASSUME IInv, ImageStep PROVE TypeOK'
<1> USE DEF IInv, TypeOK, ImageStep, Phases
<1>1. CASE WriteIso
  BY <1>1 DEF WriteIso, dirvars
<1>2. CASE GenGptDisk
  BY <1>2 DEF GenGptDisk, dirvars
<1>3. CASE FillDisk
  BY <1>3 DEF FillDisk, dirvars
<1>4. CASE Unwind
  <2>1. Remove(deferred)
    BY <1>4 DEF Unwind
  <2>2. temps' \subseteq Temps /\ deferred' \subseteq Temps /\ stuck' \subseteq Temps
    BY <2>1, RemoveEffect DEF MountInv, Temps
  <2> QED
    BY <1>4, <2>2 DEF Unwind
<1>5. CASE StepFails
  BY <1>5 DEF StepFails, dirvars
<1> QED
  BY <1>1, <1>2, <1>3, <1>4, <1>5

\* The kit.
LEMMA ExtractKit == ASSUME IInv, ExtractSquash PROVE KitInv'
<1> DEFINE n == applied
<1>1. /\ n \in Nat /\ n < Len(request.kit) /\ applied' = n + 1 /\ request' = request
      /\ phase = "unsquash" /\ request.kit[n + 1].kind = "squash" /\ Len(request.kit) \in Nat
      /\ ~request.root /\ request.kitIsRef /\ kitDir' = kitDir /\ kitDir = Empty
      /\ phase' = IF n + 1 = Len(request.kit) THEN "rename" ELSE "unsquash"
  BY RequestsAssumption DEF IInv, TypeOK, KitInv, VerdictInv, ExtractSquash
<1>2. Overlay(request.kit, n + 1) \subseteq rootfs'
  BY <1>1, ExtractingOverKeeps DEF IInv, KitInv, ExtractSquash
<1>3. rootfs' = Overlay(request.kit, n + 1) \/ Unsquashing'
  <2>1. CASE Unsquashing
    <3>1. \A i \in 1 .. n + 1 : request.kit[i].kind = "squash"
      BY <2>1, <1>1 DEF Unsquashing
    <3> QED
      BY <2>1, <3>1, <1>1 DEF Unsquashing
  <2>2. CASE rootfs = Overlay(request.kit, n) /\ Which("squashtool")
    BY <2>2, <1>1, ExtractingOverlays DEF ExtractSquash
  <2>3. CASE rootfs = Overlay(request.kit, n) /\ ~Which("squashtool") /\ ~Unsquashing
    <3>1. CASE request.kit[n + 1].dels = {}
      BY <3>1, <2>3, <1>1, ExtractingOverlays, NoWhiteoutsNoDifference DEF ExtractSquash
    <3>2. CASE request.kit[n + 1].dels # {}
      <4>1. HasWhiteouts(request.kit)
        BY <3>2, <1>1 DEF HasWhiteouts
      <4>2. \A i \in 1 .. n + 1 : request.kit[i].kind = "squash"
        BY <1>1 DEF IInv, KitInv
      <4> QED
        BY <4>1, <4>2, <2>3, <1>1 DEF Unsquashing
    <3> QED
      BY <3>1, <3>2
  <2> QED
    BY <2>1, <2>2, <2>3 DEF IInv, KitInv
<1>4. phase' = "unsquash" => /\ ~request'.root /\ applied' < Len(request'.kit)
                             /\ \A i \in 1 .. applied' : request'.kit[i].kind = "squash"
  <2>1. \A i \in 1 .. n : request.kit[i].kind = "squash"
    BY <1>1 DEF IInv, KitInv
  <2>2. \A i \in 1 .. n + 1 : request.kit[i].kind = "squash"
    BY <2>1, <1>1
  <2> QED
    BY <2>2, <1>1
<1> QED
  BY <1>1, <1>2, <1>3, <1>4 DEF KitInv

LEMMA UnpackAllKit ==
    ASSUME IInv, UnpackAll, request' = request, kitDir' = kitDir, phase' \in {"rename", "locate"}
    PROVE  KitInv'
  BY DEF IInv, KitInv, UnpackAll

\* A step that leaves the kit alone.
LEMMA OtherKit ==
    ASSUME IInv, UNCHANGED <<request, kitvars>>,
           \/ phase' = phase
           \/ phase' \notin {"start", "kit", "pull", "failed", "unpack", "unsquash", "atomfs", "copyout",
                             "rename", "locate"}
    PROVE  KitInv'
  BY DEF IInv, KitInv, Unsquashing

LEMMA KitContent == ASSUME IInv, KitStep PROVE KitInv'
<1> USE DEF IInv, VerdictInv, KitStep
<1>1. CASE Start
  BY <1>1 DEF Start, KitInv, Unsquashing
<1>2. CASE GetBootKit
  BY <1>2, UnpackAllKit DEF GetBootKit, MakeTemp, KitInv, Unsquashing
<1>3. CASE PullKit
  BY <1>3 DEF PullKit, MakeTemp, KitInv, Unsquashing
<1>4. CASE UnpackLayer
  <2>1. CASE UnpackAll /\ phase' = "rename"
    BY <1>4, <2>1, UnpackAllKit DEF UnpackLayer
  <2>2. CASE UNCHANGED <<rootfs, applied>> /\ phase' \in {"atomfs", "unwind"}
    BY <1>4, <2>2 DEF UnpackLayer, KitInv, Unsquashing
  <2>3. CASE UNCHANGED <<rootfs, applied>> /\ phase' = "unsquash" /\ ~request.root
    <3>1. 0 < Len(request.kit)
      BY <1>4, RequestsAssumption DEF UnpackLayer, TypeOK
    <3> QED
      BY <1>4, <2>3, <3>1 DEF UnpackLayer, KitInv, Unsquashing
  <2> QED
    BY <1>4, <2>1, <2>2, <2>3 DEF UnpackLayer, UnpackTar
<1>5. CASE UnpackNothing
  BY <1>5, OtherKit DEF UnpackNothing
<1>6. CASE ExtractSquash
  BY <1>6, ExtractKit
<1>7. CASE MountMolecule
  BY <1>7 DEF MountMolecule, KitInv, Unsquashing
<1>8. CASE CopyOut
  BY <1>8, UnpackAllKit DEF CopyOut, KitInv, Unsquashing
<1>9. CASE RenameEntries
  BY <1>9 DEF RenameEntries, KitInv, Unsquashing
<1>10. CASE LocateKit
  BY <1>10 DEF LocateKit, KitInv, Unsquashing
<1> QED
  BY <1>1, <1>2, <1>3, <1>4, <1>5, <1>6, <1>7, <1>8, <1>9, <1>10

LEMMA LaterContent == ASSUME IInv, TreeStep \/ ImageStep PROVE KitInv'
<1>1. UNCHANGED <<request, kitvars>>
  BY DEF TreeStep, ImageStep, MakeCreateDir, MakeEspDir, PopulateEFI, GenESP, TruncateFails, CopyBootLayer,
         SyncRepo, CopyLayer, LayersDone, CopyModules, InsertFile, FilesDone, WriteIso, GenGptDisk, FillDisk,
         Unwind, StepFails
<1>2. \/ phase' = phase
      \/ phase' \notin {"start", "kit", "pull", "failed", "unpack", "unsquash", "atomfs", "copyout",
                        "rename", "locate"}
  BY DEF TreeStep, ImageStep, MakeTemp, MakeCreateDir, MakeEspDir, PopulateEFI, GenESP, TruncateFails,
         CopyBootLayer, SyncRepo, CopyLayer, LayersDone, CopyModules, InsertFile, FilesDone, WriteIso,
         GenGptDisk, FillDisk, Unwind, StepFails
<1> QED
  BY <1>1, <1>2, OtherKit

LEMMA NextIInv == IInv /\ [Next]_vars => IInv'
<1> SUFFICES ASSUME IInv, [Next]_vars PROVE IInv'
  OBVIOUS
<1>1. CASE KitStep
  BY <1>1, KitType, KitVerdict, KitDirs, KitContent DEF IInv
<1>2. CASE TreeStep
  BY <1>2, TreeType, TreeVerdict, TreeDirs, LaterContent DEF IInv
<1>3. CASE ImageStep
  BY <1>3, ImageType, ImageVerdict, ImageDirs, LaterContent DEF IInv
<1>4. CASE Terminated \/ UNCHANGED vars
  BY <1>4 DEF Terminated, vars, dirvars, treevars, IInv, TypeOK, VerdictInv, OutputInv, LeakInv, MountInv, KitInv,
              Unsquashing
<1> QED
  BY <1>1, <1>2, <1>3, <1>4 DEF Next

\* The invariant, step by step of the run.
THEOREM Invariance == Spec => []IInv
  BY InitIInv, NextIInv, PTL DEF Spec

\* Every variable keeps its type, and the loop over the layers its bounds.
THEOREM TypeCorrect == Spec => []TypeOK
<1>1. IInv => TypeOK
  BY DEF IInv
<1> QED
  BY Invariance, <1>1, PTL

\* Whatever fails, only the known reasons leave a temporary directory behind.
THEOREM LeaksAreKnown == Spec => []OnlyKnownLeaks
<1>1. IInv => OnlyKnownLeaks
  BY DEF IInv, LeakInv, OnlyKnownLeaks
<1> QED
  BY Invariance, <1>1, PTL

\* The kit's mount is undone, or the run fails with its directory in place.
THEOREM MountUndone == Spec => []MountIsUndone
<1>1. IInv => MountIsUndone
  BY DEF IInv, MountInv, MountIsUndone
<1> QED
  BY Invariance, <1>1, PTL

\* The boot kit is what its image says, for every list of layers and every user:
\* only unsquashfs, faced with whiteouts, makes more of it.
THEOREM KitIsOverlay == Spec => []KitIsItsOverlay
<1>1. IInv => KitIsItsOverlay
  <2> SUFFICES ASSUME IInv, kitDir # Empty PROVE KitIsItsOverlay
    BY DEF KitIsItsOverlay
  <2>1. applied = Len(request.kit)
    BY DEF IInv, KitInv
  <2>2. Unsquashing => WhiteoutsIgnored
    BY <2>1 DEF Unsquashing, WhiteoutsIgnored, AllOfKind
  <2> QED
    BY <2>1, <2>2 DEF IInv, KitInv, KitIsItsOverlay
<1> QED
  BY Invariance, <1>1, PTL

-----------------------------------------------------------------------------
\* Every step is a step of Publish or leaves the output and the verdict alone.
LEMMA PublishStep == IInv /\ [Next]_vars => [Handed!Next]_(Handed!vars)
<1> SUFFICES ASSUME IInv, [Next]_vars PROVE [Handed!Next]_(Handed!vars)
  OBVIOUS
<1> USE DEF IInv, TypeOK, OutputInv, VerdictInv, Handed!Next, Handed!vars, Handed!Spoil, Handed!Complete,
            Handed!Succeed, Handed!GiveUp
<1>1. CASE KitStep
  <2>1. output' = output /\ phase # "done" /\ (phase' = "done" => output = "old" /\ result' = "fatal")
    BY <1>1 DEF KitStep, Start, GetBootKit, PullKit, UnpackLayer, MountMolecule, CopyOut, RenameEntries,
                LocateKit, MakeTemp, UnpackTar, UnpackNothing, ExtractSquash
  <2> QED
    BY <2>1
<1>2. CASE TreeStep
  <2>1. output' = output /\ phase # "done" /\ (phase' = "done" => output = "old" /\ result' = "fatal")
    BY <1>2 DEF TreeStep, MakeCreateDir, MakeEspDir, PopulateEFI, GenESP, TruncateFails, CopyBootLayer,
                SyncRepo, CopyLayer, LayersDone, CopyModules, InsertFile, FilesDone, MakeTemp
  <2> QED
    BY <2>1
<1>3. CASE WriteIso
  BY <1>3 DEF WriteIso
<1>4. CASE GenGptDisk
  BY <1>4 DEF GenGptDisk
<1>5. CASE FillDisk
  BY <1>5 DEF FillDisk
<1>6. CASE Unwind
  BY <1>6 DEF Unwind
<1>7. CASE StepFails
  BY <1>7 DEF StepFails
<1>8. CASE Terminated \/ UNCHANGED vars
  BY <1>8 DEF Terminated, vars
<1> QED
  BY <1>1, <1>2, <1>3, <1>4, <1>5, <1>6, <1>7, <1>8 DEF Next, ImageStep

\* oci-boot implements Publish: success is reported exactly for a whole image.
THEOREM Implements == Spec => KeepsPublishPromise
<1>1. Init => Handed!Init
  BY DEF Init, Handed!Init
<1> QED
  BY <1>1, Invariance, PublishStep, PTL DEF Spec, KeepsPublishPromise, Handed!Spec

-----------------------------------------------------------------------------
(* Short sequences, and the last of some positions.                        *)

LEMMA Elements == ASSUME NEW s, IsSeq(s) PROVE s \in Seq({s[k] : k \in 1 .. Len(s)})
  BY DEF IsSeq

LEMMA SeqIsPair == ASSUME NEW S, NEW s \in Seq(S), Len(s) = 2 PROVE s = <<s[1], s[2]>>
  OBVIOUS

LEMMA SeqIsTriple == ASSUME NEW S, NEW s \in Seq(S), Len(s) = 3 PROVE s = <<s[1], s[2], s[3]>>
  OBVIOUS

LEMMA SeqIsOne == ASSUME NEW S, NEW s \in Seq(S), Len(s) = 1 PROVE s = <<s[1]>>
  OBVIOUS

LEMMA OneAndOne == ASSUME NEW a, NEW b PROVE <<a>> \o <<b>> = <<a, b>>
<1> DEFINE S == {a, b}
           s == <<a>> \o <<b>>
<1>1. <<a>> \in Seq(S) /\ <<b>> \in Seq(S)
  OBVIOUS
<1>2. s \in Seq(S) /\ Len(s) = 2 /\ \A i \in 1 .. 2 : s[i] = IF i <= 1 THEN <<a>>[i] ELSE <<b>>[i - 1]
  <2> HIDE DEF S
  <2> QED
    BY <1>1, ConcatProperties
<1> HIDE DEF s
<1>3. s[1] = a /\ s[2] = b
  BY <1>2
<1>4. s = <<a, b>>
  BY <1>2, <1>3, SeqIsPair
<1> QED
  BY <1>4 DEF s

LEMMA OneAndTwo == ASSUME NEW a, NEW b, NEW c PROVE <<a>> \o <<b, c>> = <<a, b, c>>
<1> DEFINE S == {a, b, c}
           s == <<a>> \o <<b, c>>
<1>1. <<a>> \in Seq(S) /\ <<b, c>> \in Seq(S)
  OBVIOUS
<1>2. s \in Seq(S) /\ Len(s) = 3 /\ \A i \in 1 .. 3 : s[i] = IF i <= 1 THEN <<a>>[i] ELSE <<b, c>>[i - 1]
  <2> HIDE DEF S
  <2> QED
    BY <1>1, ConcatProperties
<1> HIDE DEF s
<1>3. s[1] = a /\ s[2] = b /\ s[3] = c
  BY <1>2
<1>4. s = <<a, b, c>>
  BY <1>2, <1>3, SeqIsTriple
<1> QED
  BY <1>4 DEF s

LEMMA BelowOne == ASSUME NEW S, NEW d \in Seq(S), Len(d) >= 1, NEW x PROVE IsBelow(<<x>>, d) <=> d[1] = x
<1>1. SubSeq(d, 1, 1) \in Seq(S) /\ Len(SubSeq(d, 1, 1)) = 1 /\ SubSeq(d, 1, 1)[1] = d[1]
  OBVIOUS
<1>2. SubSeq(d, 1, 1) = <<d[1]>>
  BY <1>1, SeqIsOne
<1>3. Len(<<x>>) = 1 /\ Len(d) \in Nat
  OBVIOUS
<1> QED
  BY <1>2, <1>3 DEF IsBelow

LEMMA BelowPair == ASSUME NEW a, NEW b, NEW x PROVE IsBelow(<<x>>, <<a, b>>) <=> x = a
<1> DEFINE d == <<a, b>>
<1>1. d \in Seq({a, b}) /\ Len(d) = 2 /\ d[1] = a
  OBVIOUS
<1> HIDE DEF d
<1>2. IsBelow(<<x>>, d) <=> x = a
  BY <1>1, BelowOne
<1> QED
  BY <1>2 DEF d

LEMMA BelowSingle == ASSUME NEW a, NEW x PROVE IsBelow(<<x>>, <<a>>) <=> x = a
<1> DEFINE d == <<a>>
<1>1. d \in Seq({a}) /\ Len(d) = 1 /\ d[1] = a
  OBVIOUS
<1> HIDE DEF d
<1>2. IsBelow(<<x>>, d) <=> x = a
  BY <1>1, BelowOne
<1> QED
  BY <1>2 DEF d

LEMMA TailOfPair == ASSUME NEW s, IsSeq(s), Len(s) = 2 PROVE Tail(s) = <<s[2]>>
<1> DEFINE S == {s[k] : k \in 1 .. Len(s)}
<1>1. s \in Seq(S) /\ s # << >>
  BY Elements
<1>2. Tail(s) \in Seq(S) /\ Len(Tail(s)) = 1 /\ Tail(s)[1] = s[2]
  <2> HIDE DEF S
  <2>1. Tail(s) \in Seq(S) /\ Len(Tail(s)) = Len(s) - 1 /\ \A i \in 1 .. Len(Tail(s)) : Tail(s)[i] = s[i + 1]
    BY <1>1, HeadTailProperties
  <2>2. Len(Tail(s)) = 1
    BY <2>1
  <2>3. Tail(s)[1] = s[1 + 1]
    <3>1. 1 \in 1 .. Len(Tail(s))
      BY <2>2
    <3> QED
      BY <2>1, <3>1
  <2>4. 1 + 1 = 2
    OBVIOUS
  <2> QED
    BY <2>1, <2>2, <2>3, <2>4
<1> QED
  BY <1>2, SeqIsOne

LEMMA TailOfTriple == ASSUME NEW s, IsSeq(s), Len(s) = 3 PROVE Tail(s) = <<s[2], s[3]>>
<1> DEFINE S == {s[k] : k \in 1 .. Len(s)}
<1>1. s \in Seq(S) /\ s # << >>
  BY Elements
<1>2. Tail(s) \in Seq(S) /\ Len(Tail(s)) = 2 /\ Tail(s)[1] = s[2] /\ Tail(s)[2] = s[3]
  <2> HIDE DEF S
  <2>1. Tail(s) \in Seq(S) /\ Len(Tail(s)) = Len(s) - 1 /\ \A i \in 1 .. Len(Tail(s)) : Tail(s)[i] = s[i + 1]
    BY <1>1, HeadTailProperties
  <2> QED
    BY <2>1
<1> QED
  BY <1>2, SeqIsPair
\* Of some positions in a list one is the last.
LEMMA LastExists ==
    ASSUME NEW n \in Nat, NEW S \in SUBSET (1 .. n), S # {}
    PROVE  \E m \in S : \A j \in m + 1 .. n : j \notin S
<1> DEFINE Above(i) == {j \in S : j > i}
           T == {Above(i) : i \in S}
<1>1. IsFiniteSet(S)
  <2>1. IsFiniteSet(1 .. n)
    BY FS_Interval
  <2> QED
    BY <2>1, FS_Subset
<1>2. IsWellFoundedOn(StrictSubsetOrdering(S), SUBSET S)
  BY <1>1, FS_StrictSubsetOrderingWellFounded, FS_FiniteSubsetsOfFinite
<1>3. T \subseteq SUBSET S /\ T # {}
  OBVIOUS
<1> HIDE DEF T
<1>4. PICK x \in T : \A y \in T : <<y, x>> \notin StrictSubsetOrdering(S)
  BY <1>2, <1>3, WFMin
<1>5. PICK m \in S : x = Above(m)
  BY DEF T
<1>6. ASSUME NEW j \in m + 1 .. n, j \in S PROVE FALSE
  <2>1. Above(j) \in T
    BY <1>6 DEF T
  <2>2. Above(j) \subseteq x /\ Above(j) # x /\ Above(j) \subseteq S /\ x \subseteq S
    <3>2. S \subseteq Int /\ m \in Int /\ j \in Int /\ j > m
      BY <1>6
    <3>3. j \in Above(m) /\ j \notin Above(j)
      BY <1>6, <3>2
    <3>4. \A k \in S : k > j => k > m
      BY <3>2
    <3>1. Above(j) \subseteq Above(m)
      BY <3>4
    <3> QED
      BY <1>5, <3>1, <3>3
  <2> QED
    BY <1>4, <2>1, <2>2 DEF StrictSubsetOrdering
<1> QED
  BY <1>6

-----------------------------------------------------------------------------
(* The tree.  What is in it is what the steps done so far were asked for;   *)
(* the EFI files are where the firmware reads once PopulateEFI is done.     *)

\* What the command line asks for, by the step that copies it.
BootWants == {[at |-> TargetPlace(BootLayer), from |-> SourcePlace(request.boot[i], request.images)] :
                 i \in 1 .. Len(request.boot)}
LayerWant(i) == [at |-> TargetPlace(InImage(request.layers[i])),
                 from |-> SourcePlace(request.layers[i], request.images)]
LayerWants(n) == {LayerWant(i) : i \in 1 .. n}
RepoWant == [at |-> RepoDest, from |-> Place(<<RepoDir>>, << >>)]
RepoWants == {RepoWant : i \in 1 .. Len(request.repos)}
ModuleWant == [at |-> ModulesDest, from |-> KitFile("modules.squashfs")]
InsertWant(i) == [at |-> request.inserts[i].dest, from |-> Place(<<"host">>, <<request.inserts[i].src>>)]
InsertWants(left) == {InsertWant(i) : i \in {j \in LastInserts(request) : request.inserts[j].src \notin left}}

\* Which of the steps are done: the EFI files come before them for an iso, and
\* after them for a disk.
Success == phase \in Ending /\ result = "ok"
Last == {"iso", "disk", "mcopy"} \cup (IF request.cdrom THEN {} ELSE {"efi"})
HasInserts == phase \in Last \/ Success
HasModules == phase = "files" \/ HasInserts
HasLayers  == phase = "modules" \/ HasModules
HasRepo    == phase = "layers" \/ HasLayers
HasBoot    == phase = "repo" \/ HasRepo
HasEfi     == \/ phase \in {"disk", "iso", "mcopy"} \/ Success
              \/ request.cdrom /\ phase \in {"genesp", "boot", "repo", "layers", "modules", "files"}

Done == (IF HasBoot THEN BootWants ELSE {})
        \cup (IF HasRepo THEN RepoWants ELSE {})
        \cup LayerWants(next - 1)
        \cup (IF HasModules THEN {ModuleWant} ELSE {})
        \cup (IF phase = "start" THEN {} ELSE InsertWants(todo))

IsTool(p) == IsBelow(<<"efi">>, p.dir) \/ p = Place(<< >>, <<"kernel.efi">>) \/ p = ESPImage

\* All that was asked for is in the tree, and what is in it was asked for or is
\* the tool's.
HoldsWants(tree, wants) ==
    /\ \A w \in wants : w.at \in DOMAIN tree
    /\ \A p \in DOMAIN tree : IsTool(p) \/ \E w \in wants : w.at = p /\ tree[p] = w.from

\* The script is in the tree, and in a shim boot the programs it runs are.
HoldsEfi(tree) ==
    /\ Startup \in DOMAIN tree /\ tree[Startup] = Script(Programs, FullCmdline)
    /\ BootMode = "efi-shim" =>
          \A f \in {"shim.efi", "kernel.efi"} :
              LET p == Place(EFIBootDir, <<f>>) IN p \in DOMAIN tree /\ tree[p] = KitFile(f)

StageInv ==
    /\ phase \in {"imgdir", "genesp", "iso"} => request.cdrom
    /\ phase \in {"disk", "mcopy"} => ~request.cdrom
    /\ HasInserts => todo = {}
    /\ HasLayers => next = Len(request.layers) + 1
    /\ HasModules => KitHas("modules.squashfs")

TreeInv ==
    /\ StageInv
    /\ result \in {"none", "ok"} => HoldsWants(staged, Done)
    /\ HasEfi => HoldsEfi(FirmwareTree)

-----------------------------------------------------------------------------
(* Writing to the tree.                                                    *)

LEMMA PutWant ==
    ASSUME NEW tree, NEW wants, NEW w, HoldsWants(tree, wants)
    PROVE  HoldsWants(Put(tree, w.at, w.from), wants \cup {w})
  BY DEF HoldsWants, Put

LEMMA PutTool ==
    ASSUME NEW tree, NEW wants, NEW p, NEW x, IsTool(p), HoldsWants(tree, wants)
    PROVE  HoldsWants(Put(tree, p, x), wants)
  BY DEF HoldsWants, Put

LEMMA EfiPlaces ==
    /\ \A name : IsTool(Place(EFIBootDir, name))
    /\ IsTool(Startup) /\ IsTool(ESPImage) /\ IsTool(Place(<< >>, <<"kernel.efi">>))
    /\ Startup # Place(EFIBootDir, <<"shim.efi">>) /\ Startup # Place(EFIBootDir, <<"kernel.efi">>)
    /\ Place(EFIBootDir, <<"kernel.efi">>) # Place(EFIBootDir, <<"shim.efi">>)
    /\ Startup # Place(<< >>, <<"kernel.efi">>)
<1>1. IsBelow(<<"efi">>, EFIBootDir)
  BY BelowPair DEF EFIBootDir
<1>2. \A name : IsTool(Place(EFIBootDir, name))
  BY <1>1 DEF IsTool, Place
<1>3. Startup.name = <<"startup.nsh">>
  BY DEF Startup, Place
<1>4. <<"startup.nsh">> # <<"shim.efi">> /\ <<"startup.nsh">> # <<"kernel.efi">> /\ <<"kernel.efi">> # <<"shim.efi">>
  OBVIOUS
<1>5. \A d, n : Place(d, n).name = n
  BY DEF Place
<1>6. IsTool(Startup)
  BY <1>2 DEF Startup
<1>7. IsTool(ESPImage) /\ IsTool(Place(<< >>, <<"kernel.efi">>))
  BY DEF IsTool
<1> QED
  BY <1>2, <1>3, <1>4, <1>5, <1>6, <1>7

LEMMA CopiesAre ==
    /\ \A p \in DOMAIN Copies : IsTool(p) /\ p # Startup
    /\ BootMode = "efi-shim" =>
          \A f \in {"shim.efi", "kernel.efi"} :
              LET p == Place(EFIBootDir, <<f>>) IN p \in DOMAIN Copies /\ Copies[p] = KitFile(f)
<1>1. CASE BootMode = "efi-shim"
  <2> DEFINE shim == Place(EFIBootDir, <<"shim.efi">>)
             kernel == Place(EFIBootDir, <<"kernel.efi">>)
  <2>1. Copies = Put(Put(NoTree, shim, KitFile("shim.efi")), kernel, KitFile("kernel.efi"))
    BY <1>1 DEF Copies
  <2>2. /\ IsTool(shim) /\ IsTool(kernel) /\ shim # Startup /\ kernel # Startup /\ kernel # shim
    BY EfiPlaces
  <2> HIDE DEF shim, kernel
  <2>3. /\ DOMAIN Copies = {shim, kernel}
        /\ Copies[shim] = KitFile("shim.efi") /\ Copies[kernel] = KitFile("kernel.efi")
    BY <2>1, <2>2 DEF Put, NoTree
  <2> QED
    BY <2>2, <2>3 DEF shim, kernel
<1>2. CASE BootMode # "efi-shim"
  <2>1. DOMAIN Copies = {Place(<< >>, <<"kernel.efi">>)}
    BY <1>2 DEF Copies, Put, NoTree
  <2> QED
    BY <1>2, <2>1, EfiPlaces
<1> QED
  BY <1>1, <1>2

LEMMA WithEFIIs ==
    ASSUME NEW tree
    PROVE  /\ HoldsEfi(WithEFI(tree))
           /\ \A wants : HoldsWants(tree, wants) => HoldsWants(WithEFI(tree), wants)
<1> DEFINE all == Put(Copies, Startup, Script(Programs, FullCmdline))
           new == WithEFI(tree)
<1>1. /\ DOMAIN all = DOMAIN Copies \cup {Startup} /\ all[Startup] = Script(Programs, FullCmdline)
      /\ \A p \in DOMAIN Copies : all[p] = Copies[p]
  BY CopiesAre DEF Put
<1>2. /\ DOMAIN new = DOMAIN tree \cup DOMAIN all
      /\ \A p \in DOMAIN new : new[p] = IF p \in DOMAIN all THEN all[p] ELSE tree[p]
  BY DEF WithEFI
<1> HIDE DEF all, new
<1>3. \A p \in DOMAIN all : IsTool(p)
  BY <1>1, CopiesAre, EfiPlaces
<1>4. HoldsEfi(new)
  BY <1>1, <1>2, CopiesAre DEF HoldsEfi
<1>5. ASSUME NEW wants, HoldsWants(tree, wants) PROVE HoldsWants(new, wants)
  BY <1>2, <1>3, <1>5 DEF HoldsWants
<1> QED
  BY <1>4, <1>5 DEF new

\* The directory efi is all of the ESP that mcopy takes.
LEMMA EfiIsKept ==
    ASSUME NEW tree, HoldsEfi(tree)
    PROVE  HoldsEfi([p \in {q \in DOMAIN tree : IsBelow(<<"efi">>, q.dir)} |-> tree[p]])
<1> DEFINE kept == [p \in {q \in DOMAIN tree : IsBelow(<<"efi">>, q.dir)} |-> tree[p]]
<1>1. \A name : IsBelow(<<"efi">>, Place(EFIBootDir, name).dir)
  BY BelowPair DEF EFIBootDir, Place
<1>2. \A name : Place(EFIBootDir, name) \in DOMAIN tree =>
                   /\ Place(EFIBootDir, name) \in DOMAIN kept
                   /\ kept[Place(EFIBootDir, name)] = tree[Place(EFIBootDir, name)]
  BY <1>1
<1> HIDE DEF kept
<1>3. HoldsEfi(kept)
  BY <1>2 DEF HoldsEfi, Startup
<1> QED
  BY <1>3 DEF kept

\* doCopy writes a layer where its reference is read in the image, with or
\* without a name.
LEMMA LayerDestIs ==
    ASSUME NEW ref, IsSeq(ref), IsOciRef(ref)
    PROVE  TargetPlace(LayerDest(ref)) = TargetPlace(InImage(ref))
<1> DEFINE oci == <<"oci">>
<1>1. CASE Len(ref) = 2
  <2>1. LayerDest(ref) = <<oci, ref[2]>>
    BY <1>1, OneAndOne DEF LayerDest, NameAndTag, OciPath
  <2>2. InImage(ref) = <<oci, ref[2]>>
    BY <1>1, TailOfPair, OneAndOne DEF InImage
  <2> QED
    BY <2>1, <2>2
<1>2. CASE Len(ref) = 3
  <2>1. InImage(ref) = <<oci, ref[2], ref[3]>>
    BY <1>2, TailOfTriple, OneAndTwo DEF InImage
  <2>2. CASE ref[2] # Empty
    <3>1. LayerDest(ref) = <<oci, ref[2], ref[3]>>
      BY <1>2, <2>2, OneAndTwo DEF LayerDest, NameAndTag, OciPath
    <3> QED
      BY <2>1, <3>1
  <2>3. CASE ref[2] = Empty
    <3>1. LayerDest(ref) = <<oci, ref[3]>>
      BY <1>2, <2>3, OneAndOne DEF LayerDest, NameAndTag, OciPath
    <3>2. TargetPlace(<<oci, ref[3]>>) = Place(oci, <<ref[3]>>)
      BY DEF TargetPlace, PlaceOf, OciDir, RefName, OciPath
    <3>3. TargetPlace(<<oci, Empty, ref[3]>>) = Place(oci, <<ref[3]>>)
      BY DEF TargetPlace, PlaceOf, OciDir, RefName, OciPath
    <3> QED
      BY <2>1, <2>3, <3>1, <3>2, <3>3
  <2> QED
    BY <2>2, <2>3
<1> QED
  BY <1>1, <1>2 DEF IsOciRef

\* Of the inserts of one source the last counts.
LEMMA InsertIsLast ==
    ASSUME NEW r, Len(r.inserts) \in Nat, NEW src \in Sources(r)
    PROVE  \E i \in LastInserts(r) :
              /\ r.inserts[i].src = src /\ Insert(r, src) = r.inserts[i].dest
              /\ \A j \in LastInserts(r) : r.inserts[j].src = src => j = i
<1> DEFINE n == Len(r.inserts)
           S == {i \in 1 .. n : r.inserts[i].src = src}
           IsLastOf(i) == r.inserts[i].src = src /\ \A j \in i + 1 .. n : r.inserts[j].src # src
<1>1. S \in SUBSET (1 .. n) /\ S # {}
  BY DEF Sources
<1>2. PICK m \in S : \A j \in m + 1 .. n : j \notin S
  <2> HIDE DEF S
  <2> QED
    BY <1>1, LastExists
<1>3. m \in 1 .. n /\ IsLastOf(m)
  <2>1. \A j \in m + 1 .. n : j \in 1 .. n
    BY <1>2
  <2> QED
    BY <1>2, <2>1
<1> DEFINE last == CHOOSE i \in 1 .. n : IsLastOf(i)
<1>4. last \in 1 .. n /\ IsLastOf(last)
  BY <1>3
<1>5. Insert(r, src) = r.inserts[last].dest
  BY DEF Insert
<1> HIDE DEF last
<1>6. last \in LastInserts(r)
  BY <1>4 DEF LastInserts
<1>7. ASSUME NEW j \in LastInserts(r), r.inserts[j].src = src PROVE j = last
  <2>1. j \in 1 .. n /\ \A k \in j + 1 .. n : r.inserts[k].src # src
    BY <1>7 DEF LastInserts
  <2>2. j \in Int /\ last \in Int /\ n \in Int
    BY <1>4, <2>1
  <2>3. ~(j < last)
    BY <1>4, <2>1, <2>2
  <2>4. ~(last < j)
    BY <1>4, <1>7, <2>1, <2>2
  <2> QED
    BY <2>2, <2>3, <2>4
<1> QED
  BY <1>4, <1>5, <1>6, <1>7

-----------------------------------------------------------------------------
(* The steps keep TreeInv.                                                 *)

\* A run that fails has nothing more to show.
LEMMA FailedTree == ASSUME phase' \in Ending, result' \in {"error", "fatal"} PROVE TreeInv'
  BY DEF TreeInv, StageInv, HasEfi, HasInserts, HasModules, HasLayers, Success, Last

\* What is wanted, and from where, is settled with the kit.
LEMMA WantsStay ==
    ASSUME UNCHANGED <<request, kitvars>>
    PROVE  /\ BootWants' = BootWants /\ RepoWants' = RepoWants /\ ModuleWant' = ModuleWant
           /\ KitHas("modules.squashfs")' = KitHas("modules.squashfs")
  BY DEF BootWants, RepoWants, RepoWant, RepoDir, ModuleWant, KitFile, KitHas, KitPath

LEMMA ListsStay ==
    ASSUME request' = request
    PROVE  /\ LayerWants(next - 1)' = LayerWants(next' - 1)
           /\ InsertWants(todo)' = InsertWants(todo')
  BY DEF LayerWants, LayerWant, InsertWants, InsertWant

LEMMA EfiStays ==
    ASSUME UNCHANGED <<request, kitvars>>, HoldsEfi(FirmwareTree')
    PROVE  HoldsEfi(FirmwareTree)'
  BY DEF HoldsEfi, Script, Programs, FullCmdline, BootMode, KitHas, KitFile, KitPath

LEMMA InitTree == Init => TreeInv
<1> SUFFICES ASSUME Init PROVE TreeInv
  OBVIOUS
<1>1. phase = "start" /\ next = 1 /\ staged = NoTree /\ result = "none"
  BY DEF Init
<1>2. Done = {}
  BY <1>1 DEF Done, HasBoot, HasRepo, HasLayers, HasModules, HasInserts, Last, Success, LayerWants
<1>3. HoldsWants(staged, {})
  BY <1>1 DEF HoldsWants, NoTree
<1> QED
  BY <1>1, <1>2, <1>3 DEF TreeInv, StageInv, HasEfi, HasInserts, HasModules, HasLayers, Success, Last

LEMMA KitTree == ASSUME IInv, TreeInv, KitStep PROVE TreeInv'
<1>1. /\ result' \in {"none", "error", "fatal"} /\ UNCHANGED <<request, next, treevars>>
      /\ phase \in KitPhases /\ result = "none"
      /\ result' = "none" => phase' \in (KitPhases \ {"start"}) \cup {"create"}
      /\ result' # "none" => phase' \in Ending
  <2>1. phase \in KitPhases /\ phase' \in KitPhases \cup {"create"} \cup Ending /\ phase' # "start"
    BY DEF KitStep, Start, GetBootKit, PullKit, UnpackLayer, UnpackTar, UnpackNothing, ExtractSquash,
           MountMolecule, CopyOut, RenameEntries, LocateKit, MakeTemp
  <2>2. result' \in {"none", "error", "fatal"} /\ result = "none"
    <3>1. result = "none"
      BY <2>1 DEF IInv, VerdictInv
    <3> QED
      BY <3>1 DEF KitStep, Start, GetBootKit, PullKit, UnpackLayer, UnpackTar, UnpackNothing,
                  ExtractSquash, MountMolecule, CopyOut, RenameEntries, LocateKit, MakeTemp
  <2>3. UNCHANGED <<request, next, treevars>>
    BY DEF KitStep, Start, GetBootKit, PullKit, UnpackLayer, UnpackTar, UnpackNothing,
           ExtractSquash, MountMolecule, CopyOut, RenameEntries, LocateKit
  <2>4. VerdictInv'
    BY KitVerdict
  <2> QED
    BY <2>1, <2>2, <2>3, <2>4 DEF VerdictInv
<1>2. CASE result' # "none"
  BY <1>1, <1>2, FailedTree
<1>3. CASE result' = "none"
  <2>1. /\ ~HasBoot /\ ~HasRepo /\ ~HasModules
        /\ ~HasBoot' /\ ~HasRepo' /\ ~HasLayers' /\ ~HasModules' /\ ~HasInserts' /\ ~HasEfi'
    BY <1>1, <1>3 DEF HasBoot, HasRepo, HasLayers, HasModules, HasInserts, HasEfi, Last, Success
  <2>2. Done = LayerWants(next - 1) \cup (IF phase = "start" THEN {} ELSE InsertWants(todo))
    BY <2>1 DEF Done
  <2>3. Done' = LayerWants(next' - 1) \cup InsertWants(todo')
    BY <1>1, <1>3, <2>1, ListsStay DEF Done
  <2>4. InsertWants(todo') = IF phase = "start" THEN {} ELSE InsertWants(todo)
    <3>1. CASE Start
      <4>1. todo' = Sources(request) /\ phase = "start"
        BY <3>1 DEF Start
      <4> QED
        BY <4>1 DEF InsertWants, Sources, LastInserts
    <3>2. CASE ~Start
      <4>1. todo' = todo /\ phase # "start"
        BY <3>2 DEF KitStep, GetBootKit, PullKit, UnpackLayer, UnpackTar, UnpackNothing,
                    ExtractSquash, MountMolecule, CopyOut, RenameEntries, LocateKit
      <4> QED
        BY <4>1
    <3> QED
      BY <3>1, <3>2
  <2>5. Done' = Done
    BY <1>1, <2>2, <2>3, <2>4
  <2>6. HoldsWants(staged', Done')
    BY <1>1, <2>5 DEF TreeInv, treevars
  <2> QED
    BY <1>1, <1>3, <2>1, <2>6 DEF TreeInv, StageInv, HoldsWants, IsTool
<1> QED
  BY <1>2, <1>3

\* A step that copies nothing of what is wanted.
LEMMA DoneStays ==
    ASSUME UNCHANGED <<request, kitvars, next, todo>>, phase # "start", phase' # "start",
           HasBoot' <=> HasBoot, HasRepo' <=> HasRepo, HasModules' <=> HasModules
    PROVE  Done' = Done
<1>1. BootWants' = BootWants /\ RepoWants' = RepoWants /\ ModuleWant' = ModuleWant
  BY WantsStay
<1>2. LayerWants(next - 1)' = LayerWants(next - 1) /\ InsertWants(todo)' = InsertWants(todo)
  BY ListsStay
<1> QED
  BY <1>1, <1>2 DEF Done

USE DEF HasBoot, HasRepo, HasLayers, HasModules, HasInserts, HasEfi, Last, Success

\* A step that leaves the tree alone and moves on where nothing is copied.
LEMMA MovesOn ==
    ASSUME IInv, TreeInv, UNCHANGED <<request, kitvars, next, todo, staged>>,
           phase # "start", phase' # "start", result \in {"none", "ok"},
           HasBoot' <=> HasBoot, HasRepo' <=> HasRepo, HasModules' <=> HasModules,
           StageInv', HasEfi' => HoldsEfi(FirmwareTree')
    PROVE  TreeInv'
<1>1. Done' = Done
  <2> HIDE DEF HasBoot, HasRepo, HasModules
  <2> QED
    BY DoneStays
<1>2. HoldsWants(staged', Done')
  BY <1>1 DEF TreeInv
<1>3. HasEfi' => HoldsEfi(FirmwareTree)'
  BY EfiStays
<1> QED
  BY <1>2, <1>3 DEF TreeInv, HoldsWants, IsTool

LEMMA DirsTree == ASSUME IInv, TreeInv, MakeCreateDir \/ MakeEspDir PROVE TreeInv'
<1>1. /\ phase \in {"create", "imgdir"} /\ result = "none"
      /\ phase = "imgdir" => request.cdrom
      /\ UNCHANGED <<request, kitvars, next, todo, staged>>
  BY DEF MakeCreateDir, MakeEspDir, IInv, VerdictInv, TreeInv, StageInv, treevars
<1>2. CASE phase' = "unwind" /\ result' = "error"
  BY <1>2, FailedTree
<1>3. CASE result' = "none" /\ phase' = IF phase = "create" THEN IF request.cdrom THEN "imgdir" ELSE "boot" ELSE "efi"
  <2>1. StageInv'
    BY <1>1, <1>3 DEF StageInv
  <2>2. /\ HasBoot' <=> HasBoot
        /\ HasRepo' <=> HasRepo
        /\ HasModules' <=> HasModules
        /\ ~HasEfi' /\ phase' # "start"
    BY <1>1, <1>3
  <2> HIDE DEF HasBoot, HasRepo, HasModules, HasEfi
  <2> QED
    BY <1>1, <2>1, <2>2, MovesOn
<1> QED
  BY <1>1, <1>2, <1>3 DEF MakeCreateDir, MakeEspDir, MakeTemp

LEMMA PopulateTree == ASSUME IInv, TreeInv, PopulateEFI PROVE TreeInv'
<1>1. /\ phase = "efi" /\ result = "none" /\ result' = "none" /\ UNCHANGED <<request, kitvars, next, todo>>
      /\ request.cdrom \in BOOLEAN
  BY RequestsAssumption DEF PopulateEFI, IInv, VerdictInv, TypeOK
<1>2. CASE request.cdrom
  <2>1. phase' = "genesp" /\ staged' = staged /\ esp' = WithEFI(esp)
    BY <1>2 DEF PopulateEFI
  <2>2. StageInv'
    BY <1>1, <1>2, <2>1 DEF StageInv
  <2>3. HoldsEfi(FirmwareTree')
    BY <1>1, <1>2, <2>1, WithEFIIs DEF FirmwareTree
  <2>4. /\ HasBoot' <=> HasBoot
        /\ HasRepo' <=> HasRepo
        /\ HasModules' <=> HasModules
    BY <1>1, <1>2, <2>1
  <2> HIDE DEF HasBoot, HasRepo, HasModules, HasEfi
  <2> QED
    BY <1>1, <2>1, <2>2, <2>3, <2>4, MovesOn
<1>3. CASE ~request.cdrom
  <2>1. phase' = "disk" /\ staged' = WithEFI(staged)
    BY <1>3 DEF PopulateEFI
  <2>2. StageInv'
    BY <1>1, <1>3, <2>1, WantsStay DEF StageInv, TreeInv
  <2>3. HoldsEfi(FirmwareTree')
    BY <1>1, <1>3, <2>1, WithEFIIs DEF FirmwareTree
  <2>4. /\ HasBoot' <=> HasBoot
        /\ HasRepo' <=> HasRepo
        /\ HasModules' <=> HasModules
        /\ phase' # "start" /\ phase # "start"
    BY <1>1, <1>3, <2>1
  <2> HIDE DEF HasBoot, HasRepo, HasModules, HasEfi
  <2>5. Done' = Done
    BY <1>1, <2>4, DoneStays
  <2>6. HoldsWants(staged', Done')
    BY <1>1, <2>1, <2>5, WithEFIIs DEF TreeInv
  <2>7. HasEfi' => HoldsEfi(FirmwareTree)'
    BY <1>1, <2>3, EfiStays
  <2> QED
    BY <2>2, <2>6, <2>7 DEF TreeInv, HoldsWants, IsTool
<1> QED
  BY <1>1, <1>2, <1>3

LEMMA GenESPTree == ASSUME IInv, TreeInv, GenESP PROVE TreeInv'
<1>1. /\ phase = "genesp" /\ phase' = "boot" /\ result = "none" /\ result' = "none"
      /\ UNCHANGED <<request, kitvars, next, todo>> /\ request.cdrom
  BY DEF GenESP, IInv, VerdictInv, TreeInv, StageInv
<1>2. StageInv'
  BY <1>1 DEF StageInv
<1>3. HoldsEfi(FirmwareTree')
  <2>1. HoldsEfi(esp)
    BY <1>1 DEF TreeInv, FirmwareTree
  <2>2. esp' = [p \in {q \in DOMAIN esp : IsBelow(<<"efi">>, q.dir)} |-> esp[p]]
    BY DEF GenESP
  <2>3. HoldsEfi(esp')
    BY <2>1, <2>2, EfiIsKept
  <2> QED
    BY <1>1, <2>3 DEF FirmwareTree
<1>4. /\ HasBoot' <=> HasBoot
      /\ HasRepo' <=> HasRepo
      /\ HasModules' <=> HasModules
      /\ phase' # "start" /\ phase # "start"
  BY <1>1
<1> HIDE DEF HasBoot, HasRepo, HasModules, HasEfi
<1>5. Done' = Done
  BY <1>1, <1>4, DoneStays
<1>6. HoldsWants(staged', Done')
  <2>1. staged' = Put(staged, ESPImage, Place(<<"esp">>, << >>))
    BY DEF GenESP
  <2> QED
    BY <1>1, <1>5, <2>1, PutTool, EfiPlaces DEF TreeInv
<1>7. HasEfi' => HoldsEfi(FirmwareTree)'
  BY <1>1, <1>3, EfiStays
<1> QED
  BY <1>2, <1>6, <1>7 DEF TreeInv, HoldsWants, IsTool

\* From the boot layer to the inserts: the ESP of an iso is there and stays.
Collecting == {"boot", "repo", "layers", "modules", "files"}

LEMMA CollectingEfi ==
    ASSUME TreeInv, phase \in Collecting, phase' \in Collecting \cup {"iso", "efi"}, StageInv',
           request' = request, esp' = esp
    PROVE  HasEfi' => HoldsEfi(FirmwareTree')
<1>1. HasEfi' => request.cdrom /\ HasEfi
  BY DEF Collecting, StageInv
<1>2. request.cdrom => FirmwareTree' = FirmwareTree
  BY DEF FirmwareTree
<1> HIDE DEF HasEfi
<1> QED
  BY <1>1, <1>2 DEF TreeInv

LEMMA AddsWant ==
    ASSUME TreeInv, UNCHANGED <<request, kitvars, esp>>, result = "none",
           phase \in Collecting, phase' \in Collecting, StageInv',
           NEW w, staged' = Put(staged, w.at, w.from), Done' = Done \cup {w}
    PROVE  TreeInv'
<1>1. HoldsWants(staged', Done')
  BY PutWant DEF TreeInv
<1>2. HasEfi' => HoldsEfi(FirmwareTree')
  BY CollectingEfi DEF Collecting
<1> HIDE DEF HasEfi
<1>3. HasEfi' => HoldsEfi(FirmwareTree)'
  BY <1>2, EfiStays
<1> QED
  BY <1>1, <1>3 DEF TreeInv, HoldsWants, IsTool

LEMMA AddsNothing ==
    ASSUME TreeInv, UNCHANGED <<request, kitvars, treevars>>, result = "none",
           phase \in Collecting, phase' \in Collecting \cup {"iso", "efi"}, StageInv', Done' = Done
    PROVE  TreeInv'
<1>1. HoldsWants(staged', Done')
  BY DEF TreeInv, treevars
<1>2. HasEfi' => HoldsEfi(FirmwareTree')
  BY CollectingEfi DEF treevars
<1> HIDE DEF HasEfi
<1>3. HasEfi' => HoldsEfi(FirmwareTree)'
  BY <1>2, EfiStays
<1> QED
  BY <1>1, <1>3 DEF TreeInv, HoldsWants, IsTool

LEMMA BootTree == ASSUME IInv, TreeInv, CopyBootLayer PROVE TreeInv'
<1>1. /\ phase = "boot" /\ phase' = "repo" /\ result = "none"
      /\ UNCHANGED <<request, kitvars, next, todo, esp>>
      /\ request.boot = << >> \/ request.boot = <<request.boot[1]>>
  BY RequestsAssumption DEF CopyBootLayer, IInv, VerdictInv, TypeOK
<1>2. StageInv'
  BY <1>1 DEF StageInv
<1>3. ~HasBoot /\ HasBoot' /\ ~HasRepo /\ ~HasRepo' /\ ~HasModules /\ ~HasModules'
  BY <1>1
<1>4. Done' = Done \cup BootWants
  <2> HIDE DEF HasBoot, HasRepo, HasModules
  <2>1. Done = LayerWants(next - 1) \cup InsertWants(todo)
    BY <1>1, <1>3 DEF Done
  <2>2. Done' = BootWants \cup LayerWants(next - 1) \cup InsertWants(todo)
    BY <1>1, <1>3, WantsStay, ListsStay DEF Done
  <2> QED
    BY <2>1, <2>2
<1>5. CASE request.boot = << >>
  <2>1. BootWants = {} /\ staged' = staged
    BY <1>5 DEF BootWants, CopyBootLayer
  <2> QED
    BY <1>1, <1>2, <1>4, <2>1, AddsNothing DEF Collecting, treevars
<1>6. CASE request.boot # << >>
  <2> DEFINE w == [at |-> TargetPlace(BootLayer), from |-> SourcePlace(request.boot[1], request.images)]
  <2>1. Len(request.boot) = 1
    <3> DEFINE ref == request.boot[1]
    <3>1. request.boot = <<ref>>
      BY <1>1, <1>6
    <3> HIDE DEF ref
    <3> QED
      BY <3>1
  <2>2. BootWants = {w}
    BY <2>1 DEF BootWants
  <2>3. staged' = Put(staged, w.at, w.from)
    BY <1>6 DEF CopyBootLayer, CopyImage
  <2> HIDE DEF w
  <2> QED
    BY <1>1, <1>2, <1>4, <2>2, <2>3, AddsWant DEF Collecting
<1> QED
  BY <1>5, <1>6

LEMMA RepoTree == ASSUME IInv, TreeInv, SyncRepo PROVE TreeInv'
<1>1. /\ phase = "repo" /\ phase' = "layers" /\ result = "none"
      /\ UNCHANGED <<request, kitvars, next, todo, esp>>
      /\ request.repos \in Seq(STRING)
  BY RequestsAssumption DEF SyncRepo, IInv, VerdictInv, TypeOK
<1>2. StageInv'
  BY <1>1 DEF StageInv
<1>3. HasBoot /\ HasBoot' /\ ~HasRepo /\ HasRepo' /\ ~HasModules /\ ~HasModules'
  BY <1>1
<1>4. Done' = Done \cup RepoWants
  <2> HIDE DEF HasBoot, HasRepo, HasModules
  <2>1. Done = BootWants \cup LayerWants(next - 1) \cup InsertWants(todo)
    BY <1>1, <1>3 DEF Done
  <2>2. Done' = BootWants \cup RepoWants \cup LayerWants(next - 1) \cup InsertWants(todo)
    BY <1>1, <1>3, WantsStay, ListsStay DEF Done
  <2> QED
    BY <2>1, <2>2
<1>5. CASE request.repos = << >>
  <2>1. RepoWants = {} /\ staged' = staged
    BY <1>5 DEF RepoWants, SyncRepo
  <2> QED
    BY <1>1, <1>2, <1>4, <2>1, AddsNothing DEF Collecting, treevars
<1>6. CASE request.repos # << >>
  <2>1. Len(request.repos) \in Nat \ {0}
    BY <1>1, <1>6, EmptySeq
  <2>2. RepoWants = {RepoWant}
    BY <2>1 DEF RepoWants
  <2>3. staged' = Put(staged, RepoWant.at, RepoWant.from)
    BY <1>6 DEF SyncRepo, RepoWant
  <2> QED
    BY <1>1, <1>2, <1>4, <2>2, <2>3, AddsWant DEF Collecting
<1> QED
  BY <1>5, <1>6

LEMMA LayerTree == ASSUME IInv, TreeInv, CopyLayer PROVE TreeInv'
<1>1. /\ phase = "layers" /\ phase' = "layers" /\ result = "none"
      /\ UNCHANGED <<request, kitvars, todo, esp>> /\ next' = next + 1
      /\ next \in 1 .. Len(request.layers) /\ IsSeq(request.layers[next]) /\ IsOciRef(request.layers[next])
  <2>1. Len(request.layers) \in Nat
    BY RequestsAssumption DEF IInv, TypeOK, IsSeq
  <2>2. next \in 1 .. Len(request.layers)
    BY <2>1 DEF CopyLayer, IInv, TypeOK
  <2>3. IsSeq(request.layers[next])
    BY <2>2, RequestsAssumption DEF IInv, TypeOK
  <2> QED
    BY <2>2, <2>3 DEF CopyLayer, IInv, VerdictInv
<1>2. StageInv'
  BY <1>1 DEF StageInv
<1>3. HasBoot /\ HasBoot' /\ HasRepo /\ HasRepo' /\ ~HasModules /\ ~HasModules'
  BY <1>1
<1>4. LayerWants(next' - 1) = LayerWants(next - 1) \cup {LayerWant(next)}
  <2>1. 1 .. next' - 1 = (1 .. next - 1) \cup {next}
    BY <1>1
  <2> QED
    BY <2>1 DEF LayerWants
<1>5. Done' = Done \cup {LayerWant(next)}
  <2> HIDE DEF HasBoot, HasRepo, HasModules
  <2>1. Done = BootWants \cup RepoWants \cup LayerWants(next - 1) \cup InsertWants(todo)
    BY <1>1, <1>3 DEF Done
  <2>2. Done' = BootWants \cup RepoWants \cup LayerWants(next' - 1) \cup InsertWants(todo)
    BY <1>1, <1>3, WantsStay, ListsStay DEF Done
  <2> QED
    BY <1>4, <2>1, <2>2
<1>6. staged' = Put(staged, LayerWant(next).at, LayerWant(next).from)
  BY <1>1, LayerDestIs DEF CopyLayer, CopyImage, LayerWant
<1> QED
  BY <1>1, <1>2, <1>5, <1>6, AddsWant DEF Collecting

LEMMA LayersDoneTree == ASSUME IInv, TreeInv, LayersDone PROVE TreeInv'
<1>1. /\ phase = "layers" /\ phase' = "modules" /\ result = "none" /\ result' = "none"
      /\ UNCHANGED <<request, kitvars, next, todo, treevars>>
      /\ next = Len(request.layers) + 1
  BY RequestsAssumption DEF LayersDone, IInv, VerdictInv, TypeOK, IsSeq
<1>2. StageInv'
  BY <1>1 DEF StageInv
<1>3. /\ HasBoot' <=> HasBoot
      /\ HasRepo' <=> HasRepo
      /\ HasModules' <=> HasModules
      /\ phase' # "start" /\ phase # "start"
  BY <1>1
<1>4. Done' = Done
  <2> HIDE DEF HasBoot, HasRepo, HasModules
  <2> QED
    BY <1>1, <1>3, DoneStays
<1> QED
  BY <1>1, <1>2, <1>4, AddsNothing DEF Collecting

LEMMA ModulesTree == ASSUME IInv, TreeInv, CopyModules PROVE TreeInv'
<1>1. /\ phase = "modules" /\ phase' = "files" /\ result = "none" /\ result' = "none"
      /\ UNCHANGED <<request, kitvars, next, todo, esp>> /\ KitHas("modules.squashfs")
  BY DEF CopyModules, IInv, VerdictInv
<1>2. StageInv'
  BY <1>1, WantsStay DEF StageInv, TreeInv
<1>3. HasBoot /\ HasBoot' /\ HasRepo /\ HasRepo' /\ ~HasModules /\ HasModules'
  BY <1>1
<1>4. Done' = Done \cup {ModuleWant}
  <2> HIDE DEF HasBoot, HasRepo, HasModules
  <2>1. Done = BootWants \cup RepoWants \cup LayerWants(next - 1) \cup InsertWants(todo)
    BY <1>1, <1>3 DEF Done
  <2>2. Done' = BootWants \cup RepoWants \cup LayerWants(next - 1) \cup {ModuleWant} \cup InsertWants(todo)
    BY <1>1, <1>3, WantsStay, ListsStay DEF Done
  <2> QED
    BY <2>1, <2>2
<1>5. staged' = Put(staged, ModuleWant.at, ModuleWant.from)
  BY DEF CopyModules, ModuleWant
<1> QED
  BY <1>1, <1>2, <1>4, <1>5, AddsWant DEF Collecting

LEMMA InsertTree == ASSUME IInv, TreeInv, InsertFile PROVE TreeInv'
<1>1. /\ phase = "files" /\ phase' = "files" /\ result = "none" /\ result' = "none"
      /\ UNCHANGED <<request, kitvars, next, esp>> /\ todo \subseteq Sources(request)
      /\ Len(request.inserts) \in Nat
  BY RequestsAssumption DEF InsertFile, IInv, VerdictInv, TypeOK
<1>2. PICK src \in todo : /\ staged' = Put(staged, Insert(request, src), Place(<<"host">>, <<src>>))
                          /\ todo' = todo \ {src}
  BY DEF InsertFile
<1>3. StageInv'
  BY <1>1, WantsStay DEF StageInv, TreeInv
<1>4. PICK i \in LastInserts(request) :
              /\ request.inserts[i].src = src /\ Insert(request, src) = request.inserts[i].dest
              /\ \A j \in LastInserts(request) : request.inserts[j].src = src => j = i
  BY <1>1, InsertIsLast
<1>5. InsertWants(todo') = InsertWants(todo) \cup {InsertWant(i)}
  BY <1>2, <1>4 DEF InsertWants
<1>6. HasBoot /\ HasBoot' /\ HasRepo /\ HasRepo' /\ HasModules /\ HasModules'
  BY <1>1
<1>7. Done' = Done \cup {InsertWant(i)}
  <2> HIDE DEF HasBoot, HasRepo, HasModules
  <2>1. Done = BootWants \cup RepoWants \cup LayerWants(next - 1) \cup {ModuleWant} \cup InsertWants(todo)
    BY <1>1, <1>6 DEF Done
  <2>2. Done' = BootWants \cup RepoWants \cup LayerWants(next - 1) \cup {ModuleWant} \cup InsertWants(todo')
    BY <1>1, <1>6, WantsStay, ListsStay DEF Done
  <2> QED
    BY <1>5, <2>1, <2>2
<1>8. staged' = Put(staged, InsertWant(i).at, InsertWant(i).from)
  BY <1>2, <1>4 DEF InsertWant
<1> QED
  BY <1>1, <1>3, <1>7, <1>8, AddsWant DEF Collecting

LEMMA FilesDoneTree == ASSUME IInv, TreeInv, FilesDone PROVE TreeInv'
<1>1. /\ phase = "files" /\ phase' = (IF request.cdrom THEN "iso" ELSE "efi")
      /\ result = "none" /\ result' = "none"
      /\ UNCHANGED <<request, kitvars, next, todo, treevars>> /\ todo = {}
  BY DEF FilesDone, IInv, VerdictInv
<1>2. StageInv'
  BY <1>1, WantsStay DEF StageInv, TreeInv
<1>3. /\ HasBoot' <=> HasBoot
      /\ HasRepo' <=> HasRepo
      /\ HasModules' <=> HasModules
      /\ phase' # "start" /\ phase # "start"
  BY <1>1
<1>4. Done' = Done
  <2> HIDE DEF HasBoot, HasRepo, HasModules
  <2> QED
    BY <1>1, <1>3, DoneStays
<1> QED
  BY <1>1, <1>2, <1>4, AddsNothing DEF Collecting

\* The image is made of a tree that is complete.
LEMMA ImageTree ==
    ASSUME IInv, TreeInv, WriteIso \/ GenGptDisk \/ FillDisk \/ Unwind
    PROVE  TreeInv'
<1>1. CASE result' \in {"error", "fatal"}
  <2>1. phase' \in Ending
    BY <1>1 DEF WriteIso, GenGptDisk, FillDisk, Unwind, IInv, VerdictInv
  <2> QED
    BY <1>1, <2>1, FailedTree
<1>2. CASE result' \notin {"error", "fatal"}
  <2>1. /\ phase \in {"iso", "disk", "mcopy"} \/ Success
        /\ phase' \in {"mcopy"} \/ Success'
        /\ phase' = "mcopy" => phase = "disk"
        /\ result \in {"none", "ok"}
        /\ UNCHANGED <<request, kitvars, next, todo, treevars>>
    BY <1>2, ImageVerdict DEF WriteIso, GenGptDisk, FillDisk, Unwind, IInv, VerdictInv, TypeOK
  <2>2. /\ HasBoot /\ HasRepo /\ HasModules /\ HasEfi /\ HasLayers /\ HasInserts
        /\ HasBoot' /\ HasRepo' /\ HasModules' /\ phase' # "start" /\ phase # "start"
    BY <2>1
  <2>3. StageInv'
    BY <2>1, <2>2, WantsStay DEF StageInv, TreeInv
  <2>4. HoldsEfi(FirmwareTree')
    BY <2>1, <2>2 DEF TreeInv, FirmwareTree, treevars
  <2> HIDE DEF HasBoot, HasRepo, HasModules, HasEfi, Success, HasLayers, HasInserts
  <2> QED
    BY <2>1, <2>2, <2>3, <2>4, MovesOn DEF treevars
<1> QED
  BY <1>1, <1>2

LEMMA NextTree == IInv /\ TreeInv /\ [Next]_vars => TreeInv'
<1> SUFFICES ASSUME IInv, TreeInv, [Next]_vars PROVE TreeInv'
  OBVIOUS
<1>1. CASE KitStep
  BY <1>1, KitTree
<1>2. CASE TreeStep
  <2>1. CASE TruncateFails
    BY <2>1, FailedTree DEF TruncateFails
  <2> QED
    BY <1>2, <2>1, DirsTree, PopulateTree, GenESPTree, BootTree, RepoTree, LayerTree, LayersDoneTree,
       ModulesTree, InsertTree, FilesDoneTree DEF TreeStep
<1>3. CASE ImageStep
  <2>1. CASE StepFails
    BY <2>1, FailedTree DEF StepFails
  <2> QED
    BY <1>3, <2>1, ImageTree DEF ImageStep
<1>4. CASE Terminated \/ UNCHANGED vars
  <2>1. UNCHANGED <<request, phase, result, kitvars, next, todo, treevars>>
    BY <1>4 DEF Terminated, vars
  <2>2. /\ HasBoot' <=> HasBoot
        /\ HasRepo' <=> HasRepo
        /\ HasModules' <=> HasModules
        /\ HasEfi' <=> HasEfi
    BY <2>1
  <2>3. StageInv'
    BY <2>1, WantsStay DEF StageInv, TreeInv
  <2> HIDE DEF HasBoot, HasRepo, HasModules, HasEfi
  <2>4. Done' = Done
    BY <2>1, <2>2, WantsStay, ListsStay DEF Done
  <2>5. result' \in {"none", "ok"} => HoldsWants(staged', Done')
    BY <2>1, <2>4 DEF TreeInv, treevars
  <2>6. HasEfi => HoldsEfi(FirmwareTree')
    BY <2>1 DEF TreeInv, FirmwareTree, treevars
  <2>7. HasEfi => HoldsEfi(FirmwareTree)'
    BY <2>1, <2>6, EfiStays
  <2> QED
    BY <2>1, <2>2, <2>3, <2>5, <2>7 DEF TreeInv, HoldsWants, IsTool
<1> QED
  BY <1>1, <1>2, <1>3, <1>4 DEF Next

\* The tree at every step: what was asked for so far, and the firmware's files.
THEOREM TreeInvariance == Spec => []TreeInv
<1> QED
  BY InitTree, NextTree, Invariance, PTL DEF Spec

\* What is wanted, by the step that copies it.
LEMMA WantedIs ==
    Wanted = BootWants \cup RepoWants \cup LayerWants(Len(request.layers)) \cup {ModuleWant} \cup InsertWants({})
<1>1. InsertWants({}) = {InsertWant(i) : i \in LastInserts(request)}
  BY DEF InsertWants
<1> QED
  BY <1>1 DEF Wanted, BootWants, RepoWants, RepoWant, LayerWants, LayerWant, ModuleWant, InsertWant

\* Once the inserts are copied, all that is wanted is.
LEMMA AllIsDone ==
    ASSUME IInv, TreeInv, HasInserts
    PROVE  Done = Wanted /\ HoldsWants(staged, Wanted)
<1>1. /\ HasBoot /\ HasRepo /\ HasModules /\ HasLayers /\ phase # "start"
      /\ result \in {"none", "ok"}
  BY DEF IInv, VerdictInv
<1>2. todo = {} /\ next = Len(request.layers) + 1 /\ Len(request.layers) \in Nat
  BY <1>1, RequestsAssumption DEF TreeInv, StageInv, IInv, TypeOK, IsSeq
<1> HIDE DEF HasBoot, HasRepo, HasModules, HasLayers, HasInserts
<1>3. next - 1 = Len(request.layers)
  BY <1>2
<1>4. Done = BootWants \cup RepoWants \cup LayerWants(Len(request.layers)) \cup {ModuleWant} \cup InsertWants({})
  BY <1>1, <1>2, <1>3 DEF Done
<1>5. Done = Wanted
  BY <1>4, WantedIs
<1> QED
  BY <1>1, <1>5 DEF TreeInv

LEMMA InvRequested == IInv /\ TreeInv => ImageAsRequested
<1> SUFFICES ASSUME IInv, TreeInv, result = "ok" PROVE ImageAsRequested
  BY DEF ImageAsRequested
<1>1. HasInserts /\ HasModules
  BY DEF IInv, VerdictInv
<1>2. HoldsWants(staged, Wanted)
  BY <1>1, AllIsDone
<1>3. KitHas("modules.squashfs")
  BY <1>1 DEF TreeInv, StageInv
<1>4. \A p \in DOMAIN staged : p \in Tools <=> IsTool(p)
  BY DEF Tools, IsTool
<1> QED
  BY <1>2, <1>3, <1>4 DEF ImageAsRequested, HoldsWants

\* An image holds what the command line asked for, all of it and nothing else,
\* for every list of layers and inserts.
THEOREM ImageIsAsRequested == Spec => []ImageAsRequested
<1> QED
  BY Invariance, TreeInvariance, InvRequested, PTL

LEMMA InvShim == IInv /\ TreeInv => ShimBootFindsItsFiles
<1> SUFFICES ASSUME IInv, TreeInv, result = "ok", BootMode = "efi-shim" PROVE ShimBootFindsItsFiles
  BY DEF ShimBootFindsItsFiles
<1>1. HoldsEfi(FirmwareTree)
  BY DEF TreeInv, IInv, VerdictInv
<1>2. Programs = <<"shim.efi", "kernel.efi">>
  BY DEF Programs
<1>3. FirmwareTree[Startup].name = Programs
  BY <1>1 DEF HoldsEfi, Script
<1>4. ASSUME NEW i \in 1 .. Len(Programs)
      PROVE  LET p == Place(EFIBootDir, <<Programs[i]>>)
             IN  p \in DOMAIN FirmwareTree /\ FirmwareTree[p] = KitFile(Programs[i])
  <2>1. Programs[i] \in {"shim.efi", "kernel.efi"}
    BY <1>2
  <2> QED
    BY <1>1, <2>1 DEF HoldsEfi
<1> QED
  BY <1>1, <1>3, <1>4 DEF ShimBootFindsItsFiles, HoldsEfi

\* The shim and the kernel are where startup.nsh runs them, whatever was
\* inserted.
THEOREM ShimBootFinds == Spec => []ShimBootFindsItsFiles
<1> QED
  BY Invariance, TreeInvariance, InvShim, PTL

\* The output is opened when the tree is complete.
LEMMA StepWritesLast ==
    ASSUME IInv, TreeInv, [Next]_vars, output' # output
    PROVE  /\ \A w \in Wanted : w.at \in DOMAIN staged
           /\ todo = {} /\ Startup \in DOMAIN FirmwareTree
<1>1. phase \in {"iso", "disk", "mcopy"}
  <2>1. CASE KitStep
    BY <2>1 DEF KitStep, Start, GetBootKit, PullKit, UnpackLayer, UnpackNothing, ExtractSquash,
                MountMolecule, CopyOut, RenameEntries, LocateKit
  <2>2. CASE TreeStep
    BY <2>2 DEF TreeStep, MakeCreateDir, MakeEspDir, PopulateEFI, GenESP, TruncateFails, CopyBootLayer,
                SyncRepo, CopyLayer, LayersDone, CopyModules, InsertFile, FilesDone
  <2>3. CASE ImageStep
    BY <2>3 DEF ImageStep, WriteIso, GenGptDisk, FillDisk, Unwind, StepFails
  <2>4. CASE Terminated \/ UNCHANGED vars
    BY <2>4 DEF Terminated, vars
  <2> QED
    BY <2>1, <2>2, <2>3, <2>4 DEF Next
<1>2. HasInserts /\ HasEfi
  BY <1>1
<1>3. todo = {} /\ HoldsEfi(FirmwareTree)
  BY <1>2 DEF TreeInv, StageInv
<1>4. HoldsWants(staged, Wanted)
  BY <1>2, AllIsDone
<1> QED
  BY <1>3, <1>4 DEF HoldsWants, HoldsEfi

\* No step touches the output before everything it takes is in the tree: a run
\* that fails earlier leaves an old image alone.
THEOREM OutputLast == Spec => OutputIsWrittenLast
<1>1. IInv /\ TreeInv /\ [Next]_vars =>
         [output' # output => /\ \A w \in Wanted : w.at \in DOMAIN staged
                              /\ todo = {} /\ Startup \in DOMAIN FirmwareTree]_vars
  BY StepWritesLast
<1> QED
  BY <1>1, Invariance, TreeInvariance, PTL DEF Spec, OutputIsWrittenLast

\* A layer with a name has an index of its own below oci.
LEMMA NamedPlace ==
    ASSUME NEW ref, IsSeq(ref), Len(ref) = 3, ref[2] # Empty
    PROVE  /\ InImage(ref)[1] = <<"oci">>
           /\ TargetPlace(InImage(ref)) = Place(<<"oci", ref[2]>>, <<ref[3]>>)
<1>1. InImage(ref) = <<<<"oci">>, ref[2], ref[3]>>
  BY TailOfTriple, OneAndTwo DEF InImage
<1>2. TargetPlace(<<<<"oci">>, ref[2], ref[3]>>) = Place(<<"oci", ref[2]>>, <<ref[3]>>)
  BY OneAndOne DEF TargetPlace, PlaceOf, OciDir, RefName, OciPath
<1> QED
  BY <1>1, <1>2

LEMMA BootPlace == TargetPlace(BootLayer) = Place(<<"oci", "live-boot">>, <<"latest">>)
  BY OneAndOne DEF TargetPlace, PlaceOf, OciDir, RefName, OciPath, BootLayer, Empty

LEMMA InvReadBack == IInv /\ TreeInv => LayersReadBack
<1> SUFFICES ASSUME IInv, TreeInv, result = "ok", NoTopIndex,
                    NEW i \in 1 .. Len(request.layers)
             PROVE  SourcePlace(InImage(request.layers[i]), DOMAIN staged) \in DOMAIN staged
  BY DEF LayersReadBack
<1> DEFINE oci == <<"oci">>
<1>1. HasInserts
  BY DEF IInv, VerdictInv
<1>2. HoldsWants(staged, Wanted)
  BY <1>1, AllIsDone
<1>3. ASSUME NEW k \in 1 .. Len(request.layers)
      PROVE  /\ InImage(request.layers[k])[1] = oci
             /\ TargetPlace(InImage(request.layers[k])) =
                   Place(<<"oci", request.layers[k][2]>>, <<request.layers[k][3]>>)
  <2>1. IsSeq(request.layers[k])
    BY RequestsAssumption DEF IInv, TypeOK
  <2>2. Len(request.layers[k]) = 3 /\ request.layers[k][2] # Empty
    BY DEF NoTopIndex
  <2> QED
    BY <2>1, <2>2, NamedPlace
<1>4. \A a, n : Place(a, n).dir = a
  BY DEF Place
<1>5. \A a : <<"oci", a>> # oci /\ <<a, "images">> # oci
  <2>1. \A a : Len(<<"oci", a>>) = 2 /\ Len(<<a, "images">>) = 2
    OBVIOUS
  <2>2. Len(oci) = 1
    OBVIOUS
  <2> HIDE DEF oci
  <2> QED
    BY <2>1, <2>2
<1>6. ASSUME NEW p \in DOMAIN staged, IsTool(p) PROVE p.dir # oci
  <2>1. CASE IsBelow(<<"efi">>, p.dir)
    <3>1. ~IsBelow(<<"efi">>, oci)
      BY BelowSingle
    <3> HIDE DEF oci
    <3> QED
      BY <2>1, <3>1
  <2>2. CASE p = Place(<< >>, <<"kernel.efi">>)
    BY <2>2, <1>4
  <2>3. CASE p = ESPImage
    BY <2>3, <1>4, <1>5 DEF ESPImage
  <2> QED
    BY <1>6, <2>1, <2>2, <2>3 DEF IsTool
<1>7. ASSUME NEW w \in Wanted PROVE w.at.dir # oci
  <2>1. CASE w.at = TargetPlace(BootLayer)
    BY <2>1, BootPlace, <1>4, <1>5
  <2>2. CASE \E k \in 1 .. Len(request.layers) : w.at = TargetPlace(InImage(request.layers[k]))
    <3>1. PICK k \in 1 .. Len(request.layers) : w.at = TargetPlace(InImage(request.layers[k]))
      BY <2>2
    <3>2. w.at.dir = <<"oci", request.layers[k][2]>>
      BY <3>1, <1>3, <1>4
    <3> HIDE DEF oci
    <3> QED
      BY <3>2, <1>5
  <2>3. CASE w.at = RepoDest \/ w.at = ModulesDest
    <3>1. RepoDest.dir = <<"zot-cache">> /\ ModulesDest.dir = <<"krd">>
      BY <1>4 DEF RepoDest, ModulesDest
    <3> QED
      BY <2>3, <3>1
  <2>4. CASE \E k \in LastInserts(request) : w.at = request.inserts[k].dest
    BY <2>4 DEF NoTopIndex, LastInserts
  <2> HIDE DEF oci
  <2> QED
    <3>1. CASE w \in BootWants
      BY <2>1, <3>1 DEF BootWants
    <3>2. CASE w \in LayerWants(Len(request.layers))
      BY <2>2, <3>2 DEF LayerWants, LayerWant
    <3>3. CASE w \in RepoWants \/ w = ModuleWant
      BY <2>3, <3>3 DEF RepoWants, RepoWant, ModuleWant
    <3>4. CASE w \in InsertWants({})
      <4>1. PICK k \in LastInserts(request) : w = InsertWant(k)
        BY <3>4 DEF InsertWants
      <4>2. w.at = request.inserts[k].dest
        BY <4>1 DEF InsertWant
      <4> QED
        BY <2>4, <4>2
    <3> QED
      BY <3>1, <3>2, <3>3, <3>4, WantedIs
<1> DEFINE ref == InImage(request.layers[i])
<1>8. \A p \in DOMAIN staged : p.dir # oci
  <2> HIDE DEF oci
  <2> QED
    BY <1>2, <1>6, <1>7 DEF HoldsWants
<1>9. Layout(ref[1], DOMAIN staged) = "tree"
  <2> HIDE DEF ref, oci
  <2>1. ref[1] = oci
    BY <1>3 DEF ref
  <2> QED
    BY <1>8, <2>1 DEF Layout
<1>10. SourcePlace(ref, DOMAIN staged) = TargetPlace(ref)
  BY <1>9 DEF SourcePlace, TargetPlace
<1>11. TargetPlace(ref) \in DOMAIN staged
  <2>1. [at |-> TargetPlace(ref), from |-> SourcePlace(request.layers[i], request.images)] \in Wanted
    BY DEF Wanted
  <2> HIDE DEF ref
  <2> QED
    BY <1>2, <2>1 DEF HoldsWants
<1> QED
  BY <1>10, <1>11

\* doCopy and newOciPath agree on where a layer is: every layer of the image is
\* found by its own reference, as long as nothing makes an index above them.
THEOREM LayersAreReadBack == Spec => []LayersReadBack
<1> QED
  BY Invariance, TreeInvariance, InvReadBack, PTL

-----------------------------------------------------------------------------
(* What the soci module makes of the command line of the image.            *)

LEMMA SociLastIs ==
    ASSUME NEW S, S \subseteq Int, NEW m, Soci!IsLast(m, S)
    PROVE  (CHOOSE i \in S : Soci!IsLast(i, S)) = m
<1> DEFINE c == CHOOSE i \in S : Soci!IsLast(i, S)
<1>1. c \in S /\ Soci!IsLast(c, S)
  BY DEF Soci!IsLast
<1>2. c <= m /\ m <= c /\ c \in Int /\ m \in Int
  BY <1>1 DEF Soci!IsLast
<1> QED
  BY <1>2

LEMMA RootArgIs ==
    ASSUME NEW words, NEW m \in Soci!RootWords(words), Soci!IsLast(m, Soci!RootWords(words))
    PROVE  Soci!RootArg(words) = words[m]
<1> DEFINE S == Soci!RootWords(words)
<1>1. S \subseteq Int /\ S # {} /\ Soci!IsLast(m, S)
  BY DEF Soci!RootWords
<1>2. Soci!RootArg(words) = words[CHOOSE i \in S : Soci!IsLast(i, S)]
  BY <1>1, Zenon DEF Soci!RootArg
<1>3. (CHOOSE i \in S : Soci!IsLast(i, S)) = m
  <2> HIDE DEF S
  <2> QED
    BY <1>1, SociLastIs
<1> QED
  BY <1>2, <1>3, Zenon

\* A word in front of the others.
LEMMA WordInFront ==
    ASSUME NEW words, IsSeq(words)
    PROVE  LET all == <<BootRoot>> \o words
           IN  /\ Len(all) = Len(words) + 1 /\ all[1] = BootRoot
               /\ \A k \in 1 .. Len(words) : all[k + 1] = words[k]
               /\ Soci!RootWords(all) = {1} \cup {k + 1 : k \in Soci!RootWords(words)}
<1> DEFINE S == {words[k] : k \in 1 .. Len(words)} \cup {BootRoot}
           one == <<BootRoot>>
           all == one \o words
<1>1. words \in Seq(S)
  BY DEF IsSeq
<1>2. one \in Seq(S) /\ Len(one) = 1 /\ one[1] = BootRoot
  OBVIOUS
<1> HIDE DEF S, one
<1>3. /\ Len(all) = 1 + Len(words)
      /\ \A i \in 1 .. 1 + Len(words) : all[i] = IF i <= 1 THEN one[i] ELSE words[i - 1]
  <2>1. /\ Len(all) = Len(one) + Len(words)
        /\ \A i \in 1 .. Len(one) + Len(words) : all[i] = IF i <= Len(one) THEN one[i] ELSE words[i - Len(one)]
    BY <1>1, <1>2, ConcatProperties
  <2> HIDE DEF all
  <2> QED
    BY <1>2, <2>1
<1>4. Len(words) \in Nat
  BY DEF IsSeq
<1> HIDE DEF all
<1>5. Len(all) = Len(words) + 1 /\ all[1] = BootRoot /\ \A k \in 1 .. Len(words) : all[k + 1] = words[k]
  <2>1. all[1] = BootRoot
    BY <1>2, <1>3, <1>4
  <2>2. ASSUME NEW k \in 1 .. Len(words) PROVE all[k + 1] = words[k]
    <3>1. k + 1 \in 1 .. 1 + Len(words) /\ ~(k + 1 <= 1) /\ (k + 1) - 1 = k
      BY <1>4
    <3> QED
      BY <1>3, <3>1
  <2> QED
    BY <1>3, <1>4, <2>1, <2>2
<1>6. Soci!RootWords(all) = {1} \cup {k + 1 : k \in Soci!RootWords(words)}
  <2>1. BootRoot.kind = "soci"
    BY DEF BootRoot
  <2>2. \A i : i \in 1 .. Len(all) <=> (i = 1 \/ \E k \in 1 .. Len(words) : i = k + 1)
    <3>1. \A i \in 1 .. Len(all) : i = 1 \/ (i - 1 \in 1 .. Len(words) /\ i = (i - 1) + 1)
      BY <1>4, <1>5
    <3>2. \A k \in 1 .. Len(words) : k + 1 \in 1 .. Len(all)
      BY <1>4, <1>5
    <3>3. 1 \in 1 .. Len(all)
      BY <1>4, <1>5
    <3> QED
      BY <3>1, <3>2, <3>3
  <2> QED
    BY <1>5, <2>1, <2>2 DEF Soci!RootWords
<1> QED
  BY <1>5, <1>6 DEF all, one

\* A root= of the user is read instead of the boot layer's.
LEMMA OwnRootIsRead ==
    ASSUME IsSeq(request.cmdline), OwnRoot
    PROVE  Soci!RootArg(FullCmdline) = Soci!RootArg(request.cmdline)
<1> DEFINE c == request.cmdline
           S == Soci!RootWords(c)
<1>1. CASE request.boot = << >>
  <2>1. c \in Seq({c[k] : k \in 1 .. Len(c)})
    BY DEF IsSeq
  <2>2. << >> \o c = c
    BY <2>1, ConcatEmptySeq
  <2> QED
    BY <1>1, <2>2 DEF FullCmdline
<1>2. CASE request.boot # << >>
  <2> DEFINE all == <<BootRoot>> \o c
  <2>1. FullCmdline = all
    BY <1>2 DEF FullCmdline
  <2>2. /\ \A k \in 1 .. Len(c) : all[k + 1] = c[k]
        /\ Soci!RootWords(all) = {1} \cup {k + 1 : k \in S}
    BY WordInFront
  <2>3. Len(c) \in Nat /\ S \in SUBSET (1 .. Len(c)) /\ S # {}
    BY DEF IsSeq, OwnRoot, Soci!RootWords
  <2> HIDE DEF S, all
  <2>4. PICK m \in S : \A j \in m + 1 .. Len(c) : j \notin S
    BY <2>3, LastExists
  <2>5. Soci!IsLast(m, S)
    BY <2>3, <2>4 DEF Soci!IsLast
  <2>6. m + 1 \in Soci!RootWords(all) /\ Soci!IsLast(m + 1, Soci!RootWords(all))
    <3>1. \A i \in Soci!RootWords(all) : i <= m + 1
      <4>1. \A k \in S : k \in Int /\ k <= m
        BY <2>3, <2>5 DEF Soci!IsLast
      <4>2. m \in Int /\ 1 <= m
        BY <2>3, <2>4
      <4> QED
        BY <2>2, <4>1, <4>2
    <3> QED
      BY <2>2, <2>4, <3>1 DEF Soci!IsLast
  <2>7. Soci!RootArg(all) = all[m + 1] /\ Soci!RootArg(c) = c[m]
    <3>1. Soci!RootArg(all) = all[m + 1]
      BY <2>6, RootArgIs
    <3>2. Soci!RootArg(c) = c[m]
      BY <2>4, <2>5, RootArgIs DEF S
    <3> QED
      BY <3>1, <3>2
  <2> QED
    BY <2>1, <2>2, <2>3, <2>4, <2>7
<1> QED
  BY <1>1, <1>2

\* Without one the boot layer's is.
LEMMA BootRootIsRead ==
    ASSUME IsSeq(request.cmdline), ~OwnRoot, request.boot # << >>
    PROVE  Soci!RootArg(FullCmdline) = BootRoot
<1> DEFINE all == <<BootRoot>> \o request.cmdline
<1>1. FullCmdline = all
  BY DEF FullCmdline
<1>2. all[1] = BootRoot /\ Soci!RootWords(all) = {1} \cup {k + 1 : k \in Soci!RootWords(request.cmdline)}
  BY WordInFront
<1> HIDE DEF all
<1>3. Soci!RootWords(all) = {1}
  BY <1>2 DEF OwnRoot
<1>4. Soci!IsLast(1, Soci!RootWords(all))
  BY <1>3 DEF Soci!IsLast
<1> QED
  BY <1>1, <1>2, <1>3, <1>4, RootArgIs

\* What its arguments set.
LEMMA BootRootSets ==
    /\ Soci!Value(BootRoot.args, "name", Soci!Empty) = "live-boot:latest"
    /\ Soci!Value(BootRoot.args, "dev", Soci!Empty) = Label
    /\ Soci!Value(BootRoot.args, "path", "oci") = "oci"
    /\ Soci!Value(BootRoot.args, "repo", Soci!Empty) = Soci!Empty
<1> DEFINE args == BootRoot.args
<1>1. /\ Len(args) = 2
      /\ args[1] = [key |-> "name", val |-> "live-boot:latest"] /\ args[2] = [key |-> "dev", val |-> Label]
  BY DEF BootRoot
<1> HIDE DEF args
<1>2. args[1].key = "name" /\ args[2].key = "dev" /\ args[1].val = "live-boot:latest" /\ args[2].val = Label
  BY <1>1
<1>3. \A i : i \in 1 .. 2 <=> i = 1 \/ i = 2
  OBVIOUS
<1>4. Soci!Reached(args) = {1, 2}
  <2>1. \A j \in 1 .. 2 : args[j].key \notin {Empty}
    BY <1>2, <1>3 DEF Empty
  <2>2. \A i \in 1 .. 2 : 1 .. i \subseteq 1 .. 2
    OBVIOUS
  <2> QED
    BY <1>1, <1>3, <2>1, <2>2 DEF Soci!Reached
<1>5. /\ Soci!Settings(args, "name") = {1} /\ Soci!Settings(args, "dev") = {2}
      /\ Soci!Settings(args, "path") = {} /\ Soci!Settings(args, "repo") = {}
  BY <1>2, <1>4 DEF Soci!Settings
<1>6. /\ Soci!Value(args, "name", Soci!Empty) = args[1].val
      /\ Soci!Value(args, "dev", Soci!Empty) = args[2].val
  <2>1. (CHOOSE k \in {1} : Soci!IsLast(k, {1})) = 1 /\ (CHOOSE k \in {2} : Soci!IsLast(k, {2})) = 2
    BY SociLastIs DEF Soci!IsLast
  <2> QED
    BY <1>5, <2>1, Zenon DEF Soci!Value
<1>7. Soci!Value(args, "path", "oci") = "oci" /\ Soci!Value(args, "repo", Soci!Empty) = Soci!Empty
  BY <1>5 DEF Soci!Value
<1> QED
  BY <1>2, <1>6, <1>7 DEF args

LEMMA InvFits == IInv /\ TreeInv => CommandLineFitsImage
<1> SUFFICES ASSUME IInv, TreeInv, result = "ok" PROVE CommandLineFitsImage
  BY DEF CommandLineFitsImage
<1> DEFINE at == Place(<<"oci", "live-boot">>, <<"latest">>)
<1>1. HasInserts /\ HasEfi
  BY DEF IInv, VerdictInv
<1>2. HoldsWants(staged, Wanted) /\ HoldsEfi(FirmwareTree)
  BY <1>1, AllIsDone DEF TreeInv
<1>3. /\ IsSeq(request.cmdline)
      /\ request.boot = << >> \/ request.boot = <<request.boot[1]>>
  BY RequestsAssumption DEF IInv, TypeOK
<1>4. SociVars = Soci!SetVars(FullCmdline)
  BY <1>2 DEF SociVars, HoldsEfi, Script
<1>5. OwnRoot => SociVars = Soci!SetVars(request.cmdline)
  BY <1>3, <1>4, OwnRootIsRead DEF Soci!SetVars
<1>6. ASSUME request.boot # << >> PROVE at \in DOMAIN staged
  <2>1. Len(request.boot) = 1
    <3> DEFINE ref == request.boot[1]
    <3>1. request.boot = <<ref>>
      BY <1>3, <1>6
    <3> HIDE DEF ref
    <3> QED
      BY <3>1
  <2>2. \E w \in BootWants : w.at = TargetPlace(BootLayer)
    <3>1. 1 \in 1 .. Len(request.boot)
      BY <2>1
    <3>2. [at |-> TargetPlace(BootLayer), from |-> SourcePlace(request.boot[1], request.images)] \in BootWants
      BY <3>1 DEF BootWants
    <3> QED
      BY <3>2
  <2>3. \E w \in Wanted : w.at = at
    BY <2>2, BootPlace, WantedIs
  <2> HIDE DEF at
  <2> QED
    BY <1>2, <2>3 DEF HoldsWants
<1>7. ModulesDest \in DOMAIN staged
  <2>1. ModuleWant \in Wanted /\ ModuleWant.at = ModulesDest
    BY WantedIs DEF ModuleWant
  <2> QED
    BY <1>2, <2>1 DEF HoldsWants
<1>8. ASSUME request.boot # << >>, ~OwnRoot
      PROVE  /\ SociVars = [enabled |-> TRUE, name |-> "live-boot:latest", dev |-> Label,
                            path |-> "oci", repo |-> Empty]
             /\ DirExists(staged, <<"oci">>)
  <2>1. Soci!RootArg(FullCmdline) = BootRoot
    BY <1>3, <1>8, BootRootIsRead
  <2>2. BootRoot.kind = "soci"
    BY DEF BootRoot
  <2>3. SociVars = [enabled |-> TRUE, name |-> "live-boot:latest", dev |-> Label,
                    path |-> "oci", repo |-> Empty]
    BY <1>4, <2>1, <2>2, BootRootSets DEF Soci!SetVars, Soci!Empty, Empty
  <2>4. IsBelow(<<"oci">>, at.dir)
    BY BelowPair DEF Place
  <2> HIDE DEF at
  <2>5. DirExists(staged, <<"oci">>)
    BY <1>6, <1>8, <2>4 DEF DirExists
  <2> QED
    BY <2>3, <2>5
<1> QED
  BY <1>5, <1>6, <1>7, <1>8 DEF CommandLineFitsImage, at

\* oci-boot and the soci module agree: the module reads the user's root= if there
\* is one and else the boot layer's, which names the volume, and no registry; the
\* boot layer and the modules are where the module and a local zot have them.
THEOREM MediaFits == Spec => []CommandLineFitsImage
<1> QED
  BY Invariance, TreeInvariance, InvFits, PTL
=============================================================================
