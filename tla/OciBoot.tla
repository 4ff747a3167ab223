------------------------------ MODULE OciBoot ------------------------------
(***************************************************************************)
(* oci-boot (go/cmd/oci-boot): make a bootable disk or iso from a boot kit *)
(* and OCI layers.                                                         *)
(*                                                                         *)
(* The tool is one sequential process.  It extracts the boot kit, collects *)
(* a tree in a temporary directory, and has xorriso, or mkfs.fat and       *)
(* mcopy, turn the tree into the image.  Every step may fail; a failure    *)
(* runs the deferred removals and ends the run.  phase is the next step.   *)
(*                                                                         *)
(* What is staged is a function from places to what was copied there, both *)
(* of the form Place(directory, name); see OciRef.                         *)
(***************************************************************************)
EXTENDS OciRef, Layers

CONSTANTS Requests   \* command lines, each with what the host holds

IsSeq(s) == Len(s) \in Nat /\ s = [k \in 1 .. Len(s) |-> s[k]]

ASSUME RequestsAssumption ==
    \A r \in Requests : /\ r.cdrom \in BOOLEAN /\ r.root \in BOOLEAN
                        /\ r.kitIsRef \in BOOLEAN /\ Len(r.kit) \in Nat
                        /\ IsSeq(r.layers) /\ \A i \in 1 .. Len(r.layers) : IsSeq(r.layers[i])
                        /\ r.boot = << >> \/ r.boot = <<r.boot[1]>>
                        /\ r.repos \in Seq(STRING) /\ IsSeq(r.cmdline) /\ Len(r.inserts) \in Nat

\* cdrom, mode:  the flags --cdrom and --boot
\* kitIsRef:     the boot kit is given as oci:..., not as a directory
\* kitRef, kit:  that reference, and the layers of the image it names; a
\*               directory counts as one layer
\* root, idmaps: the user is root; what the id maps of a user who is not are:
\*               "usable", "unusable"
\* programs:     the programs in the PATH
\* cmdline:      the words of --cmdline (see SociArgs)
\* boot:         the boot layer: no reference, or a sequence of one
\* layers:       the references of the other layers
\* repos:        the values of --sync-repodir
\* inserts:      the values of --insert, in order
\* images, files: the images and the files on the host

VARIABLES
    request, phase,
    result,    \* "none", "ok", "error", or "fatal": log.Fatalf or a panic
    temps,     \* temporary directories that exist
    deferred,  \* those with a removal deferred or registered as a cleanup
    stuck,     \* those that a removal or an unmount has failed for
    mounted,   \* the kit's layers are mounted in the directory "unsquash"
    rootfs,    \* the files of the kit (see Layers)
    applied,   \* how many of its layers are in rootfs
    kitDir,    \* where in rootfs the kit begins: "", "top" or "export"
    next,      \* index of the next layer to copy
    todo,      \* sources of the inserts still to copy
    staged,    \* the tree of the image
    esp,       \* the tree of the ESP image of an iso
    output     \* the output file: "old", "partial" or "whole"

dirvars == <<temps, deferred, stuck, mounted>>
kitvars == <<rootfs, applied, kitDir>>
treevars == <<staged, esp>>
vars == <<request, phase, result, dirvars, kitvars, next, todo, treevars, output>>

Modes == {"efi-auto", "efi-shim", "efi-kernel"}
Temps == {"kit", "oci", "xdir", "unsquash", "create", "esp"}

NoTree == [p \in {} |-> p]

\* Writing a file at a place, over what was there.
Put(tree, place, source) ==
    [p \in DOMAIN tree \cup {place} |-> IF p = place THEN source ELSE tree[p]]

IsBelow(dir, d) == Len(dir) <= Len(d) /\ SubSeq(d, 1, Len(dir)) = dir

\* copyFile makes no directories: it needs one that something is staged in.
DirExists(tree, dir) == dir = << >> \/ \E p \in DOMAIN tree : IsBelow(dir, p.dir)

EFIBootDir == <<"efi", "boot">>
Startup    == Place(EFIBootDir, <<"startup.nsh">>)
ModulesDest == Place(<<"krd">>, <<"modules.squashfs">>)
RepoDest   == Place(<<"zot-cache">>, << >>)
ESPImage   == Place(<<"loader", "images">>, <<"efi-esp.img">>)
BootLayer  == <<<<"oci">>, "live-boot", "latest">>
Label      == "LABEL=OCI-BOOT"      \* what the volume of either image is called

\* startup.nsh goes to EFIBootDir and runs the programs by name.
Script(programs, words) == [dir |-> <<"script">>, name |-> programs, cmdline |-> words]

Insert(r, src) ==    \* ociBoot.Files is a map from sources: the last one counts
    LET last == CHOOSE i \in 1 .. Len(r.inserts) :
                    /\ r.inserts[i].src = src
                    /\ \A j \in i + 1 .. Len(r.inserts) : r.inserts[j].src # src
    IN  r.inserts[last].dest
Sources(r) == {r.inserts[i].src : i \in 1 .. Len(r.inserts)}

\* The versions of a file of the kit: one, or none.
Versions(dir, files, f) == {v \in files : v.at = Place(dir \o <<"bootkit">>, <<f>>)}
KitPath == IF kitDir = "export" THEN <<"export">> ELSE << >>
KitHas(f) == Versions(KitPath, rootfs, f) # {}
KitFile(f) == [kit |-> f, from |-> Versions(KitPath, rootfs, f)]

\* A step fails: the deferred removals run next.
Fail == phase' = "unwind" /\ result' = "error"
Goto(ph) == phase' = ph /\ UNCHANGED result

\* The deferred os.RemoveAll calls of returning functions: a failure of one is
\* ignored.  The directory of the kit takes the one inside it along.
Remove(dirs) ==
    \E failed \in SUBSET (dirs \cap temps) :
        LET gone == dirs \ failed
        IN  /\ temps' = temps \ (gone \cup IF "kit" \in gone THEN {"xdir"} ELSE {})
            /\ stuck' = stuck \cup failed
            /\ deferred' = deferred \ dirs

\* ioutil.TempDir, with its removal deferred, or a failure.
MakeTemp(dir, ph) ==
    \/ temps' = temps \cup {dir} /\ deferred' = deferred \cup {dir} /\ Goto(ph)
    \/ Fail /\ UNCHANGED <<temps, deferred>>

\* All layers of the kit are in rootfs, whiteouts applied.
UnpackAll == rootfs' = Overlay(request.kit, Len(request.kit)) /\ applied' = Len(request.kit)

\* doCopy of an image into the tree: it is only there if the source is.
CopyImage(ref, dest) ==
    /\ IsOciRef(ref) /\ IsOciRef(dest)
    /\ LET src == SourcePlace(ref, request.images)
       IN  src \in request.images /\ staged' = Put(staged, TargetPlace(dest), src)

\* A layer's directory in the image has the tag's name as well.
LayerDestFlat(ref) == <<<<"oci">>, RefName(OciPath(ref, "flat"))[1]>>

\* Layers keep their name and tag.
LayerDest(ref) == <<<<"oci">>>> \o NameAndTag(OciPath(ref, "tree"))

Init ==
    /\ request \in Requests
    /\ phase = "start" /\ result = "none"
    /\ temps = {} /\ deferred = {} /\ stuck = {} /\ mounted = FALSE
    /\ rootfs = {} /\ applied = 0 /\ kitDir = Empty /\ next = 1 /\ todo = {}
    /\ staged = NoTree /\ esp = NoTree /\ output = "old"

-----------------------------------------------------------------------------
(* Plausible bugs, each breaking one of the properties.                    *)

\* The index moves on past the end of the list.
LayersDoneOffByOne ==
    /\ phase = "layers" /\ next > Len(request.layers)
    /\ next' = next + 1
    /\ Goto("modules")
    /\ UNCHANGED <<request, dirvars, kitvars, todo, treevars, output>>

\* The extraction returns without its deferred removals.
RenameEntriesKeeps ==
    /\ phase = "rename"
    /\ Goto("locate")
    /\ deferred' = deferred \ {"xdir", "oci"}
    /\ UNCHANGED <<request, temps, stuck, mounted, kitvars, next, todo, treevars, output>>

\* squashtool is not told to apply the whiteouts.
ExtractSquashPlain ==
    /\ phase = "unsquash"
    /\ request.kit[applied + 1].kind = "squash"
    /\ rootfs' = ExtractedOver(rootfs, request.kit, applied + 1)
    /\ applied' = applied + 1
    /\ Goto(IF applied' = Len(request.kit) THEN "rename" ELSE "unsquash")
    /\ UNCHANGED <<request, dirvars, kitDir, next, todo, treevars, output>>

\* A failed Umount is ignored and the directory is removed.
CopyOutRemovesAnyway ==
    /\ phase = "copyout"
    /\ mounted' \in BOOLEAN
    /\ temps' = temps \ {"unsquash"}
    /\ \/ Goto("rename") /\ UnpackAll
       \/ Fail /\ UNCHANGED <<rootfs, applied>>
    /\ UNCHANGED <<request, deferred, stuck, kitDir, next, todo, treevars, output>>

\* A layer that cannot be copied is passed over.
CopyLayerSkips ==
    /\ phase = "layers" /\ next <= Len(request.layers)
    /\ next' = next + 1
    /\ \/ CopyImage(request.layers[next], LayerDest(request.layers[next]))
       \/ UNCHANGED staged
    /\ UNCHANGED <<request, phase, result, dirvars, kitvars, todo, esp, output>>

\* genESP copies the ESP before PopulateEFI has filled it.
GenESPEmpty ==
    /\ phase = "genesp"
    /\ esp' = NoTree /\ staged' = Put(staged, ESPImage, Place(<<"esp">>, << >>))
    /\ Remove({"esp"})
    /\ Goto("boot")
    /\ UNCHANGED <<request, mounted, kitvars, next, todo, output>>

\* The output is made before the tree is.
MakeCreateDirTruncates ==
    /\ phase = "create"
    /\ MakeTemp("create", IF request.cdrom THEN "imgdir" ELSE "boot")
    /\ output' = "partial"
    /\ UNCHANGED <<request, stuck, mounted, kitvars, next, todo, treevars>>

\* The error of mcopy is dropped.
FillDiskUnchecked ==
    /\ phase = "mcopy"
    /\ \/ output' = "whole" \/ UNCHANGED output
    /\ phase' = "unwind" /\ result' = "ok"
    /\ UNCHANGED <<request, dirvars, kitvars, next, todo, treevars>>


-----------------------------------------------------------------------------
(* The command line, and the boot kit.                                     *)

\* An unknown --boot ends the run before anything is done.
Start ==
    /\ phase = "start"
    /\ todo' = Sources(request)
    /\ IF request.mode \in Modes THEN Goto("kit") ELSE Fail
    /\ UNCHANGED <<request, dirvars, kitvars, next, treevars, output>>

\* getBootKit: a directory is used as it is, a reference is extracted.
GetBootKit ==
    /\ phase = "kit"
    /\ IF request.kitIsRef
         THEN MakeTemp("kit", "pull") /\ UNCHANGED <<rootfs, applied>>
         ELSE Goto("locate") /\ UnpackAll /\ UNCHANGED <<temps, deferred>>
    /\ UNCHANGED <<request, stuck, mounted, kitDir, next, todo, treevars, output>>

\* ociExtractRef: a copy of the image to an OCI directory of its own.
PullKit ==
    /\ phase = "pull"
    /\ MakeTemp("oci", IF /\ IsOciRef(request.kitRef)
                          /\ SourcePlace(request.kitRef, request.images) \in request.images
                       THEN "unpack" ELSE "failed")
    /\ UNCHANGED <<request, stuck, mounted, kitvars, next, todo, treevars, output>>

\* Any step may fail on its own: a full disk, a program that is not there.
StepFails ==
    /\ phase \in {"failed", "unpack", "unsquash", "rename", "imgdir", "efi", "genesp", "boot", "repo",
                  "layers", "modules", "files"}
    /\ Fail
    /\ UNCHANGED <<request, dirvars, kitvars, next, todo, treevars, output>>

\* GetRootlessMapOptions: a user who is not root needs id maps, all of them usable.
HasIdMaps == request.root \/ request.idmaps = {"usable"}

\* umoci.Unpack, of layers that are all tar archives.
UnpackTar ==
    IF AllOfKind(request.kit, "tar") /\ HasIdMaps
    THEN Goto("rename") /\ UnpackAll
    ELSE Fail /\ UNCHANGED <<rootfs, applied>>

\* UnpackLayer: the first layer alone says which program extracts the image.
UnpackLayer ==
    /\ phase = "unpack" /\ request.kit # << >>
    /\ temps' = temps \cup {"xdir"}
    /\ deferred' = deferred \cup {"xdir"}
    /\ IF request.kit[1].kind = "tar" THEN UnpackTar
       ELSE /\ Goto(IF request.root THEN "atomfs" ELSE "unsquash")
            /\ UNCHANGED <<rootfs, applied>>
    /\ UNCHANGED <<request, stuck, mounted, kitDir, next, todo, treevars, output>>

\* manifest.Layers[0] of an image without layers panics: the removals deferred
\* so far are done, but that of the kit is registered only later.
UnpackNothing ==
    /\ phase = "unpack" /\ request.kit = << >>
    /\ Remove({"xdir", "oci"})
    /\ phase' = "done" /\ result' = "fatal"
    /\ UNCHANGED <<request, mounted, kitvars, next, todo, treevars, output>>

\* A regular file that may be executed, in a directory of the PATH.
Which(name) == name \in request.programs

\* extractSingleSquash, for each layer in turn: squashtool if there is one.
ExtractSquash ==
    LET i == applied + 1
    IN  /\ phase = "unsquash"
        /\ request.kit[i].kind = "squash"
        /\ rootfs' = IF Which("squashtool") THEN Extracted(rootfs, request.kit, i)
                                             ELSE ExtractedOver(rootfs, request.kit, i)
        /\ applied' = i
        /\ Goto(IF i = Len(request.kit) THEN "rename" ELSE "unsquash")
        /\ UNCHANGED <<request, dirvars, kitDir, next, todo, treevars, output>>

\* unpackSquashLayersViaAtomfs, up to the mount: an error before it runs the
\* cleanup function, an error of the mount itself does not.
MountMolecule ==
    /\ phase = "atomfs"
    /\ \/ Fail /\ UNCHANGED <<temps, stuck, mounted>>              \* TempDir
       \/ /\ Fail                                                  \* Mkdir, BuildMolecule
          /\ \/ UNCHANGED <<temps, stuck>>
             \/ temps' = temps \cup {"unsquash"} /\ stuck' = stuck \cup {"unsquash"}
          /\ UNCHANGED mounted
       \/ /\ Fail                                                  \* Mount
          /\ temps' = temps \cup {"unsquash"} /\ UNCHANGED <<stuck, mounted>>
       \/ /\ Goto("copyout") /\ AllOfKind(request.kit, "squash")
          /\ temps' = temps \cup {"unsquash"} /\ mounted' = TRUE /\ UNCHANGED stuck
    /\ UNCHANGED <<request, deferred, kitvars, next, todo, treevars, output>>

\* The copy out of the mount, and the cleanup that follows whether or not it
\* worked: after a failed Umount the directory is left alone.
CopyOut ==
    /\ phase = "copyout"
    /\ \/ /\ mounted' = FALSE /\ temps' = temps \ {"unsquash"} /\ UNCHANGED stuck
          /\ Goto("rename") /\ UnpackAll
       \/ /\ mounted' = FALSE /\ temps' = temps \ {"unsquash"} /\ UNCHANGED stuck
          /\ Fail /\ UNCHANGED <<rootfs, applied>>
       \/ /\ mounted' \in BOOLEAN /\ UNCHANGED temps /\ stuck' = stuck \cup {"unsquash"}
          /\ Fail /\ UNCHANGED <<rootfs, applied>>
    /\ UNCHANGED <<request, deferred, kitDir, next, todo, treevars, output>>

\* The entries of rootfs move up, and ociExtractRef returns.
RenameEntries ==
    /\ phase = "rename"
    /\ Remove({"xdir", "oci"})
    /\ Goto("locate")
    /\ UNCHANGED <<request, mounted, kitvars, next, todo, treevars, output>>

\* A layer of the kit brings the directory export.  It stays when its files are
\* deleted one by one, and goes when a whiteout names it.
BringsExport ==
    \E i \in 1 .. Len(request.kit) : \E p \in request.kit[i].adds : IsBelow(<<"export">>, p.dir)

\* The rest of getBootKit: a directory export is entered, be it empty.  The loop
\* over the required directories reports nothing.
LocateKit ==
    /\ phase = "locate"
    /\ \/ kitDir' = "export" /\ BringsExport
       \/ kitDir' = "top" /\ \A f \in rootfs : ~IsBelow(<<"export">>, f.at.dir)
    /\ Goto("create")
    /\ UNCHANGED <<request, dirvars, rootfs, applied, next, todo, treevars, output>>

-----------------------------------------------------------------------------
(* The tree.                                                               *)

MakeCreateDir ==
    /\ phase = "create"
    /\ MakeTemp("create", IF request.cdrom THEN "imgdir" ELSE "boot")
    /\ UNCHANGED <<request, stuck, mounted, kitvars, next, todo, treevars, output>>

\* For an iso the ESP comes first, from a directory of its own.
MakeEspDir ==
    /\ phase = "imgdir"
    /\ MakeTemp("esp", "efi")
    /\ UNCHANGED <<request, stuck, mounted, kitvars, next, todo, treevars, output>>

BootMode == IF request.mode # "efi-auto" THEN request.mode
            ELSE IF KitHas("shim.efi") THEN "efi-shim" ELSE "efi-kernel"

\* The files PopulateEFI copies from the kit: in mode efi-kernel the kernel
\* goes to the top of the tree.
Copies == IF BootMode = "efi-shim"
            THEN Put(Put(NoTree, Place(EFIBootDir, <<"shim.efi">>), KitFile("shim.efi")),
                     Place(EFIBootDir, <<"kernel.efi">>), KitFile("kernel.efi"))
            ELSE Put(NoTree, Place(<< >>, <<"kernel.efi">>), KitFile("kernel.efi"))

Programs == IF BootMode = "efi-shim" THEN <<"shim.efi", "kernel.efi">> ELSE <<"kernel.efi">>

\* The root that a boot layer makes.
BootRoot == [kind |-> "soci", args |-> <<[key |-> "name", val |-> "live-boot:latest"],
                                         [key |-> "dev", val |-> Label]>>]

\* The boot layer is the root, whatever --cmdline says.
FullCmdlineLast == request.cmdline \o (IF request.boot = << >> THEN << >> ELSE <<BootRoot>>)

\* The boot layer becomes the root, unless the words of --cmdline say otherwise.
FullCmdline == (IF request.boot = << >> THEN << >> ELSE <<BootRoot>>) \o request.cmdline

WithEFI(tree) ==
    LET all == Put(Copies, Startup, Script(Programs, FullCmdline))
    IN  [p \in DOMAIN tree \cup DOMAIN all |-> IF p \in DOMAIN all THEN all[p] ELSE tree[p]]

PopulateEFI ==
    /\ phase = "efi"
    /\ \A f \in {Programs[i] : i \in 1 .. Len(Programs)} : KitHas(f)
    /\ IF request.cdrom THEN esp' = WithEFI(esp) /\ UNCHANGED staged
                        ELSE staged' = WithEFI(staged) /\ UNCHANGED esp
    /\ Goto(IF request.cdrom THEN "genesp" ELSE "disk")
    /\ UNCHANGED <<request, dirvars, kitvars, next, todo, output>>

\* genESP: mcopy takes the directory efi only.  Its Truncate ends the process
\* on the spot when it fails, deferred calls and all.
GenESP ==
    /\ phase = "genesp"
    /\ LET image == [p \in {q \in DOMAIN esp : IsBelow(<<"efi">>, q.dir)} |-> esp[p]]
       IN  /\ esp' = image
           /\ staged' = Put(staged, ESPImage, Place(<<"esp">>, << >>))
    /\ Remove({"esp"})
    /\ Goto("boot")
    /\ UNCHANGED <<request, mounted, kitvars, next, todo, output>>

TruncateFails ==
    /\ phase = "genesp"
    /\ phase' = "done" /\ result' = "fatal"
    /\ UNCHANGED <<request, dirvars, kitvars, next, todo, treevars, output>>

CopyBootLayer ==
    /\ phase = "boot"
    /\ IF request.boot = << >> THEN UNCHANGED staged
                               ELSE CopyImage(request.boot[1], BootLayer)
    /\ Goto("repo")
    /\ UNCHANGED <<request, dirvars, kitvars, next, todo, esp, output>>

\* The flag is a list of strings and is read as one string: urfave/cli renders
\* the list in brackets.
RepoDir == IF request.repos = << >> THEN Empty ELSE "[" \o request.repos[1] \o "]"

\* rsync of the repository, if RepoDir is a directory of the host.
SyncRepo ==
    /\ phase = "repo"
    /\ \/ request.repos = << >> /\ UNCHANGED staged
       \/ /\ request.repos # << >> /\ RepoDir \in request.files
          /\ staged' = Put(staged, RepoDest, Place(<<RepoDir>>, << >>))
    /\ Goto("layers")
    /\ UNCHANGED <<request, dirvars, kitvars, next, todo, esp, output>>

CopyLayer ==
    /\ phase = "layers" /\ next <= Len(request.layers)
    /\ IsOciRef(request.layers[next])
    /\ CopyImage(request.layers[next], LayerDest(request.layers[next]))
    /\ next' = next + 1
    /\ UNCHANGED <<request, phase, result, dirvars, kitvars, todo, esp, output>>

LayersDone ==
    /\ phase = "layers" /\ next > Len(request.layers)
    /\ Goto("modules")
    /\ UNCHANGED <<request, dirvars, kitvars, next, todo, treevars, output>>

CopyModules ==
    /\ phase = "modules"
    /\ KitHas("modules.squashfs")
    /\ staged' = Put(staged, ModulesDest, KitFile("modules.squashfs"))
    /\ Goto("files")
    /\ UNCHANGED <<request, dirvars, kitvars, next, todo, esp, output>>

\* One of the inserted files: the order is that of a Go map.
InsertFile ==
    /\ phase = "files"
    /\ \E src \in todo :
          LET dest == Insert(request, src)
          IN  /\ src \in request.files /\ DirExists(staged, dest.dir)
              /\ staged' = Put(staged, dest, Place(<<"host">>, <<src>>))
              /\ todo' = todo \ {src}
    /\ UNCHANGED <<request, phase, result, dirvars, kitvars, next, esp, output>>

FilesDone ==
    /\ phase = "files" /\ todo = {}
    /\ Goto(IF request.cdrom THEN "iso" ELSE "efi")
    /\ UNCHANGED <<request, dirvars, kitvars, next, todo, treevars, output>>

-----------------------------------------------------------------------------
(* The image.                                                              *)

\* xorriso: one program writes the iso.
WriteIso ==
    /\ phase = "iso"
    /\ \/ output' = "whole" /\ phase' = "unwind" /\ result' = "ok"
       \/ output' \in {"old", "partial"} /\ Fail
    /\ UNCHANGED <<request, dirvars, kitvars, next, todo, treevars>>

\* genGptDisk: the output is truncated and gets a partition table.
GenGptDisk ==
    /\ phase = "disk"
    /\ \/ output' = "partial" /\ (Goto("mcopy") \/ Fail)
       \/ Fail /\ UNCHANGED output
    /\ UNCHANGED <<request, dirvars, kitvars, next, todo, treevars>>

\* mkfs.fat and mcopy, or go-diskfs: the file system in the partition.
FillDisk ==
    /\ phase = "mcopy"
    /\ \/ output' = "whole" /\ phase' = "unwind" /\ result' = "ok"
       \/ UNCHANGED output /\ Fail
    /\ UNCHANGED <<request, dirvars, kitvars, next, todo, treevars>>

\* The removals still deferred, then Cleanup, and the verdict is reported.
Unwind ==
    /\ phase = "unwind"
    /\ Remove(deferred)
    /\ phase' = "done"
    /\ UNCHANGED <<request, result, mounted, kitvars, next, todo, treevars, output>>

KitStep == \/ Start \/ GetBootKit \/ PullKit \/ UnpackLayer \/ UnpackNothing \/ ExtractSquash
           \/ MountMolecule \/ CopyOut \/ RenameEntries \/ LocateKit
TreeStep == \/ MakeCreateDir \/ MakeEspDir \/ PopulateEFI \/ GenESP \/ TruncateFails
            \/ CopyBootLayer \/ SyncRepo \/ CopyLayer \/ LayersDone \/ CopyModules
            \/ InsertFile \/ FilesDone
ImageStep == WriteIso \/ GenGptDisk \/ FillDisk \/ Unwind \/ StepFails

Terminated == phase = "done" /\ UNCHANGED vars

Next == KitStep \/ TreeStep \/ ImageStep \/ Terminated

Spec == Init /\ [][Next]_vars

-----------------------------------------------------------------------------
(* Properties.                                                             *)

Phases == {"start", "kit", "pull", "failed", "unpack", "unsquash", "atomfs", "copyout",
           "rename", "locate", "create", "imgdir", "efi", "genesp", "boot", "repo", "layers", "modules", "files",
           "iso", "disk", "mcopy", "unwind", "done"}

\* The type invariant: the indices of the next layer and of the kit's last stay
\* within their lists or one past it.
TypeOK ==
    /\ request \in Requests /\ phase \in Phases
    /\ result \in {"none", "ok", "error", "fatal"}
    /\ temps \subseteq Temps /\ deferred \subseteq Temps /\ stuck \subseteq Temps
    /\ mounted \in BOOLEAN /\ kitDir \in {Empty, "top", "export"}
    /\ applied \in 0 .. Len(request.kit)
    /\ next \in 1 .. Len(request.layers) + 1
    /\ todo \subseteq Sources(request)
    /\ output \in {"old", "partial", "whole"}

\* Whatever step fails, a temporary directory survives the run for one of four
\* reasons only: its removal or unmount failed; mounting the molecule failed,
\* which alone among the errors skips the cleanup (utils.go:190); log.Fatalf
\* ended the process (main.go:755); the kit's image has no layers, and the panic
\* (main.go:225) leaves the kit's directory, whose removal is not registered yet.
OnlyKnownLeaks ==
    phase = "done" =>
        \A t \in temps : \/ t \in stuck
                        \/ (t = "unsquash" /\ result = "error" /\ kitDir = Empty)
                        \/ (t \in deferred /\ result = "fatal" /\ kitDir # Empty)
                        \/ (t = "kit" /\ result = "fatal" /\ request.kit = << >>)

\* The directory of the mount outlives the mount: nothing removes what is under
\* it while the kit's layers are mounted there, and a run that mounted them and
\* succeeded has unmounted them.
MountIsUndone ==
    /\ mounted => "unsquash" \in temps
    /\ mounted /\ phase # "copyout" => result = "error" /\ "unsquash" \in stuck

\* unsquashfs extracts the kit's layers, and one of them has a whiteout.
WhiteoutsIgnored ==
    /\ request.kitIsRef /\ ~request.root /\ ~Which("squashtool")
    /\ AllOfKind(request.kit, "squash") /\ HasWhiteouts(request.kit)

\* The kit is what its image says: whichever program extracts the layers, and
\* as whichever user, each file of the image is there in its last version, and
\* nothing an upper layer deleted is.  Only unsquashfs brings deleted files back,
\* as a shim.efi that then decides the boot mode.
KitIsItsOverlay ==
    kitDir # Empty =>
        /\ Overlay(request.kit, Len(request.kit)) \subseteq rootfs
        /\ rootfs = Overlay(request.kit, Len(request.kit)) \/ WhiteoutsIgnored

\* A reference of the host, in the image.
InImage(ref) == <<<<"oci">>>> \o Tail(ref)

\* The inserts that no later one with the same source replaces.
LastInserts(r) ==
    {i \in 1 .. Len(r.inserts) : \A j \in i + 1 .. Len(r.inserts) : r.inserts[j].src # r.inserts[i].src}

\* What the command line asks to be in the tree, and from where.
Wanted ==
    LET image(ref, dest) == [at |-> TargetPlace(dest), from |-> SourcePlace(ref, request.images)]
        r == request
    IN  {image(r.boot[i], BootLayer) : i \in 1 .. Len(r.boot)}
        \cup {image(r.layers[i], InImage(r.layers[i])) : i \in 1 .. Len(r.layers)}
        \cup {[at |-> RepoDest, from |-> Place(<<RepoDir>>, << >>)] : i \in 1 .. Len(r.repos)}
        \cup {[at |-> ModulesDest, from |-> KitFile("modules.squashfs")]}
        \cup {[at |-> r.inserts[i].dest, from |-> Place(<<"host">>, <<r.inserts[i].src>>)] :
                 i \in LastInserts(r)}

\* What the tool adds to the tree: the boot files and the ESP image.
Tools == {p \in DOMAIN staged : IsBelow(<<"efi">>, p.dir)}
         \cup {Place(<< >>, <<"kernel.efi">>), ESPImage}

\* Success means that every image and file of the command line is in the tree,
\* save one that another of them was written over, and nothing else is there but
\* the boot files: no failed copy is skipped, no layer is forgotten, a kit without
\* its modules gives no image, and of the inserts of one source the last counts.
ImageAsRequested ==
    result = "ok" =>
        /\ KitHas("modules.squashfs")
        /\ \A w \in Wanted : /\ w.at \in DOMAIN staged
                             /\ \/ \E v \in Wanted : v.at = w.at /\ staged[w.at] = v.from
                                \/ w.at \in Tools
        /\ DOMAIN staged \subseteq {w.at : w \in Wanted} \cup Tools

\* Where the firmware finds the boot files: the ESP image of an iso, or the file
\* system of a disk.
FirmwareTree == IF request.cdrom THEN esp ELSE staged

\* An insert took the place of the generated ESP image.
EspReplaced == request.cdrom /\ staged[ESPImage] # Place(<<"esp">>, << >>)

\* A shim boot finds what startup.nsh runs: the script, and each program it names
\* in the directory it changes to, as they came from the kit.  PopulateEFI comes
\* after the inserts for a disk, and into a tree of its own for an iso, so that no
\* insert takes their place but one of the whole ESP image.
ShimBootFindsItsFiles ==
    result = "ok" /\ BootMode = "efi-shim" /\ ~EspReplaced =>
        /\ Startup \in DOMAIN FirmwareTree
        /\ \A i \in 1 .. Len(Programs) :
              LET p == Place(EFIBootDir, <<Programs[i]>>)
              IN  /\ FirmwareTree[Startup].name[i] = Programs[i]
                  /\ p \in DOMAIN FirmwareTree /\ FirmwareTree[p] = KitFile(Programs[i])

\* Every layer has a name ("oci:dir::tag" is accepted, with an empty one), and no
\* insert goes to the top of the directory oci: either makes an index there.
NoTopIndex ==
    /\ \A i \in 1 .. Len(request.layers) : Len(request.layers[i]) = 3 /\ request.layers[i][2] # Empty
    /\ \A i \in 1 .. Len(request.inserts) : request.inserts[i].dest.dir # <<"oci">>

\* A layer that was copied to the image is found there by the reference it was
\* given with: newOciPath reads what doCopy wrote.
LayersReadBack ==
    result = "ok" /\ NoTopIndex =>
        \A i \in 1 .. Len(request.layers) :
            SourcePlace(InImage(request.layers[i]), DOMAIN staged) \in DOMAIN staged

\* The output file is touched only when everything else is done: a run that
\* cannot collect what it needs leaves an old image as it was.
OutputIsWrittenLast ==
    [][output' # output =>
          /\ \A w \in Wanted : w.at \in DOMAIN staged
          /\ todo = {} /\ Startup \in DOMAIN FirmwareTree]_vars

\* The tool implements Publish: it reports success exactly when the new image is
\* whole, and after the verdict changes nothing.
Handed == INSTANCE Publish WITH
    verdict <- IF phase # "done" THEN "none" ELSE IF result = "ok" THEN "ok" ELSE "failed"
KeepsPublishPromise == Handed!Spec

-----------------------------------------------------------------------------
(* Statements of the source that the program does not keep.                *)


\* "populate destd with files for an efi tree" (main.go:645): what the script
\* in it runs is somewhere on the file system that the firmware reads, whatever
\* the boot mode.
StartupFindsItsFiles ==
    result = "ok" =>
        \A i \in 1 .. Len(Programs) : \E p \in DOMAIN FirmwareTree : p.name = <<Programs[i]>>
=============================================================================
