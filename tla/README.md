# bootkit in TLA+

bootkit builds and boots machines whose kernel, initrd and root filesystem are
verified: OCI layers are built, signed and put on an image (`custbk`, `bkcust`,
`oci-boot`), and the initrd's `soci` dracut module turns `root=soci:...` on the
kernel command line into a mounted root. This directory holds a model of the
program, the properties it is meant to have, the TLC runs that check them on
small instances and the proofs that hold for every instance.

## Inventory

| component | code | state | operations | interacts with | what is hard |
|---|---|---|---|---|---|
| soci dracut module | `layers/build-krd/dracut/soci` | `SOCI_*` variables, the finished mark, mounts, PCR 7 | hooks `cmdline`, `initqueue/finished`, `initqueue/settled` | dracut's loop, udev, zot, mosctl, the TPM | re-entry, devices that come late or go, unchecked commands, a registry that dies |
| oci-boot | `go/cmd/oci-boot` | the extracted boot kit, a temporary tree, a list of cleanups, the image | `Create`, `Populate`, `PopulateEFI`, `genESP`, `Cleanup` | umoci, atomfs, mtools, xorriso | partial failures, sizes, what is copied where, four ways to extract a layer |
| bkcust | `go/cmd/bkcust`, `go/pkg` | files that are rewritten in place | `set-db`, `virtfw`, `sign-efi`, `smoosh`, `initrd-join` | objcopy, sbsign, virt-fw-vars | order of writing and signing, in-place updates, header arithmetic |
| custom layer | `layers/custom/custom.yaml` | the working directory of one build | one fixed pipeline of `bkcust` commands | bkcust | the chain of trust |
| custbk | `tools/custbk` | output files | `build_esl`, `initrd_join`, `shim_set_db`, `smoosh`, ... | the same tools as bkcust | temporary files, statuses of pipes, appended output |
| build-initrd, create-cpio | `tools/` | `/boot`, a temporary and an output directory | build the core or the modules, compress | dracut, cpio, pigz | which archive exists, and whose it is, when a step fails and the tool is run again |
| pkgtool | `layers/minbase/pkgtool` | package lists and a marker of their age | install, upgrade, clean, remove | apt | freshness of a cache |
| kernel layers | `layers/kernel/stacker.yaml` | what the next layers import | one recipe | pkgtool, build-initrd | that all of it is of one kernel |
| other layers, make files, CI | `layers/*/stacker.yaml`, `Makefile` | none of their own | straight-line recipes | stacker | - |

What makes each of them correct:

* **soci**: the root is handed over only when it is complete, once; the TPM is
  extended at most once, whatever dracut repeats; a boot that is not ours is
  untouched; the boot ends, with a late device found; the command line means
  what its documentation says.
* **oci-boot**: every requested file and layer is in the image; the ESP is large
  enough for what is copied; a failure leaves no temporary directory or mount; the
  boot kit is what its layers stand for, whichever program extracts them; what is
  on the image is what the soci module looks for when it boots.
* **bkcust and the custom layer**: each signed binary verifies with the key its
  verifier trusts, and nothing is written to it after it is signed; the vendor
  db section reads back what was written.
* **custbk, build-initrd, pkgtool**: an output that is reported is there and whole,
  and depends only on the inputs of this run; where a tool does not look how a step
  went, what is old or torn is at least nothing else than what that step makes.

## Modules

| part | modules | proofs | TLC module |
|---|---|---|---|
| soci | `SociArgs`, `SociCmdline`, `SociBoot`; promise: `BootHandover` | `SociCmdlineProofs`, `SociBootProofs` | `MCSociCmdline`, `MCSociBoot` |
| oci-boot | `OciRef`, `Layers`, `OciBoot`; promise: `Publish` | `OciBootProofs` | `MCOciBoot` |
| an image and its boot | `BootMedia` (`OciBoot` and `SociArgs`) | `OciBootProofs` | `MCOciBoot` |
| the ESP of an iso | `EspSize` | `EspSizeProofs` | `MCEspSize` |
| bkcust and custbk commands | `Artifacts`, `Bkcust`; promise: `Commands` | `BkcustProofs` | `MCBkcust` |
| the vendor db of a shim | `ShimDB` | `ShimDBProofs` | `MCShimDB` |
| custom layer | `Customize` (a script for `Bkcust`); promise: `Publish` | `CustomizeProofs` | `MCCustomize` |
| build-initrd, pkgtool and the kernel layers | `BuildInitrd`, `Pkgtool`; together: `KernelLayer` | `KernelLayerProofs` | `MCKernelLayer` |

The parts meet in files, not in calls: the kernel layers make a kernel and the
initrd's archives, the custom layer makes the boot files that oci-boot puts on an
image, and the initrd in one of them runs the soci hooks. Three of these meetings
are modelled as compositions: `Customize` runs the commands of `Bkcust`,
`KernelLayer` runs `Pkgtool` and then `BuildInitrd`, and `BootMedia` reads an image
of `OciBoot` with the parser of the soci module. Otherwise each part is a
specification of its own; what one of them assumes of another
(that `kernel.efi` is a whole file, that the device holds a zot repository) is an
input that may also be missing or broken.

## Plan

Every component with a state of its own is modelled, and every invariant, action
property and refinement that a run checks is a theorem (and the types of `EspSize`,
which no run checks). What is left:

1. the lemmas that several proofs carry in a form of their own (the last of some
   positions of a list, short sequences) in one place;
2. file modes in `Bkcust` (`sign-efi` creates its output with mode `0x755`, which
   is `03525`: its owner may not write it again), and the proofs with them.

Out of the prover's reach, and only model-checked: the two liveness properties of
`soci_boot`, `BootEnds` and `LateDeviceIsPickedUp`, which need fairness and
`ENABLED`. That no run stops before `Terminated` is TLC's deadlock check.

## The soci module

`SociArgs` gives the value of the `SOCI_*` variables as a function of the command
line (`SetVars`). A token is a key with a value; the keys `safe_string` refuses
are the constant `UnsafeKeys`. Keys that collide with the module's own variables
(`SOCI_ENABLED` and its like) are not among the inputs.

`SociCmdline` is the loop that computes it, one word or one token a step.

`SociBoot` is the three hooks. dracut sources them into one shell, so there is
one sequential process; `phase` says which command comes next, and each action
is one command, or one check, with every outcome the script distinguishes or
ignores:

| phase | action | code |
|---|---|---|
| `cmdline` | `CmdlineHook` | `soci-cmdline.sh:6-30` |
| `check` | `CheckFinished` | `soci-finished.sh:4-16` |
| `settled` | `SettledIdle`, `SettledRuns` | `soci-settled.sh:136-151` |
| `mountdev` | `MountDev` | `soci-settled.sh:150-170` |
| `guard` | `CheckMark` | `soci-settled.sh:172-181` |
| `startzot`, `zotwait` | `StartZot`, `PollZot` | `soci-settled.sh:68-111,181-188` |
| `rootfs`, `createfs` | `MountBootDirs`, `CreateBootFs` (name=mosboot) | `soci-settled.sh:113-133` |
| `rootfs`, `mosmount` | `MountTmpfs`, `MosctlMount` (any other name) | `soci-settled.sh:202-222` |
| `catalog` | `ShowCatalog`, of a root that could not be mounted | `soci-settled.sh:123-128,215-220` |
| `action`, `extend` | `RunMosctl`, `SavePcr`, `ExtendPcr` | `soci-settled.sh:224-253` |
| `move`, `persist` | `MoveMounts`, `Persist` | `soci-settled.sh:257-279` |
| `modules` | `SkipModules`, `MountModules`, and the mark | `soci-settled.sh:36-65,288-293` |
| `next` | `LoopEnd` | dracut |

`soci_die` is the terminal phase `dead`: dracut's `die` does not return. A command
whose status the script checks fails into `dead`; one whose status it ignores
fails into the same next phase without its effect. `machine` is the machine being
booted: command line, boot device, image, and whether the initrd has its
dependencies. udev (`DevAppears`, `DevVanishes`), zot (`ZotUp`, `ZotDies`,
`ZotHangs`: it takes connections and answers none) and
dracut's other hooks (`OthersFinish`) act between any two commands.

External, modelled from how the scripts use them: dracut's loop, udev, zot,
mosctl (it needs zot and its store when the registry is local), the TPM. Left
out: logging; the variables `rootok` and `root`, read only by dracut; the spelling
of device names in `short2dev`; `/priv/factory` and the copies of
`manifestCA.pem`, whose statuses nothing reads. The write of the mark, to a tmpfs,
is assumed to succeed.

`BootHandover` is the promise: a root handed over only when mounted, PCR 7
extended at most once and only then, and no giving up in between. `SociBoot`
implements it with `outcome` read off the phase and the mark (`Outcome`).

### Runs

| run | shows | distinct states |
|---|---|---|
| `soci_cmdline` | the loops compute `SetVars`; documented keys may come in any order | 10,645 |
| `soci_boot` | type, safety, action properties, refinement; unless a silent zot holds it, the boot ends and picks up a late device | 210,570 |
| `soci_pcr_announced` | counterexample: "PCR7 has been extended" after a failed extension | |

Bounds. `RdRetry = 2` gives dracut three turns: one that waits for the device, one
that builds the root, one that finds the mark; a fourth would repeat the third,
since nothing but the environment changes after the mark. `ZotTries` is the
code's own 5. `MaxTokens = 3` is enough for a duplicate key with another between
its occurrences, and for an unsafe key with tokens on both sides. `AllMachines`
has one machine at least for each branch of the scripts: `oci` or `path`
missing, a file or a directory; modules image absent, of this kernel or another,
with and without modules in the root; all four mos-actions; local, remote and no
registry; with and without a device; the command lines that die.

Fairness. The run checks `FairSpec`; the safety properties do not need it, and
the proofs are about `Spec`. `FairSpec` asks that the boot process keeps running: a
shell runs its next command once the last one has returned. The commands that ask zot
need not return: `curl` is called without a time limit (`soci-settled.sh:79`, 125,
217), and `mosctl` asks the same registry (212). So fairness is of
`BootStep /\ ~Unanswered`, where `Unanswered` says that the command at hand asks a zot
that keeps silent; it may end all the same, since curl or a peer may give up.
Nothing is asked of udev, zot or the other hooks: the device may never appear, zot may
never be there, never answer, or die. `BootEnds` and `LateDeviceIsPickedUp` hold but for
behaviours that are `Unanswered` again and again: the five polls are a bound on the
answers, not on the time, and "Timed out waiting for zot" (84) is not reached by a
zot that is silent. Every other external program (mount, mosctl without a local
registry, the tpm2 tools) is assumed to return.

### Proofs

`SociCmdlineProofs` proves, for command lines of any number of words and tokens, that
the loops compute `SetVars` and that `OrderIsNotImportant`. The invariant says of
each loop what its first `i - 1` elements have left: the last `root=` among the
words read, and for each key the value of the last token that sets it, with no
unsafe key before (`WordsInv`, `TokensInv`); `EndInv` carries that to the end, where
"the last of those read" and the `CHOOSE` of the last in `SociArgs` are the same.
`CmdlineAssumption` asks that the module's own keys are safe and that what the shell
assigns is a value.

`SociBootProofs` proves, for every set of machines and every `RdRetry`, that the
hooks keep `TypeOK`, `FinishedMeansReady`, `PcrDiscipline`, `MountedOnce`,
`NotOursIsUntouched` and `LaterPassesDoNothing`, and that they implement
`BootHandover`. None of these is inductive: `FinishedMeansReady` says nothing of
the phases before the mark, so a state in phase `modules` with an unmounted root
satisfies it and its successor does not. `IInv` adds what each phase may rely on:

* `RootInv`: before the root is mounted nothing was moved, extended or saved;
  from then on each phase has what its predecessors made;
* `DeviceInv`: past `mountdev`, and once the mark is there, a device that was
  asked for is mounted exactly once;
* `EnabledInv`, `DeadInv`: only the boot of an soci root leaves the loop or dies;
* `MarkInv`: with the mark, the process is in the loop; this is where the test of
  the mark and `ismounted` matter, and it makes later passes harmless;
* `PollInv`: zot is polled only while the count is positive.

One lemma shows each part preserved; `NextIInv` puts them together, and
`HandoverStep` maps every step to a step of `BootHandover` or a stutter. The
assumptions are `MachinesAssumption` (the fields of a machine have their types),
`RdRetryAssumption` and `NoneAssumption` (None is not a value of the shell
variables); TLC evaluates all three on every run.

The empty string is written `Empty`, since the SMT backend cannot encode the
literal.

Only model-checked: the two liveness properties, which need fairness.

## oci-boot

`OciBoot` is a run of `oci-boot` for a disk or an iso; `phase` is the next step of
the code, and a request is a command line with what the host holds.

| phase | action | code (`main.go`, `utils.go`) |
|---|---|---|
| `start`, `kit`, `pull` | `Start`, `GetBootKit`, `PullKit` | `doMain`, `getBootKit`, `ociExtractRef` |
| `unpack`, `rename` | `UnpackLayer`, `RenameEntries` | `unpackLayerRootfs`, `UnpackLayer` |
| `atomfs`, `copyout` | `MountMolecule`, `CopyOut` | `unpackSquashLayersViaAtomfs` |
| `locate` | `LocateKit` | the rest of `getBootKit` |
| `create`, `imgdir` | `MakeCreateDir`, `MakeEspDir` | `CreateDisk`, `Create` |
| `boot`, `repo`, `layers`, `modules`, `files` | `CopyBootLayer`, `SyncRepo`, `CopyLayer`, `LayersDone`, `CopyModules`, `InsertFile`, `FilesDone` | `Populate` |
| `efi`, `genesp` | `PopulateEFI`, `GenESP`, `TruncateFails` | `PopulateEFI`, `genESP` |
| `iso`, `disk`, `mcopy` | `WriteIso`, `GenGptDisk`, `FillDisk` | `Create`, `CreateDisk` |
| `unwind` | `Unwind` | the deferred calls, `Cleanup` |

`temps` are the temporary directories, `deferred` those whose removal is due when
a function returns, `stuck` those whose removal failed: a removal may always
fail, and the code ignores it. `staged` and `esp` are trees, from a place to what
was copied there, so that a later copy over an earlier one, and the difference
between the tree of the image and that of its ESP, are visible. `OciRef` is how
an OCI reference is read: a layout with an `index.json` at its top, or a tree of
layouts as zot writes them; which of the two is found out by looking
(`newOciPath`), so it depends on what was copied before. `StepFails` fails any
step on its own; a missing input leaves only that.

`EspSize` is `getDirSize` and `genESP` in numbers: the sizes of the files, 5% on
top in integer arithmetic, and what `mkfs.fat -s 1 -F 32` and `mcopy` make of an
image of that size. The layout of the file system (sectors, FATs, clusters) is
external.

`Layers` is what the layers of an image stand for (`Overlay`) and what a program
makes of a directory when it puts one of them over it, with the whiteouts taking
effect (`Extracted`) or not (`ExtractedOver`). The kit's media type, whether the
user is root, the id maps of one who is not, and the programs in `PATH` decide who
extracts: umoci (`UnpackLayer`, of nothing when there is no layer of its kind),
squashtool or unsquashfs layer by layer (`ExtractSquash`), or the mount of atomfs
and a copy (`MountMolecule`, `CopyOut`). unsquashfs by a user who is not root cannot
make the device nodes that whiteouts are, so `KitIsItsOverlay` excepts it for kits
that delete something.

`BootMedia` composes the image with the soci module: `FirmwareTree` is what the
firmware finds, startup.nsh there has a command line, and `SociArgs!SetVars` is what
the initrd's hook makes of it. `CommandLineFitsImage` relates the three places where
the layout of an image is written down: `PopulateEFI`, `Populate` and
`soci-settled.sh`. It says what the module reads, and that the directory it needs,
the layer and the modules are where a boot from the volume would look. It does not
say that the layer is booted: the `root=` of a boot layer has no `repo`, so the
module does not start the zot that would serve the volume. That is
`BootLayerIsTheRoot`, which the run `oci_boot_root` shows violated. An iso in mode
`efi-kernel` does not come as far as its command line (`oci_boot_startup`).

`LocateKit` may find an empty directory `export`, when the files that brought it were
deleted one by one, and takes it for the kit, as `PathExists` does.

External: umoci, squashtool, unsquashfs, atomfs, xorriso, mkfs.fat, mcopy,
go-diskfs, rsync; each works, or fails. The two ways of filling a disk's file
system are one action. Left out: functions nothing calls (`untar`, `writeTemp`,
`adjustOCIRef`, `getImageName`); owners, modes and device files in layers.

| run | shows | distinct states |
|---|---|---|
| `oci_boot` | leaks, mounts, what the kit holds, what is in an image, whether its command line fits it, when the output is touched, `Publish` | 12,596 |
| `esp_size` | files of 1 MiB or more together always fit; a success is one | 2,745 |
| `oci_boot_startup` | counterexample: in mode `efi-kernel` an iso has no kernel on its ESP | |
| `oci_boot_root` | counterexample: a boot layer's `root=` names no `repo`, and the layer on the image is never read | |

Bounds. 162 command lines and hosts: disk and iso with each boot mode and kit
(shim, kernel, modules or everything missing, in the top directory or `export`); as
a directory or a reference, of one to three layers of tar or squashfs or one of
each, with files replaced, deleted, and deleted and made again; for root and not,
with and without squashtool and id maps; boot layer absent, given, or nameless,
with the user's own words or root=; up to two further layers, of both layouts, one
of them missing, one nameless, one with an empty name, one named as the boot layer
is; up to three inserts, over each other, into the repository itself, over
generated files, into directories that are not there. Two of each are enough: the
copies are one loop whose iterations meet only in the tree, and what a layer does
to those below it does not depend on how they came about (three are needed to
delete and make again). A layer called `live-boot:latest` takes the place of the
boot layer. What puts an `index.json` at the top of the directory `oci` hides the
layers below it: a nameless layer, one with an empty name (`oci:dir::tag`, which
`newOciPath` takes), an insert. `NoTopIndex` excepts them, and the code says
nothing against any. Three tokens alone are not enough: the proof failed on the
empty name. For the ESP, sizes just below and above a cluster, a block and 1 MiB; below 1 MiB the
reserved sectors and the FATs do not fit in 5%, and a run may fail, but never with
a report of success.

There is no fairness and no liveness: the tool is sequential and every step moves
`phase` forward (the runs check that it never stops elsewhere than in
`Terminated`).

Proofs. `OciBootProofs`, for every set of requests: `TypeOK`, `OnlyKnownLeaks`,
`MountIsUndone`, `KitIsItsOverlay` and the refinement of `Publish`. `IInv` adds to
`TypeOK`:

* `VerdictInv`: a verdict is there exactly in the last two phases;
* `OutputInv`: the output is whole with the verdict "ok" and only then, and
  partial only from the phase of its first write on;
* `LeakInv`: before the verdict, a directory that exists is one the phase knows,
  and due for removal or already accounted for; without it nothing says, in
  `Unwind`, that what is not `deferred` was seen to fail;
* `MountInv`: the mount is there in `copyout`, or its unmount failed;
* `KitInv`: what is in the kit's directory after `applied` layers is the overlay of
  the first `applied` of them, for any number of layers.

The last rests on `ExtractingOverlays`, a theorem about the operators of `Layers`:
one layer extracted over the overlay of those below it gives the overlay with it.
For a program that ignores whiteouts this holds where there are none
(`NoWhiteoutsNoDifference`).

`EspSizeProofs`, for files of any sizes: `TypeOK`, `LargeTreesFit` and `SuccessFits`. The
invariant keeps the clusters that are free equal to all clusters less those of
the directories and of the files copied; the arithmetic is in one lemma, that the
layout of an image of 1.05 times the bytes leaves more clusters than the bytes
and the waste of three last clusters need.

The same module proves what is in the image. `TreeInv` is inductive with `IInv`:

* `StageInv`: in which phase how many layers and which inserts have been copied; the
  inserts left are a set of sources, as the map of the code is;
* `HoldsWants`: whatever a finished step was asked for (`LayerWants`, `InsertWants`,
  and so on) lies at its place, or something that another step was asked for, or a
  boot file; and nothing else is in the tree;
* `HoldsEfi`: the boot files, where the firmware reads them, are those of the kit.
  For a disk they come after all copies, for an iso before them and into a tree of
  its own, which is why no insert matters but one of the whole ESP.

`ImageAsRequested`, `ShimBootFindsItsFiles` and `OutputIsWrittenLast` follow. That of
the inserts of one source the last is taken needs that there is a last one, for any
number of them: by well-founded descent over finite sets (`LastExists`), without
induction. `LayersReadBack` needs that no place of the tree is an index above a
layer, and `CommandLineFitsImage` (theorem `MediaFits`) that the words `FullCmdline` writes are the words
`SetVars` reads: it puts the last `root=` of the command line there, and all its
tokens are safe. `RequestsAssumption` says that what `main.go` parses into lists are
lists.

## bkcust and the custom layer

`Artifacts` is the files: a store is a function from paths to files, and a file
is what it was first made from, the parts put into it (sections of an EFI
binary, variables of a firmware, archives of an initrd) and its signatures. A
signature is over the base and the parts as they were, so a later write of a
signed file shows in `Verifies`, without any cryptography; writing sections
drops the signatures, as objcopy does. `Blank` is a file that is empty or cut off.
A gzipped file has its content for its only part: bkcust goes by what a file is,
custbk by its name (`GzNames`), and the two differ when a name lies.

`Bkcust` runs a script of commands on a store. None of them writes its output at
once, and `step` is what the command of the line does next:

| step | action | code |
|---|---|---|
| `begin` | `Begin` | arguments and the checks of them, the temporary file of `doVirtFW` |
| `test`, `rm` | `TestDir`, `RemoveDir` | the shell |
| `truncate`, `fill` | `Truncate`, `Fill` | `CopyFileContents`, `os.WriteFile`, `os.Create` and `io.Copy`, a shell's `>` |
| `certs` | `LoadCerts` | `doSetDB`, `readGuidCertString`, `LoadSignatureDataDir`; custbk `get_guid_cert` |
| `sign` | `SignImage` | `doSignEfi` up to its write |
| `objcopy` | `SetSections` | `obj.SetSections`, for `SetVendorDB` and `Smoosh`; custbk `smoosh`, to a file of its own |
| `vars` | `MakeVars` | `OVMFPopulateSecureBoot`; custbk `virt-fw-vars` |
| `append` | `AppendCpios` | `initrd_join` of custbk after the microcode |
| any | `StepFails` | an error return, with the target cut off if the step writes it, or removed (`create-cpio`) |
| `exit` | `Exit` | the trap of the shell |

`before` is a history variable: the store as the last command left it. With it,
`CommandsAreAtomic` says that the small steps implement `Commands`, in which a
command happens at once: it has `Effect` on the store, or it fails and only its
target is different. That is what a script relies on, and it is not obvious where
a command writes in place: `sign-efi` and `virtfw` without `--output`, `set-db`
onto its own input (which empties it, and fails), `initrd-join` that appends.

`Customize` is `custom.yaml` as such a script, from any `Inputs` (a bootkit and a
keyset, with files missing, cut off or of another key). The shell runs with `-e`,
so the first failure ends it; stacker runs it so, which is external.

Assumed of scripts (`IsSane`): a command does not write to a file it reads later
on, other than its input, nor to the directory of temporary files. The layer's
script is sane, which TLC evaluates; a command line that names one file twice is
outside the model. Left out: file modes; a failure to remove a temporary file;
an `rm -Rf` that stops half way; compressions other than gzip; output to stdout;
the parsing of options; the decoding of PEM, GUIDs and PE/COFF, which is a file that
is readable or not. External: objcopy, virt-fw-vars, cpio, pigz.

| run | shows | distinct states |
|---|---|---|
| `bkcust` | commands are atomic, alone and after one another; one that succeeds has found what it reads | 15,744 |
| `customize` | the chain of trust, the artifacts, no write after a signature, what a build leaves, `Publish` | 3,259 |

Bounds. 38 commands, each with and without its output, onto its input, with
missing and mismatched keys, and all pairs of them (1,482 scripts): commands meet
only in the store, so what two cannot do to one another a third cannot add. For the layer:
the whole bootkit and keyset, and every variant with one file missing, one cut
off, one key of another pair, or one directory gone, and a shim that its vendor has signed
(63 inputs). A key that is not its
certificate's makes no failure (nothing in the build looks), so `ChainOfTrust`
is about keysets whose pairs are pairs.

Proofs. `BkcustProofs`, for every set of sane scripts and every store: `TypeOK`,
`OthersAreUntouched`, `CommandsAreAtomic` and `SuccessFindsItsInput`. A target is whole
until it is truncated (`TargetAlike`), also that of `virtfw` without an output, which works
on the temporary file until then. Atomicity is not
a fact about one step: that `Fill` copies what the command found needs that `Truncate` had changed
nothing else. `StepInv` therefore gives, for each step, the store in terms of
`before`: `ForDB`, `ForVars`, `Whole`, `Begun` are the stores that the commands
make on their way. The lemmas `...Stable` say that what is read from these is what
is read from `before`, which is where `IsSane` is needed; `ReturnsRuns` maps a
returning command to `Atomic!Run`, `FailureSpoilsTarget` a failing one to
`Atomic!Break`.

`CustomizeProofs`, for every bootkit and keyset that has nothing of the build in it
(`InputsAssumption`), proves all five properties of `Customize`. It never looks
into the steps of a command: by `CommandsAreAtomic` the store after a line is `Effect`
of the one before, or the build has failed, and by `SuccessFindsItsInput` what the
line reads was there. So the invariant `BuildInv` only says, for each line of
`Script`, what its predecessors have made of the inputs (`Made`), and that inputs
stay and nothing is made elsewhere (`Kept`). `ChainOfTrust` needs that `SetSections`
drops the signatures and that no line comes between a signature and the tar;
`SignedIsFinal` is also about the steps of a command that fails, which `SignedInv`
(what is signed before line `l` is not the target of a line from `l` on) and the
`StepInv` of `BkcustProofs` give together. A bootkit's shim may have the signature of
its vendor, which `set-db` drops: the property is about signatures of the build.
`GzNamesAssumption`: the four archives have names that custbk takes for gzipped.

## The vendor db of a shim

`ShimDB` is the `.vendor_cert` section that `bkcust shim set-db` and custbk's
`build-esl` with `shim-set-db` write, and what a shim finds there. In `Bkcust` the
section is one part of a file; here it is a header of four words and signature
lists at offsets. A job is a writer and the certificates it is given, each by a key
directory, by a guid and a path, or by a path.

| step | action | code |
|---|---|---|
| `load` | `LoadDir` (bkcust), `AddPem` (custbk), `ListsDone` | `cert.go`, `shim.go:45-79` of bkcust; `custbk:218-264` |
| `header`, `lists` | `WriteHeader`, `WriteLists` | `VendorDBSectionWrite`; `custbk:266-345` |
| `objcopy` | `SetSections` | `SetVendorDB`, `obj.SetSections`, `run.Capture` |
| any | `StepFails` | every other status is checked |

bkcust takes the section's sizes modulo `W` (`uint32`), python's `pack` in custbk
refuses what does not fit. custbk appends each list to a file and asks nobody
whether that worked: a list may be missing, or cut off so that the next one lies
inside of it (`lost`). `Ends` and `RC` are how a command ends and the code that
`run.Capture` has for it. External: the sizes of an `EFI_SIGNATURE_LIST`, objcopy,
cert-to-efi-sig-list, and shim's own reading (`Trusted`, `Revoked`): a list counts
if it lies within what the header gives.

| run | shows | distinct states |
|---|---|---|
| `shim_db` | a shim trusts nothing else (`TrustsNoOther`), and after a success all that was given (`TrustsAll`) | 16,784 |

Bounds. Every list of up to three of six certificates, for both writers: directories
with and without a guid, a certificate that is none, a pair, a path. Lists are 84 and
104 bytes and `W` is 256, so that two fit and three wrap around. Sequential, so there
is no fairness and nothing to be live.

Proofs. `ShimDBProofs` proves `TypeOK`, `TrustsNoOther` and `TrustsAll` for any
`W`, any number of certificates and any sizes (`ShimDBAssumption`). The invariant
says that list `i` is of certificate `i` and begins where list `i - 1` ends
(`AddedIsContiguous`), and that the section, once written, is those lists behind
their header (`ShiftedLists`). What wraps around can then only make a shim see
fewer lists; without wrapping, the size in the header reaches to the end of the last.

## build-initrd, pkgtool and the kernel layers

`BuildInitrd` is `tools/build-initrd`, called once or several times into one output
directory. `boot` is what dracut left in `/boot`, `img` the image that is taken
apart, `out` the archives, each with the try that made it and whether it is whole.

| step | action | code |
|---|---|---|
| `begin` | `BuildBegin` | `main_build` up to its first call of `build`, `build-initrd:273-346` |
| `rm`, `dracut`, `check` | `RemoveOld`, `RunDracut`, `CheckImage` | `build`, 116-173 |
| `modules`, `firmware`, `mv` | `WriteModules`, `WriteFirmware`, `MoveCore` | `build`, 174-258 |
| `next` | `NextMode` | 340-353 |
| `compress` | `Compress`, `Finish` | 355-369 |
| any | `BuildFails`; then `BuildRetry` | the statuses; whoever runs it again |

`Pkgtool` is `layers/minbase/pkgtool`. `unlisted` are the sources that changed after
the package lists were fetched, `newer` those that changed after the marker was
touched; somebody edits a source between two commands. The test of the marker's age
is an error for every file (below), so the marker never counts: this, and not the
marker, is why `ListsAreFresh` holds, and the mutant of that property is the test as
it was meant, which is wrong because `sources.list.d` is misspelt.

`KernelLayer` composes them as `layers/kernel/stacker.yaml` does: `InstallKernel`
runs pkgtool to its end, `FindVersion` wants one kernel, `Build` runs build-initrd,
`Collect` hands on the modules, the initrd and the kernel, and any failure ends the
layer (`LayerFails`). The same module also runs each tool by hand, where a failure
may be followed by another try. External: dracut, apt, cpio, pigz, and who runs the
tools again; that every command may fail is in `BuildFails` and `PkgFails`.

| run | shows | distinct states |
|---|---|---|
| `kernel_layer` | no old archive passes unnoticed for a new one (`BuiltIsNew`), none in use is written (`ArchivesAreFinal`), no old package list is used (`ListsAreFresh`), one kernel (`KitIsOfOneKernel`) | 155,284 |
| `initrd_complete` | counterexample: build-initrd reports success without a whole core, or with torn modules | |

Bounds. `MaxParts` = 3: an image is one archive, two, or more than build-initrd
takes. Up to two kernels, with and without a `modules.dep`. Two tries: what a second
finds, a third finds as well, since only the last one's leavings and the compressed
archives stay. Three commands of pkgtool, quiet or at `-v -v`, the last a quiet
install, with two edits: a fetch, a change after it, and a use.

`missed` is a history variable: the archives that a try did not make whole and did not
notice. There are three ways to miss one: the `mv` of the core fails
(`build-initrd:250`); cpio breaks off in the second archive, which ends the loop of 176-188 as
the end of the image does, and what it had extracted is packed as the modules; dracut
made one archive, so that there is no firmware, and a `firmware.cpio` of an earlier
try, whole or torn, is compressed in its place (355). `BuiltIsNew` and
`KitIsOfOneKernel` are about everything else: every archive that the usage names is there
and whole, or was missed in one of these ways, and the modules are the try's own even
then. That a miss is not an error is `SuccessIsComplete`, violated in `initrd_complete`.

pkgtool gives apt-get `Error-Mode=any`, so that an update fails if it could not fetch a
list; at `-v -v` the options for debugging take its place (`pkgtool:85`), and `Update`
may leave any list as it was. `ListsAreFresh` therefore excepts an install that runs
at `-v -v` itself, and no later one.

There is no fairness: each tool only moves forward, and who tries again need not.
The run checks that nothing stops before `Terminated`.

Proofs. `KernelLayerProofs` proves all five, for any number of tries and kernels and
any edits of the sources (`KernelLayerAssumption`: a job has tries, its kernels are
finitely many). The invariant has a part for each tool and one for the layer:

* `BInv`: what is made so far is of this try and whole, compressed or not, or has been
  missed (`MakesAll`), since no image of an earlier try is there when dracut runs
  (`TakesOwn`), and which mode comes when (`Modes`); a first try finds no archive, so
  that a torn core is its own (`FirstIsWhole`);
* `PInv`: where the marker is touched or packages are installed, `unlisted` is empty,
  unless the command is verbose: no marker saves the fetch, and nobody edits in the middle of a command;
* `LayerInv`: in the layer there is one try, one kernel, and it is the one with a
  `modules.dep` (`OneKernel`, about the cardinality of finite sets).

## Where the program and its texts disagree

Found while modelling, each with a run whose counterexample shows it:

* `oci_boot_startup`: `main.go:645-646` and 740 expect the boot files under `efi/`;
  in mode `efi-kernel` the kernel is at the top of the tree, and the ESP of an iso
  gets `efi/` only.
* `oci_boot_root`: "create disk or iso to boot an oci layer" (`main.go:1045`), but the
  `root=` of `main.go:664` names no `repo`: zot is not started (`soci-settled.sh:181`) and
  mosctl is asked for `/live-boot:latest` (211). The example at `soci/README.md:43`
  has no `repo` either.
* `initrd_complete`: "`--core` create core.cpio.gz" (`build-initrd:19`), but the status of
  the `mv` at 250 is not looked at, nor that of cpio at 179-182 told from the end.
* `soci_pcr_announced`: "PCR7 has been extended" after a failed extension
  (`soci-settled.sh:237-243`).

Smaller ones that the models carry as the code has them, without a run.

soci:

* zot is given the directory `oci` of the device (`soci-settled.sh:184`), although
  `README.md:31-33` beside it says that it serves `path`.
* `wait_on_zot` tests `/proc/$pid` with a `pid` that nothing sets
  (`soci-settled.sh:74`): a dead zot is polled until the count runs out.
* `wait_on_zot` counts to five (`soci-settled.sh:69`), but each poll may take for ever.

oci-boot:

* `--sync-repodir` is a list (`main.go:1071`) read as a string (985): rsync is given
  `[dir]`, and only a directory with brackets in its name can be synchronised.
* the loop over the boot kit's required directories reports nothing
  (`main.go:275-282`), although `main.go:246` promises `bootkit`; a later copy fails.
* `--insert` is a map from sources (`main.go:1002`): of two inserts of one source
  the first is lost.
* a boot kit given as `docker:` is rewritten to `oci:` (`main.go:250`) and not found.
* unsquashfs, for a user who is not root, ignores the whiteouts of a kit's layers:
  what an upper layer deletes is still there (`WhiteoutsIgnored`).

bkcust and custbk:

* a pair of a guid and a certificate cannot be loaded: `certPath` is never set
  (`shim.go:54-72`, `virtfw.go:57-75`; in the model `CanLoad` wants a directory).
* the guid of a key directory is not read: `LoadSignatureDataDir` has an empty owner
  (`cert.go:83`, in the model `Load`), though the test at `cert_test.go:105-106` expects it.
* `bkcust initrd join` never reads its archives (`initrd.go:121-155`); its usage
  names them (line 21).
* bkcust's header wraps around at 2^32 without a word; custbk's refuses.
* the case for a big-endian host sets `LittleEndian` (`shim.go:96-107`).
* `custbk initrd-join` and `build-esl` ask for "at least one pem" and refuse one
  (`custbk:233`, 393).
* `--add-db keydir:x` in two words hands `keydir:x` on as a directory
  (`custbk:170`), and always fails; so does `smoosh -c`, whose option string gives
  `-c` no argument (436).
* `create-cpio` changes its directory before it removes a relative output
  (`create-cpio:34-47`): the partial archive stays, and a file of that name in the
  archived directory goes.
* shim is signed with `uefi-db` (`custom.yaml:89-90`); `README.md:36` says `uefi-pk`.

build-initrd, pkgtool and layers:

* `found` is never "false" (`build-initrd:312-317`): without options nothing is
  built, although line 316 says that the default is all; `--combined` builds nothing.
* `-v -v` takes `Error-Mode=any` from apt-get update (`pkgtool:83-87`): the lists may be
  missing and the update reports success.
* `--modules` makes no `firmware.cpio.gz` when dracut made one archive only
  (`build-initrd:18`, 227); an older `firmware.cpio` is then compressed in its place.
* `test [ f -ot marker ]` is an error for every file (`pkgtool:60`), and the glob
  `sources.listd./` names no directory (68).
* the check of the mos layer for a missing import only echoes (`mos/stacker.yaml:33-38`).

## Not modelled

* Functions that nothing calls: `pkg/initrd` (a reader that is a stub),
  `GUIDFromFile`, and in oci-boot `untar`, `writeTemp`, `adjustOCIRef` and
  `getImageName`. There is no behaviour of the program to be faithful to.
* Owners, modes and device files. `sign-efi` makes a new file with mode `0x755`
  (`signefi.go:67`), so that its owner cannot write it a second time: seen, but not
  a state of the model.
* A failed write of the mark (`soci-settled.sh:293`): it lies on a tmpfs that the
  initrd has just made.
* The parsing of options and the spelling of names, sizes and messages.
* The other layers (downloads, compiles, copies), make files and CI: straight-line
  recipes and the order of make's targets, with no state of their own.
* The programs the tools call (umoci, atomfs, objcopy, virt-fw-vars, xorriso,
  dracut, apt): each is what its callers can see of it, and may fail.
