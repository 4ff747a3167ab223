------------------------------ MODULE SociBoot ------------------------------
(***************************************************************************)
(* The soci dracut module (layers/build-krd/dracut/soci): from root=soci:  *)
(* on the kernel command line to a verified root filesystem ready for      *)
(* switch_root.                                                            *)
(*                                                                         *)
(* dracut runs the cmdline hook once, then loops: the "finished" hooks are *)
(* asked whether the initqueue may end and, while they say no, udev        *)
(* settles and the "settled" hooks run.  One process runs the hooks, one   *)
(* command after another; phase says which command is next.  Devices, the  *)
(* zot registry and dracut's other hooks change between any two commands.  *)
(* A command that fails either kills the boot (soci_die), or fails         *)
(* silently where the script ignores its status.                           *)
(***************************************************************************)
EXTENDS SociArgs, Integers

CONSTANTS Machines,  \* what may be booted: see MachinesAssumption
          RdRetry,   \* turns of dracut's initqueue loop before it gives up (rd.retry)
          None

ZotTries == 5        \* count=5

\* The directories whose mounts the real root inherits, in the order the
\* script moves them; mosboot mounts the ESP as well.
MoveOrder == <<"config", "scratch-writes", "atomfs-store">>
DataDirs == {"config", "scratch-writes", "atomfs-store"}
Dirs == DataDirs \cup {"efi"}
FirstDirs(n) == {MoveOrder[k] : k \in 1 .. n}

\* cmdline:   the kernel command line (see SociArgs)
\* deps:      zot, mosctl, /pcr7data and /manifestCA.pem are in the initrd
\* paths:     what the boot device holds at a path
\* squash:    its krd/modules.squashfs: "none", for the running kernel
\*            ("match") or for another one ("other")
\* action:    the contents of the image's /mos-action
\* inRoot:    the image has modules for the running kernel
MachinesAssumption ==
    \A m \in Machines :
        /\ m.deps \in BOOLEAN
        /\ m.squash \in {"none", "match", "other"}
        /\ m.inRoot \in BOOLEAN
ASSUME MachinesAssumption
ASSUME RdRetryAssumption == RdRetry \in Nat
ASSUME NoneAssumption == None # NotEnabled

VARIABLES
    machine,     \* the machine being booted
    phase,       \* the next command of the boot process
    soci,        \* the SOCI_* variables, None before the first hook
    loops,       \* turns of the initqueue loop
    polls,       \* what is left of wait_on_zot's count
    mark,        \* the finished mark exists
    dmp,         \* how often the boot device is mounted on /run/initramfs/.socidev
    served,      \* the path on the boot device that is bound at /oci, or None
    mounted,     \* the members of Dirs that are mount points in the initrd
    root,        \* the target root is mounted at $NEWROOT
    moved,       \* the members of Dirs moved under the target root
    persisted,   \* pcr7data is copied to the root, and linked
    modules,     \* where the kernel modules of the root come from
    pcr,         \* how many times PCR 7 was extended
    saved,       \* the PCR 7 value in the root's /pcr7.bin, or None
    acted,       \* the status of the mos-action command: "no", "ok" or "failed"
    devPresent,  \* the boot device is a block device in /dev
    zot,         \* the registry: "off", "starting", "up", "dead", or "silent":
                 \* it takes a connection and does not answer
    otherDone    \* dracut's other finished hooks agree to end the initqueue

fsvars   == <<dmp, served, mounted, root, moved, persisted, modules>>
tpmvars  == <<pcr, saved, acted>>
envvars  == <<devPresent, zot, otherDone>>
loopvars == <<soci, loops, polls, mark>>
vars == <<machine, phase, loopvars, fsvars, tpmvars, envvars>>

Init ==
    /\ machine \in Machines
    /\ phase = "cmdline"
    /\ soci = None /\ loops = 0 /\ polls = 0 /\ mark = FALSE
    /\ dmp = 0 /\ served = None /\ mounted = {} /\ root = FALSE /\ moved = {}
    /\ persisted = FALSE /\ modules = "none"
    /\ pcr = 0 /\ saved = None /\ acted = "no"
    /\ devPresent \in BOOLEAN /\ zot = "off" /\ otherDone \in BOOLEAN

-----------------------------------------------------------------------------

\* soci_die calls dracut's die, which does not come back.
Die == phase' = "dead"

PathKind(p) == IF p = Empty THEN "dir" ELSE machine.paths[p]

Mosboot == soci.name = "mosboot"
Local == soci.repo = "local"
HasSquash == dmp > 0 /\ machine.squash # "none"

-----------------------------------------------------------------------------
(* Plausible mistakes, each in place of one action below: what the         *)
(* properties must notice.                                                 *)

\* The wait polls once more than it counts.
PollZotOnceMore ==
    /\ phase = "zotwait"
    /\ polls' = polls - 1
    /\ phase' = IF zot = "up" THEN "rootfs" ELSE IF polls' < 0 THEN "dead" ELSE "zotwait"
    /\ UNCHANGED <<machine, soci, loops, mark, fsvars, tpmvars, envvars>>

\* A failed mount --move is ignored, like the mounts before it.
MoveMountsUnchecked ==
    /\ phase = "move"
    /\ \E dirs \in SUBSET (mounted \cap DataDirs) :
          moved' = moved \cup dirs /\ mounted' = mounted \ dirs
    /\ phase' = "persist"
    /\ UNCHANGED <<machine, loopvars, dmp, served, root, persisted, modules, tpmvars, envvars>>

\* The mark is written only when the modules image was mounted.
SkipModulesNoMark ==
    /\ phase = "modules"
    /\ modules' = "skipped"
    /\ phase' = "next"
    /\ UNCHANGED <<machine, soci, loops, polls, mark, dmp, served, mounted, root, moved, persisted,
                   tpmvars, envvars>>

\* The device is mounted by every pass.
SettledRunsMountsAgain ==
    /\ phase = "settled"
    /\ soci.enabled
    /\ soci.dev # Empty => devPresent
    /\ phase' = IF soci.dev # Empty THEN "mountdev" ELSE "guard"
    /\ UNCHANGED <<machine, loopvars, fsvars, tpmvars, envvars>>

\* SOCI_ENABLED is not tested.
SettledRunsAnyway ==
    /\ phase = "settled"
    /\ soci.dev # Empty => devPresent
    /\ phase' = IF soci.dev # Empty /\ dmp = 0 THEN "mountdev" ELSE "guard"
    /\ UNCHANGED <<machine, loopvars, fsvars, tpmvars, envvars>>

\* The mark is not tested.
CheckMarkNever ==
    /\ phase = "guard"
    /\ \/ phase' = IF Local THEN "startzot" ELSE "rootfs"
       \/ Die
    /\ UNCHANGED <<machine, loopvars, fsvars, tpmvars, envvars>>

\* The finished hook only waits for a mounted root.
CheckFinishedRoot ==
    /\ phase = "check"
    /\ phase' = IF otherDone THEN "done" ELSE "settled"
    /\ UNCHANGED <<machine, loopvars, fsvars, tpmvars, envvars>>

\* The count is not decremented.
PollZotForever ==
    /\ phase = "zotwait"
    /\ phase' = IF zot = "up" THEN "rootfs" ELSE "zotwait"
    /\ UNCHANGED <<machine, loopvars, fsvars, tpmvars, envvars>>

\* A failed mount of the device is left to the next pass.
MountDevGivesUp ==
    /\ phase = "mountdev"
    /\ phase' = "next"
    /\ UNCHANGED <<machine, loopvars, fsvars, tpmvars, envvars>>

-----------------------------------------------------------------------------
(* The hooks: one action for each command or check whose outcome matters.  *)

\* soci_set_vars, then soci_initrd_start.
CmdlineHook ==
    /\ phase = "cmdline"
    /\ soci' = SetVars(machine.cmdline)
    /\ IF soci'.enabled /\ (soci'.name = Empty \/ ~machine.deps) THEN Die ELSE phase' = "check"
    /\ UNCHANGED <<machine, loops, polls, mark, fsvars, tpmvars, envvars>>

\* soci_check_finished, with the other finished hooks.
CheckFinished ==
    /\ phase = "check"
    /\ phase' = IF (~soci.enabled \/ mark) /\ otherDone THEN "done" ELSE "settled"
    /\ UNCHANGED <<machine, loopvars, fsvars, tpmvars, envvars>>

\* The turn of dracut's loop is over.
LoopEnd ==
    /\ phase = "next"
    /\ IF loops < RdRetry THEN phase' = "check" /\ loops' = loops + 1
                          ELSE phase' = "timeout" /\ UNCHANGED loops
    /\ UNCHANGED <<machine, soci, polls, mark, fsvars, tpmvars, envvars>>

\* soci_udev_settled returns at once: nothing to do, or the device is awaited.
SettledIdle ==
    /\ phase = "settled"
    /\ ~soci.enabled \/ (soci.dev # Empty /\ ~devPresent)
    /\ phase' = "next"
    /\ UNCHANGED <<machine, loopvars, fsvars, tpmvars, envvars>>

\* The device is there: is it mounted already?
SettledRuns ==
    /\ phase = "settled"
    /\ soci.enabled
    /\ soci.dev # Empty => devPresent
    /\ phase' = IF soci.dev # Empty /\ dmp = 0 THEN "mountdev" ELSE "guard"
    /\ UNCHANGED <<machine, loopvars, fsvars, tpmvars, envvars>>

\* mount -o ro, then the checks of path.  The device may have vanished since
\* the hook saw it.
MountDev ==
    /\ phase = "mountdev"
    /\ \/ /\ devPresent
          /\ dmp' = dmp + 1
          /\ IF PathKind(soci.path) = "dir" THEN phase' = "guard" ELSE Die
       \/ Die /\ UNCHANGED dmp
    /\ UNCHANGED <<machine, loopvars, served, mounted, root, moved, persisted, modules,
                   tpmvars, envvars>>

\* Everything below runs once: the mark ends the hook.
CheckMark ==
    /\ phase = "guard"
    /\ \/ mark /\ phase' = "next"
       \/ ~mark /\ phase' = IF Local THEN "startzot" ELSE "rootfs"
       \/ ~mark /\ Die          \* mkdir of the overlay directories failed
    /\ UNCHANGED <<machine, loopvars, fsvars, tpmvars, envvars>>

\* mount --bind ${dmp}/oci /oci and systemctl start: neither status is checked.
StartZot ==
    /\ phase = "startzot"
    /\ served' \in {None} \cup (IF dmp > 0 /\ PathKind("oci") = "dir" THEN {"oci"} ELSE {})
    /\ zot' \in {"off", "starting"}
    /\ polls' = ZotTries
    /\ phase' = "zotwait"
    /\ UNCHANGED <<machine, soci, loops, mark, dmp, mounted, root, moved, persisted, modules,
                   tpmvars, devPresent, otherDone>>

\* One turn of wait_on_zot.  Nothing sets the pid it tests, so the test of a
\* dead zot never succeeds: only the answer to curl counts.  Nothing limits the
\* time curl takes: see Unanswered.
PollZot ==
    /\ phase = "zotwait"
    /\ polls' = polls - 1
    /\ CASE zot = "up"  -> phase' = "rootfs"
         [] zot # "up" /\ polls' = 0 -> Die
         [] OTHER -> UNCHANGED phase
    /\ UNCHANGED <<machine, soci, loops, mark, fsvars, tpmvars, envvars>>

\* mount_boot_rootfs: the four mounts by partition label, none of them checked.
MountBootDirs ==
    /\ phase = "rootfs"
    /\ Mosboot
    /\ mounted' \in SUBSET Dirs
    /\ phase' = "createfs"
    /\ UNCHANGED <<machine, loopvars, dmp, served, root, moved, persisted, modules,
                   tpmvars, envvars>>

\* mosctl create-boot-fs, then the move of /boot/efi, not checked.
CreateBootFs ==
    /\ phase = "createfs"
    /\ \/ /\ root' = TRUE
          /\ \E dirs \in SUBSET (mounted \cap {"efi"}) :
                /\ moved' = moved \cup dirs
                /\ mounted' = mounted \ dirs
          /\ phase' = "action"
       \/ phase' = "catalog" /\ UNCHANGED <<root, moved, mounted>>
    /\ UNCHANGED <<machine, loopvars, dmp, served, persisted, modules, tpmvars, envvars>>

\* The three tmpfs mounts of the other boots, not checked.
MountTmpfs ==
    /\ phase = "rootfs"
    /\ ~Mosboot
    /\ mounted' \in SUBSET DataDirs
    /\ phase' = "mosmount"
    /\ UNCHANGED <<machine, loopvars, dmp, served, root, moved, persisted, modules,
                   tpmvars, envvars>>

\* mosctl mount: from the local registry it needs both zot and its store.
MosctlMount ==
    /\ phase = "mosmount"
    /\ \/ /\ Local => zot = "up" /\ served # None
          /\ root' = TRUE
          /\ phase' = "action"
       \/ phase' = "catalog" /\ UNCHANGED root
    /\ UNCHANGED <<machine, loopvars, dmp, served, mounted, moved, persisted, modules,
                   tpmvars, envvars>>

\* When mosctl failed, curl asks zot for its catalog before the boot dies.
ShowCatalog ==
    /\ phase = "catalog"
    /\ Die
    /\ UNCHANGED <<machine, loopvars, fsvars, tpmvars, envvars>>

\* mosctl preinstall, or initrd-setup when the image asks for nothing special.
RunMosctl ==
    /\ phase = "action"
    /\ machine.action \notin {"provision", "livecd"}
    /\ acted' \in {"ok", "failed"}
    /\ phase' = "move"
    /\ UNCHANGED <<machine, loopvars, fsvars, pcr, saved, envvars>>

\* provision keeps the PCR 7 value from before the extension in the root's
\* /pcr7.bin, if both the read and the copy succeed.
SavePcr ==
    /\ phase = "action"
    /\ machine.action = "provision"
    /\ saved' \in {None, pcr}
    /\ phase' = "extend"
    /\ UNCHANGED <<machine, loopvars, fsvars, pcr, acted, envvars>>

\* tpm2_pcrextend, for provision and for livecd: its status is not checked.
ExtendPcr ==
    /\ phase = IF machine.action = "livecd" THEN "action" ELSE "extend"
    /\ \/ pcr' = pcr + 1 /\ acted' = "ok"
       \/ acted' = "failed" /\ UNCHANGED pcr
    /\ phase' = "move"
    /\ UNCHANGED <<machine, loopvars, fsvars, saved, envvars>>

\* mount --move of each directory in turn; one that is not a mount point, or
\* that cannot be moved, ends the boot after the n before it.
MoveMounts ==
    /\ phase = "move"
    /\ \E n \in 0 .. 3 :
          /\ FirstDirs(n) \subseteq mounted
          /\ moved' = moved \cup FirstDirs(n)
          /\ mounted' = mounted \ FirstDirs(n)
          /\ IF n = 3 THEN phase' = "persist" ELSE Die
    /\ UNCHANGED <<machine, loopvars, dmp, served, root, persisted, modules, tpmvars, envvars>>

\* The copy of pcr7data and its symlink.
Persist ==
    /\ phase = "persist"
    /\ \/ persisted' = TRUE /\ phase' = "modules"
       \/ Die /\ UNCHANGED persisted
    /\ UNCHANGED <<machine, loopvars, dmp, served, mounted, root, moved, modules,
                   tpmvars, envvars>>

\* try_modules succeeds without a mount: no image, or the root has the modules,
\* or lib/modules cannot be created; then the finished mark is written.
SkipModules ==
    /\ phase = "modules"
    /\ modules' \in IF machine.inRoot /\ HasSquash THEN {"root"} ELSE {"skipped"}
    /\ mark' = TRUE
    /\ phase' = "next"
    /\ UNCHANGED <<machine, soci, loops, polls, dmp, served, mounted, root, moved, persisted,
                   tpmvars, envvars>>

\* try_modules mounts the image: modules of another kernel end the boot.
MountModules ==
    /\ phase = "modules"
    /\ HasSquash
    /\ ~machine.inRoot
    /\ \/ /\ modules' = machine.squash
          /\ mark' = (machine.squash = "match")
          /\ IF machine.squash = "match" THEN phase' = "next" ELSE Die
       \/ Die /\ UNCHANGED <<modules, mark>>
    /\ UNCHANGED <<machine, soci, loops, polls, dmp, served, mounted, root, moved, persisted,
                   tpmvars, envvars>>

\* The loop and the checks at the start of a pass, the preparation of the root,
\* and the work on the mounted root.
LoopStep ==
    \/ CmdlineHook \/ CheckFinished \/ LoopEnd \/ SettledIdle \/ SettledRuns \/ CheckMark
PrepareStep ==
    \/ MountDev \/ StartZot \/ PollZot
    \/ MountBootDirs \/ CreateBootFs \/ MountTmpfs \/ MosctlMount \/ ShowCatalog
BuildStep ==
    \/ RunMosctl \/ SavePcr \/ ExtendPcr
    \/ MoveMounts \/ Persist \/ SkipModules \/ MountModules

BootStep == LoopStep \/ PrepareStep \/ BuildStep

-----------------------------------------------------------------------------
(* The environment: udev, the zot process, dracut's other hooks.           *)

DevAppears ==
    /\ ~devPresent
    /\ devPresent' = TRUE
    /\ UNCHANGED <<machine, phase, loopvars, fsvars, tpmvars, zot, otherDone>>

DevVanishes ==
    /\ devPresent
    /\ devPresent' = FALSE
    /\ UNCHANGED <<machine, phase, loopvars, fsvars, tpmvars, zot, otherDone>>

ZotUp ==
    /\ zot \in {"starting", "silent"}
    /\ zot' = "up"
    /\ UNCHANGED <<machine, phase, loopvars, fsvars, tpmvars, devPresent, otherDone>>

ZotHangs ==
    /\ zot \in {"starting", "up"}
    /\ zot' = "silent"
    /\ UNCHANGED <<machine, phase, loopvars, fsvars, tpmvars, devPresent, otherDone>>

ZotDies ==
    /\ zot \in {"starting", "up", "silent"}
    /\ zot' = "dead"
    /\ UNCHANGED <<machine, phase, loopvars, fsvars, tpmvars, devPresent, otherDone>>

OthersFinish ==
    /\ ~otherDone
    /\ otherDone' = TRUE
    /\ UNCHANGED <<machine, phase, loopvars, fsvars, tpmvars, devPresent, zot>>

Environment == DevAppears \/ DevVanishes \/ ZotUp \/ ZotHangs \/ ZotDies \/ OthersFinish

Over == phase \in {"done", "dead", "timeout"}

Terminating == Over /\ UNCHANGED vars

Next == BootStep \/ Environment \/ Terminating

Spec == Init /\ [][Next]_vars

\* The command that runs waits for an answer of a silent zot: curl has no
\* --max-time, and mosctl reads the image from zot when the repository is local.
Unanswered ==
    /\ zot = "silent"
    /\ phase \in {"zotwait", "catalog"} \/ (phase = "mosmount" /\ Local)

\* The boot process keeps running, except that a command a silent zot leaves
\* without an answer need not return; nothing is assumed of the environment.
FairSpec == Spec /\ WF_vars(BootStep /\ ~Unanswered)

-----------------------------------------------------------------------------
(* Properties.                                                             *)

\* The values soci takes: what SetVars makes of a command line (soci-lib.sh:100).
Settled == {SetVars(m.cmdline) : m \in Machines}

Phases == {"cmdline", "check", "settled", "mountdev", "guard", "startzot", "zotwait",
           "rootfs", "createfs", "mosmount", "catalog", "action", "extend", "move", "persist",
           "modules", "next", "done", "dead", "timeout"}

\* Every variable of the hooks (soci-lib.sh, soci-settled.sh) keeps its type.
TypeOK ==
    /\ machine \in Machines
    /\ phase \in Phases
    /\ soci \in {None} \cup Settled
    /\ loops \in 0 .. RdRetry
    /\ polls \in 0 .. ZotTries
    /\ mark \in BOOLEAN
    /\ dmp \in Nat
    /\ served \in {None, "oci"}
    /\ mounted \subseteq Dirs
    /\ root \in BOOLEAN
    /\ moved \subseteq Dirs
    /\ persisted \in BOOLEAN
    /\ modules \in {"none", "skipped", "root", "match", "other"}
    /\ pcr \in Nat
    /\ saved \in {None} \cup Nat
    /\ acted \in {"no", "ok", "failed"}
    /\ devPresent \in BOOLEAN
    /\ zot \in {"off", "starting", "up", "silent", "dead"}
    /\ otherDone \in BOOLEAN

\* Nobody sees the finished mark before the root is mounted, the three data
\* directories and pcr7data are in it, and its modules, if they came from the
\* boot device, fit the running kernel (soci-settled.sh:293; the unchecked
\* mounts of 116-119 and 205 are caught by the checked moves of 259).
FinishedMeansReady ==
    mark => /\ root
            /\ DataDirs \subseteq moved
            /\ persisted
            /\ modules \in {"skipped", "root", "match"}

\* However often the settled hook runs, PCR 7 is extended at most once, only in
\* a provision or livecd boot, only with the root in place; and the value kept
\* for the provisioned system is the one from before the extension
\* (soci-settled.sh:230-243).
PcrDiscipline ==
    /\ pcr <= 1
    /\ pcr = 1 => root /\ machine.action \in {"provision", "livecd"}
    /\ saved \in {None, 0}

\* The boot device is mounted at most once, whatever udev does between the
\* passes of the hook (soci-settled.sh:151).
MountedOnce == dmp <= 1

\* Without an soci root the module leaves the machine alone, and dracut's other
\* hooks alone decide when the initqueue ends (soci-finished.sh:5,
\* soci-settled.sh:136, soci-cmdline.sh:8).
NotOursIsUntouched ==
    soci = NotEnabled =>
        /\ phase \in {"check", "settled", "next", "done", "timeout"}
        /\ dmp = 0 /\ ~root /\ moved = {} /\ pcr = 0 /\ zot = "off" /\ ~mark

\* The hook runs again and again until every other finished hook agrees.  Once
\* the mark is written no later pass touches the root, the mounts or the TPM,
\* starts a zot, or ends the boot (soci-settled.sh:151,172).
LaterPassesDoNothing ==
    [][mark => /\ UNCHANGED <<mark, fsvars, tpmvars, polls>>
               /\ zot' = zot \/ zot' \in {"up", "silent", "dead"}
               /\ phase' # "dead"]_vars

\* What the rest of the boot sees of the hooks.
Outcome ==
    CASE phase = "done"    -> IF soci.enabled THEN "booted" ELSE "skipped"
      [] phase = "dead"    -> "failed"
      [] phase = "timeout" -> "timeout"
      [] OTHER             -> IF mark THEN "ready" ELSE "pending"

Handover == INSTANCE BootHandover WITH
    rootMounted <- root, pcr7 <- pcr, outcome <- Outcome

\* The hooks keep the promise of BootHandover: the root is handed over only when
\* it is there and complete, PCR 7 is extended at most once, with the root in
\* place, and dracut never gives up, or goes on, in the middle of the hand-over
\* (soci-finished.sh:4-13, soci-settled.sh:172-293).
KeepsHandoverPromise == Handover!Spec

\* Whatever udev, zot and the other hooks do, the boot ends one way or another:
\* dracut loops a bounded number of times and zot is polled a bounded number of
\* times (soci-settled.sh:71-86).  The one way to hang is a zot that takes the
\* connection and keeps silent: no curl of the hooks has a time limit (79, 125,
\* 217), and no count is left for mosctl either (212).
BootEnds == <>Over \/ []<>Unanswered

\* A boot device that appears late is picked up: from the turn of the loop that
\* finds it in place, the hand-over gets ready or the boot dies saying why,
\* unless the device vanishes again first or zot keeps silent; it does not go on
\* waiting (soci-settled.sh:137-148).
LateDeviceIsPickedUp ==
    \/ []<>Unanswered
    \/ (phase = "check" /\ soci.enabled /\ devPresent)
          ~> (mark \/ phase = "dead" \/ ~devPresent)

-----------------------------------------------------------------------------
(* What the module's text says of it and the code does not do.             *)

\* soci-settled.sh:238,243: a provision or livecd boot that gets past the action
\* has said "PCR7 has been extended".
ExtendedAsAnnounced ==
    (mark /\ machine.action \in {"provision", "livecd"}) => pcr = 1
=============================================================================
