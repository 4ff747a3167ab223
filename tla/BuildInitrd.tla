----------------------------- MODULE BuildInitrd -----------------------------
(***************************************************************************)
(* tools/build-initrd: dracut makes an initrd of the kernel's modules and  *)
(* one of everything else, and what is in them goes, as compressed cpio    *)
(* archives, to a directory.  A run that failed may be repeated there.     *)
(***************************************************************************)
EXTENDS Naturals, FiniteSets

CONSTANTS
    Jobs,      \* options, kernels below /lib/modules, tries
    MaxParts   \* cpio archives that dracut puts into one image

VARIABLES
    job,
    try,
    mode,      \* of build(): "modules" or "core"
    step,
    boot,      \* dracut's output in /boot: initrd.img-$kver and initramfs-$kver.img
    img,       \* the image that is taken apart
    out,       \* the archives, made by one of the tries, whole or not
    missed,    \* history: archives this try did not make whole, and did not notice
    result     \* of the try: "none" yet, "ok" or "error"
buildVars == <<job, try, mode, step, boot, img, out, missed, result>>

Names == {"modules", "firmware", "core"}
Cpio(name)   == [name |-> name, gz |-> FALSE]
CpioGz(name) == [name |-> name, gz |-> TRUE]
Archive(whole) == [try |-> try, whole |-> whole]

Put(store, file, archive) ==
    [f \in DOMAIN store \cup {file} |-> IF f = file THEN archive ELSE store[f]]

NoImage == [try |-> 0, parts |-> 0]
NoBoot  == [f \in {"initrd", "initramfs"} |-> NoImage]
Image(parts) == [try |-> try, parts |-> parts]

Wants(option) == job.opts \cap {option, "all"} # {}

\* The archives that Usage says an option creates.
Asked == (IF Wants("modules") THEN {"modules", "firmware"} ELSE {})
         \cup (IF Wants("core") THEN {"core"} ELSE {})

-----------------------------------------------------------------------------
Goto(s) == step' = s /\ UNCHANGED <<job, try, result>>

\* An image of an earlier dracut may lie in /boot.
BuildInit ==
    /\ job \in Jobs
    /\ try = 1 /\ mode = "none" /\ step = "begin" /\ missed = {} /\ result = "none"
    /\ boot \in {NoBoot, [NoBoot EXCEPT !["initrd"] = [try |-> 0, parts |-> 1]]}
    /\ img = NoImage /\ out = [f \in {} |-> Archive(TRUE)]

\* A plausible bug: of several kernels, one is taken.
BuildBeginAny ==
    /\ step = "begin"
    /\ Wants("modules") \/ Wants("combined") => job.kernels # {}
    /\ mode' = IF Wants("modules") THEN "modules" ELSE IF Wants("core") THEN "core" ELSE "none"
    /\ missed' = {}
    /\ Goto(IF mode' = "none" THEN "compress" ELSE "rm")
    /\ UNCHANGED <<boot, img, out>>

\* The kernel is looked for only if its modules are wanted, and must be the only
\* one.  Without options there is nothing to do: found is never "false".
BuildBegin ==
    /\ step = "begin"
    /\ Wants("modules") \/ Wants("combined") => Cardinality(job.kernels) = 1
    /\ mode' = IF Wants("modules") THEN "modules" ELSE IF Wants("core") THEN "core" ELSE "none"
    /\ missed' = {}
    /\ Goto(IF mode' = "none" THEN "compress" ELSE "rm")
    /\ UNCHANGED <<boot, img, out>>

\* A plausible bug: what an earlier dracut left is not removed.
RemoveOldNot ==
    /\ step = "rm"
    /\ Goto("dracut")
    /\ UNCHANGED <<mode, boot, img, out, missed>>

RemoveOld ==
    /\ step = "rm"
    /\ boot' = NoBoot
    /\ Goto("dracut")
    /\ UNCHANGED <<mode, img, out, missed>>

\* run_check_dracut: dracut did well, and said so.  Its output has one of two
\* names, or there is none.
RunDracut ==
    /\ step = "dracut"
    /\ \E file \in DOMAIN boot, parts \in 0 .. MaxParts :
          boot' \in {boot, [boot EXCEPT ![file] = Image(parts)]}
    /\ Goto("check")
    /\ UNCHANGED <<mode, img, out, missed>>

\* A plausible bug: the image is copied, not moved.
CheckImageCopies ==
    /\ step = "check"
    /\ LET file == IF boot["initramfs"] # NoImage THEN "initramfs" ELSE "initrd"
       IN  /\ boot[file] # NoImage
           /\ img' = boot[file]
    /\ Goto(IF mode = "modules" THEN "modules" ELSE "mv")
    /\ UNCHANGED <<mode, boot, out, missed>>

\* There must be an image; it is renamed and moved away (that of the core a step
\* later).
CheckImage ==
    /\ step = "check"
    /\ LET file == IF boot["initramfs"] # NoImage THEN "initramfs" ELSE "initrd"
       IN  /\ boot[file] # NoImage
           /\ img' = boot[file]
    /\ boot' = NoBoot
    /\ Goto(IF mode = "modules" THEN "modules" ELSE "mv")
    /\ UNCHANGED <<mode, out, missed>>

\* The image is one archive, or two: the last has the modules, the first the
\* firmware.  The loop that extracts them ends at the first cpio that fails, as it
\* does behind the last one: what it had extracted of the second archive by then is
\* taken for the modules.  Of the first, or without a directory lib/modules in it,
\* it would not do.
WriteModules ==
    /\ step = "modules"
    /\ img.parts \in 1 .. 2
    /\ \E whole \in BOOLEAN :
          /\ whole \/ img.parts = 2
          /\ out' = Put(out, Cpio("modules"), [Archive(whole) EXCEPT !.try = img.try])
          /\ missed' = missed \cup (IF whole THEN {} ELSE {"modules"})
                              \cup (IF img.parts = 1 THEN {"firmware"} ELSE {})
    /\ Goto(IF img.parts = 2 THEN "firmware" ELSE "next")
    /\ UNCHANGED <<mode, boot, img>>

WriteFirmware ==
    /\ step = "firmware"
    /\ out' = Put(out, Cpio("firmware"), [Archive(TRUE) EXCEPT !.try = img.try])
    /\ Goto("next")
    /\ UNCHANGED <<mode, boot, img, missed>>

\* The last command of the branch, and nothing asks how it went.
MoveCore ==
    /\ step = "mv"
    /\ \/ /\ out' = Put(out, Cpio("core"), [Archive(TRUE) EXCEPT !.try = img.try])
          /\ UNCHANGED missed
       \/ /\ out' \in {out, Put(out, Cpio("core"), Archive(FALSE))}
          /\ missed' = missed \cup {"core"}
    /\ Goto("next")
    /\ UNCHANGED <<mode, boot, img>>

\* build() returns; the core comes after the modules.
NextMode ==
    /\ step = "next"
    /\ IF mode = "modules" /\ Wants("core")
         THEN mode' = "core" /\ Goto("rm")
         ELSE Goto("compress") /\ UNCHANGED mode
    /\ img' = NoImage
    /\ UNCHANGED <<boot, out, missed>>

\* A plausible bug: pigz -f.
CompressForced ==
    /\ step = "compress"
    /\ \E f \in DOMAIN out :
          /\ ~f.gz
          /\ out' = [g \in (DOMAIN out \ {f}) \cup {CpioGz(f.name)} |->
                        IF g = CpioGz(f.name) THEN out[f] ELSE out[g]]
    /\ Goto("compress")
    /\ UNCHANGED <<mode, boot, img, missed>>

\* Whatever archive is there is compressed; pigz refuses if that was done before.
Compress ==
    /\ step = "compress"
    /\ \E f \in DOMAIN out :
          /\ ~f.gz /\ CpioGz(f.name) \notin DOMAIN out
          /\ out' = [g \in (DOMAIN out \ {f}) \cup {CpioGz(f.name)} |->
                        IF g = CpioGz(f.name) THEN out[f] ELSE out[g]]
    /\ Goto("compress")
    /\ UNCHANGED <<mode, boot, img, missed>>

Finish ==
    /\ step = "compress" /\ \A f \in DOMAIN out : f.gz
    /\ result' = "ok" /\ step' = "done"
    /\ UNCHANGED <<job, try, mode, boot, img, out, missed>>

\* A step fails, on its own or because it cannot go on: dracut may have written
\* its output, and an archive may have been begun.
Writes(s) == CASE s = "modules"  -> {Cpio("modules")}
               [] s = "firmware" -> {Cpio("firmware")}
               [] OTHER          -> {}
BuildFails ==
    /\ step # "done"
    /\ boot' \in {boot} \cup (IF step = "dracut" THEN {[boot EXCEPT !["initrd"] = Image(1)]} ELSE {})
    /\ out' \in {out} \cup {Put(out, f, Archive(FALSE)) : f \in Writes(step)}
    /\ result' = "error" /\ step' = "done"
    /\ UNCHANGED <<job, try, mode, img, missed>>

\* The same again, into the same directory.
BuildRetry ==
    /\ step = "done" /\ result = "error" /\ try < job.tries
    /\ try' = try + 1
    /\ step' = "begin" /\ result' = "none" /\ mode' = "none" /\ img' = NoImage
    /\ UNCHANGED <<job, boot, out, missed>>

BuildStep == \/ BuildBegin \/ RemoveOld \/ RunDracut \/ CheckImage \/ WriteModules \/ WriteFirmware
             \/ MoveCore \/ NextMode \/ Compress \/ Finish

-----------------------------------------------------------------------------
(* Properties.                                                             *)

\* The type invariant: no image is left in /boot once it has been taken, and no
\* archive is of a try to come.
BuildTypeOK ==
    /\ job \in Jobs /\ try \in 1 .. job.tries
    /\ step \in {"begin", "rm", "dracut", "check", "modules", "firmware", "mv", "next", "compress",
                 "done"}
    /\ mode \in {"none", "modules", "core"} /\ result \in {"none", "ok", "error"}
    /\ \A f \in DOMAIN out : f.name \in Names /\ out[f].try \in 1 .. try
    /\ step \in {"modules", "firmware", "mv", "next", "compress"} => boot = NoBoot \/ mode = "none"

\* A try that says it went well has handed on no archive of an earlier try or of
\* an earlier dracut, and none that is torn, and every archive that Usage names is
\* there (build-initrd:18-19); but of those that it missed.  What it missed is the
\* core when the mv fails (250), the modules when cpio breaks off in the second
\* archive (179-182), which are its own even then, and the firmware of a dracut that
\* made none, for which an older one may do (227, 355).
IsBuilt(name) == CpioGz(name) \in DOMAIN out /\ out[CpioGz(name)] = Archive(TRUE)
BuiltIsNew ==
    result = "ok" =>
        /\ \A f \in DOMAIN out : f.gz /\ (out[f] = Archive(TRUE) \/ f.name \in missed)
        /\ \A name \in Asked : IsBuilt(name) \/ name \in missed
        /\ Wants("modules") =>
              CpioGz("modules") \in DOMAIN out /\ out[CpioGz("modules")].try = try

\* A compressed archive is never written again: who uses it need not fear a
\* later try (build-initrd:355-366).
ArchivesAreFinal ==
    [][\A f \in DOMAIN out : f.gz => f \in DOMAIN out' /\ out'[f] = out[f]]_buildVars

-----------------------------------------------------------------------------
(* What the source says of the tool and it does not do.                    *)

\* "--modules create modules.cpio.gz", "--core create core.cpio.gz"
\* (build-initrd:18-19): when the tool says it went well it has created them, as
\* dracut made them.
SuccessIsComplete ==
    result = "ok" => \A name \in Asked \ {"firmware"} : IsBuilt(name)
=============================================================================
