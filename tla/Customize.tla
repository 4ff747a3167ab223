----------------------------- MODULE Customize -----------------------------
(***************************************************************************)
(* The customized layer (layers/custom/custom.yaml): the script that makes *)
(* a chain of trust from a bootkit and a set of keys.  The firmware has    *)
(* the certificate of the key that signs shim, shim has that of the key    *)
(* that signs the kernel, and the kernel has the one that the manifests of *)
(* the system are verified with.                                           *)
(***************************************************************************)
EXTENDS Bkcust

Kit(name)  == Path("bootkit", name)
Out(name)  == Path("customized", name)
Work(name) == Path("workd", name)
Extra(name) == Path("initrd-extra", name)
Export     == Path("export", "customized.tar")

\* A plausible bug: shim is signed first.
ScriptSignsFirst == <<
    Cp(Kit("ovmf-code.fd"), Out("ovmf-code.fd")),
    SecureBoot(Kit("ovmf-vars.fd"), Out("ovmf-vars.fd"),
               <<Dir("uefi-pk")>>, <<Dir("uefi-kek")>>, <<Dir("uefi-db")>>, << >>),
    SignEfi(Kit("shim.efi"), Out("shim.efi"), CertOf("uefi-db"), KeyOf("uefi-db")),
    SetDB(Out("shim.efi"), NoPath, <<Dir("uki-production")>>),
    Smoosh(Out("kernel.efi"), Kit("stubby.efi"), Kit("vmlinuz"), Kit("core.cpio.gz"), Empty),
    SignEfi(Out("kernel.efi"), NoPath, CertOf("uki-production"), KeyOf("uki-production")),
    Tar("customized", Export)
>>

\* What custom.yaml runs.
Script == <<
    TestDirs({"bootkit", "uefi-db"}),       \* one keyset, and the bootkit
    Cp(Kit("ovmf-code.fd"), Out("ovmf-code.fd")),
    SecureBoot(Kit("ovmf-vars.fd"), Out("ovmf-vars.fd"),
               <<Dir("uefi-pk")>>, <<Dir("uefi-kek")>>, <<Dir("uefi-db")>>, << >>),
    SetDB(Kit("shim.efi"), Out("shim.efi"),
          <<Dir("uki-limited"), Dir("uki-production"), Dir("uki-tpm")>>),
    SignEfi(Out("shim.efi"), NoPath, CertOf("uefi-db"), KeyOf("uefi-db")),
    Cp(CertOf("manifest-ca"), Extra("manifestCA.pem")),
    Cp(Path("keys", "pcr7data"), Extra("pcr7data")),
    InitrdJoin(Work("initrd.img"), Kit("firmware.cpio.gz"),
               <<Kit("core.cpio.gz"), Kit("initrd-modules.cpio.gz"), Kit("initrd-mos.cpio.gz"),
                 Path("initrd-extra", Empty)>>),
    Rm("initrd-extra"),
    Smoosh(Out("kernel.efi"), Kit("stubby.efi"), Kit("vmlinuz"), Work("initrd.img"), Empty),
    SignEfi(Out("kernel.efi"), NoPath, CertOf("uki-production"), KeyOf("uki-production")),
    Tar("customized", Export)
>>

\* mktemp -d, with a trap that removes what is below it.
Trap == {"customized", "workd", "initrd-extra"}

\* What the layer is built from: any bootkit and keys, in an empty build.
CONSTANT Inputs
ASSUME InputsAssumption ==
    /\ \A s \in Inputs : /\ NoPath \notin DOMAIN s
                         /\ In(s, "export") = {} /\ \A d \in Trap : In(s, d) = {}
    /\ Jobs = {[script |-> Script, files |-> s, trap |-> Trap] : s \in Inputs}

\* The archives of a bootkit that go into the initrd.
Archives == {"firmware.cpio.gz", "core.cpio.gz", "initrd-modules.cpio.gz", "initrd-mos.cpio.gz"}
ASSUME GzNamesAssumption == Archives \subseteq GzNames

-----------------------------------------------------------------------------
(* Properties.                                                             *)

Exported(name) == files[Export].parts[Out(name)]

CertAt(dir) == job.files[CertOf(dir)].base
IsPair(dir) == CertAt(dir) = job.files[KeyOf(dir)].base

Certs(entries) == {entries[i].cert : i \in 1 .. Len(entries)}

\* If the layer is built then each stage of the boot trusts the next one as it
\* was exported: the firmware shim, and shim the kernel.  Nothing was written to
\* either after it was signed, and each was signed with a key whose certificate
\* was given to its verifier (custom.yaml: secure-boot, set-db, sign-efi).
ChainOfTrust ==
    result = "ok" =>
        /\ IsPair("uefi-db") =>
              \E c \in Certs(Exported("ovmf-vars.fd").parts["db"]) : Verifies(Exported("shim.efi"), c)
        /\ IsPair("uki-production") =>
              \E c \in Certs(Exported("shim.efi").parts[".vendor_cert"]) :
                  Verifies(Exported("kernel.efi"), c)

\* The kernel carries the bootkit's kernel and no command line; its initrd starts
\* with the microcode, uncompressed (custbk:358), and ends with the manifest's
\* certificate; shim and the firmware have the certificates they are to have, each
\* in its place, and no other (custom.yaml:24-27, README.md:35-36, and the commands
\* of custbk and bkcust).  Who signed shim and the kernel is said by ChainOfTrust.
ArtifactsAsDocumented ==
    result = "ok" =>
        LET uki    == Exported("kernel.efi").parts
            initrd == uki[".initrd"].parts
            in(name)   == job.files[Kit(name)]
            cpio(name) == Content(in(name))
        IN  /\ uki[".linux"] = in("vmlinuz") /\ uki[".cmdline"] = Empty
            /\ initrd["early"] = <<cpio("firmware.cpio.gz")>>
            /\ Len(initrd["rest"]) = 4
            /\ initrd["rest"][1] = cpio("core.cpio.gz")
            /\ initrd["rest"][2] = cpio("initrd-modules.cpio.gz")
            /\ initrd["rest"][3] = cpio("initrd-mos.cpio.gz")
            /\ initrd["rest"][4].parts[Extra("manifestCA.pem")] = job.files[CertOf("manifest-ca")]
            /\ Certs(Exported("shim.efi").parts[".vendor_cert"]) =
                  {CertAt("uki-limited"), CertAt("uki-production"), CertAt("uki-tpm")}
            /\ Certs(Exported("ovmf-vars.fd").parts["PK"])  = {CertAt("uefi-pk")}
            /\ Certs(Exported("ovmf-vars.fd").parts["KEK"]) = {CertAt("uefi-kek")}
            /\ Certs(Exported("ovmf-vars.fd").parts["db"])  = {CertAt("uefi-db")}
            /\ Exported("ovmf-vars.fd").parts["MOK"] = << >>
            /\ Exported("ovmf-code.fd") = in("ovmf-code.fd")

\* A file that the build has signed is not written again, not even by the command
\* that fails next; it only goes with the build directory (custom.yaml signs shim
\* and the kernel in place, and copies a bootkit that may be signed already).
IsSignedHere(file) == ~(file.sigs \subseteq UNION {job.files[p].sigs : p \in DOMAIN job.files})
SignedIsFinal ==
    [][\A p \in DOMAIN files :
          IsSignedHere(files[p]) => \/ p \in DOMAIN files' /\ files'[p] = files[p]
                                    \/ step = "exit" /\ p.dir \in Trap]_vars

\* However the build ends, the bootkit and the keys are as they were, and the
\* build directory is gone: all that a build leaves is its tar.
OnlyTheTarIsLeft ==
    /\ \A p \in DOMAIN job.files : p \in DOMAIN files /\ files[p] = job.files[p]
    /\ step = "done" => DOMAIN files \subseteq DOMAIN job.files \cup {Export}

\* The build implements Publish: it succeeds exactly when the tar is whole.
Handed == INSTANCE Publish WITH
    output  <- IF Export \notin DOMAIN files THEN "old"
               ELSE IF files[Export] = Blank THEN "partial" ELSE "whole",
    verdict <- IF result = "ok" THEN "ok" ELSE IF result = "error" THEN "failed" ELSE "none"
KeepsPublishPromise == Handed!Spec
=============================================================================
