----------------------------- MODULE BootMedia -----------------------------
(***************************************************************************)
(* oci-boot and the soci dracut module together: what the boot of an image *)
(* that oci-boot made reads on it (layers/build-krd/dracut/soci).          *)
(***************************************************************************)
EXTENDS OciBoot

Soci == INSTANCE SociArgs WITH UnsafeKeys <- {Empty}

\* The variables of the soci module once startup.nsh has started the kernel.
SociVars == Soci!SetVars(FirmwareTree[Startup].cmdline)

OwnRoot == Soci!RootWords(request.cmdline) # {}

\* What the command line tells the soci module and what the image holds fit
\* together.  A root= of the user is what the module reads, whatever oci-boot put
\* before it.  Without one the boot layer's root= is read, and it sets the name and
\* the volume of the image and no more: the directory the module requires on that
\* volume is there (soci-settled.sh:161).  Either way the boot layer is where a
\* local zot, which serves the directory oci, has the name live-boot:latest (178),
\* and the kernel's modules are where try_modules looks (288).  That the module
\* then asks the zot for it is not said: see BootLayerIsTheRoot.
CommandLineFitsImage ==
    result = "ok" /\ ~EspReplaced =>
        /\ OwnRoot => SociVars = Soci!SetVars(request.cmdline)
        /\ request.boot # << >> /\ ~OwnRoot =>
              /\ SociVars = [enabled |-> TRUE, name |-> "live-boot:latest", dev |-> Label,
                             path |-> "oci", repo |-> Empty]
              /\ DirExists(staged, <<"oci">>)
        /\ request.boot # << >> => Place(<<"oci", "live-boot">>, <<"latest">>) \in DOMAIN staged
        /\ ModulesDest \in DOMAIN staged

\* "create disk or iso to boot an oci layer" (main.go:1045): an image with a boot
\* layer and no root= of the user boots that layer.  The module reads the volume of
\* the image only through the local zot, which it starts for repo=local alone
\* (soci-settled.sh:181); whatever else repo is, mosctl is told to fetch the root
\* from there (211).
BootLayerIsTheRoot ==
    result = "ok" /\ ~EspReplaced /\ request.boot # << >> /\ ~OwnRoot => SociVars.repo = "local"
=============================================================================
