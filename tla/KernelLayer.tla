----------------------------- MODULE KernelLayer -----------------------------
(***************************************************************************)
(* The kernel layers (layers/kernel/stacker.yaml): pkgtool installs a      *)
(* kernel, then build-initrd makes the initrd's archives of it in a new    *)
(* directory, and both are handed on with the kernel's own files.  Outside *)
(* of the layers each tool is used by hand, and again.                     *)
(***************************************************************************)
EXTENDS BuildInitrd, Pkgtool

\* job.runs: the layer, or one of the tools;  job.deps: those of the kernels that
\* have a modules.dep
ASSUME KernelLayerAssumption ==
    \A j \in Jobs : /\ j.runs \in {"layer", "pkgtool", "build-initrd"}
                    /\ j.tries \in Nat \ {0}
                    /\ IsFiniteSet(j.kernels) /\ j.deps \subseteq j.kernels
                    /\ j.runs = "layer" => j.opts = {"modules", "core"} /\ j.tries = 1

InLayer == job.runs = "layer"

VARIABLES
    layer,     \* "pkgs", "find", "build", then "ok" or "failed"
    ver,       \* the kernel that is handed on
    exports    \* what the next layers get
vars == <<buildVars, pkgVars, layer, ver, exports>>

NoExports == [modulesOf |-> {}, squashOf |-> {}, modulesWhole |-> FALSE, initrd |-> {}]

Init ==
    /\ BuildInit /\ PkgInit
    /\ layer = IF job.runs = "build-initrd" THEN "build" ELSE "pkgs"
    /\ ver = {} /\ exports = NoExports
    /\ InLayer => commands = <<Do("install", FALSE, FALSE)>>
    /\ job.runs = "build-initrd" => commands = << >> /\ present = {}

-----------------------------------------------------------------------------
InstallKernel ==
    /\ layer = "pkgs"
    /\ PkgNext
    /\ layer' = IF phase' # "end" THEN layer
                ELSE IF verdict' = "ok" /\ InLayer THEN "find" ELSE "failed"
    /\ UNCHANGED <<buildVars, ver, exports>>

\* Exactly one directory has a modules.dep.
FindVersion ==
    /\ layer = "find"
    /\ Cardinality(job.deps) = 1
    /\ ver' = job.deps
    /\ layer' = "build"
    /\ UNCHANGED <<buildVars, pkgVars, exports>>

Build ==
    /\ layer = "build"
    /\ BuildStep \/ BuildFails \/ BuildRetry
    /\ UNCHANGED <<pkgVars, layer, ver, exports>>

\* The modules' archive is moved to the kernel, which must be there; what else
\* there is goes into the initrd's tar.
Collect ==
    /\ layer = "build" /\ InLayer
    /\ step = "done" /\ result = "ok"
    /\ CpioGz("modules") \in DOMAIN out
    /\ exports' = [modulesOf |-> job.kernels, squashOf |-> ver,
                   modulesWhole |-> out[CpioGz("modules")].whole,
                   initrd |-> {[name |-> f.name, whole |-> out[f].whole] :
                                  f \in DOMAIN out \ {CpioGz("modules")}}]
    /\ layer' = "ok"
    /\ UNCHANGED <<buildVars, pkgVars, ver>>

\* The shell of a layer stops at the first command that fails.
LayerFails ==
    /\ layer \in {"find", "build"} /\ InLayer
    /\ layer = "build" => step = "done"
    /\ layer' = "failed"
    /\ UNCHANGED <<buildVars, pkgVars, ver, exports>>

Terminated ==
    \/ layer \in {"ok", "failed"} /\ UNCHANGED vars
    \/ layer = "build" /\ ~InLayer /\ step = "done" /\ UNCHANGED vars

Next == InstallKernel \/ FindVersion \/ Build \/ Collect \/ LayerFails \/ Terminated

Spec == Init /\ [][Next]_vars

-----------------------------------------------------------------------------
(* Properties.                                                             *)

\* What is handed on is of one kernel: the modules that the initrd loads, the
\* image that soci mounts over them and the kernel itself.  The modules are whole
\* and there is a core, unless build-initrd missed that, and nothing else that is
\* torn, or not an archive of the initrd.
KitIsOfOneKernel ==
    layer = "ok" =>
        /\ exports.modulesOf = exports.squashOf
        /\ exports.modulesWhole \/ "modules" \in missed
        /\ [name |-> "core", whole |-> TRUE] \in exports.initrd \/ "core" \in missed
        /\ \A a \in exports.initrd : /\ a.name \in {"core", "firmware"}
                                     /\ a.whole \/ a.name \in missed
=============================================================================
