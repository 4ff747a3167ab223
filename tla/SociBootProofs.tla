--------------------------- MODULE SociBootProofs ---------------------------
(***************************************************************************)
(* Proofs about SociBoot, for every set of machines and every rd.retry.    *)
(***************************************************************************)
EXTENDS SociBoot, TLAPS

\* The phases between the mount of the target root and the finished mark.
RootInProgress == {"action", "extend", "move", "persist", "modules"}

\* The phases of a settled pass that has not found the mark, root not mounted yet.
BeforeRoot == {"startzot", "zotwait", "rootfs", "createfs", "mosmount", "catalog"}

\* Where the boot process can be once the mark is written.
AfterMark == {"check", "settled", "guard", "next", "done", "timeout"}

\* The state the handed-over root is built from, phase by phase: what is done
\* in a phase is exactly what its predecessors did.
RootInv ==
    /\ phase \notin RootInProgress \cup {"dead"} /\ ~mark =>
          ~root /\ moved = {} /\ pcr = 0 /\ saved = None
    /\ phase \in RootInProgress => root /\ ~mark
    /\ phase = "action" => pcr = 0 /\ saved = None
    /\ phase = "extend" => pcr = 0 /\ machine.action = "provision"
    /\ phase \in {"persist", "modules"} => DataDirs \subseteq moved
    /\ phase = "modules" => persisted

\* The device is mounted before anything that uses it, and never mounted again.
DeviceInv ==
    /\ dmp \in {0, 1}
    /\ phase = "mountdev" => dmp = 0
    /\ (phase \in {"guard"} \cup BeforeRoot \cup RootInProgress \/ mark) /\ soci.dev # Empty =>
          dmp = 1

\* The hooks know whether the boot is theirs, and do nothing when it is not.
EnabledInv ==
    /\ phase \notin {"cmdline", "dead"} =>
          soci \in Settled
    /\ phase = "cmdline" => soci = None /\ dmp = 0 /\ zot = "off" /\ ~mark
    /\ phase \in {"mountdev", "guard"} \cup BeforeRoot \cup RootInProgress \/ mark => soci.enabled
    /\ phase \in AfterMark /\ ~soci.enabled => dmp = 0 /\ zot = "off" /\ ~mark

\* A boot that is not ours is never ended by the module.
DeadInv == phase = "dead" => soci.enabled

MarkInv == mark => phase \in AfterMark

PollInv == phase = "zotwait" => polls > 0

IInv == /\ TypeOK
        /\ RootInv
        /\ DeviceInv
        /\ EnabledInv
        /\ MarkInv
        /\ PollInv
        /\ FinishedMeansReady
        /\ PcrDiscipline
        /\ DeadInv

-----------------------------------------------------------------------------
(* Every initial state satisfies the invariant, and every step keeps it.    *)

LEMMA InitIInv == Init => IInv
<1> SUFFICES ASSUME Init PROVE IInv
  OBVIOUS
<1> USE RdRetryAssumption DEF Init
<1>1. TypeOK
  <2>1. phase \in Phases
    BY DEF Phases
  <2>2. loops \in 0 .. RdRetry /\ polls \in 0 .. ZotTries
    BY RdRetryAssumption DEF ZotTries
  <2>3. mark \in BOOLEAN /\ root \in BOOLEAN /\ persisted \in BOOLEAN
    OBVIOUS
  <2> QED
    BY <2>1, <2>2, <2>3 DEF TypeOK
<1>2. RootInv
  BY DEF RootInv, RootInProgress
<1>3. DeviceInv
  BY DEF DeviceInv, BeforeRoot, RootInProgress
<1>4. EnabledInv
  BY DEF EnabledInv, BeforeRoot, RootInProgress, AfterMark
<1>5. DeadInv /\ MarkInv /\ PollInv /\ FinishedMeansReady /\ PcrDiscipline
  BY DEF DeadInv, MarkInv, PollInv, FinishedMeansReady, PcrDiscipline
<1> QED
  BY <1>1, <1>2, <1>3, <1>4, <1>5 DEF IInv

\* The boot process moves from phase to phase.
LEMMA PhaseStep == phase \in Phases /\ [Next]_vars => (phase \in Phases)'
<1> SUFFICES ASSUME phase \in Phases, [Next]_vars PROVE (phase \in Phases)'
  OBVIOUS
<1> USE DEF Phases, fsvars, tpmvars, envvars, loopvars, Die
<1>1. CASE LoopStep
  BY <1>1 DEF LoopStep, CmdlineHook, CheckFinished, LoopEnd, SettledIdle, SettledRuns,
      CheckMark
<1>2. CASE PrepareStep
  BY <1>2 DEF PrepareStep, MountDev, StartZot, PollZot, MountBootDirs, CreateBootFs,
      MountTmpfs, MosctlMount, ShowCatalog
<1>3. CASE BuildStep
  BY <1>3 DEF BuildStep, RunMosctl, SavePcr, ExtendPcr, MoveMounts, Persist, SkipModules,
      MountModules
<1>4. CASE Environment \/ UNCHANGED vars
  BY <1>4 DEF Environment, DevAppears, DevVanishes, ZotUp, ZotHangs, ZotDies, OthersFinish, vars
<1> QED
  BY <1>1, <1>2, <1>3, <1>4 DEF Next, BootStep, Terminating

\* Every variable of the hooks keeps its type.
LEMMA TypeStep == TypeOK /\ PollInv /\ (phase \in Phases)' /\ [Next]_vars => TypeOK'
<1> SUFFICES ASSUME TypeOK, PollInv, (phase \in Phases)', [Next]_vars PROVE TypeOK'
  OBVIOUS
<1> USE DEF fsvars, tpmvars, envvars, loopvars
<1>1. CASE LoopStep
  <2> USE <1>1 DEF LoopStep, CmdlineHook, CheckFinished, LoopEnd, SettledIdle, SettledRuns,
      CheckMark
  <2>1. UNCHANGED <<machine, polls, mark, fsvars, tpmvars, envvars>>
    OBVIOUS
  <2>2. (soci \in Settled)' \/ UNCHANGED soci
    BY RdRetryAssumption DEF TypeOK, Settled
  <2>3. (loops \in 0 .. RdRetry)'
    BY RdRetryAssumption DEF TypeOK
  <2> HIDE <1>1 DEF LoopStep, CmdlineHook, CheckFinished, LoopEnd, SettledIdle, SettledRuns,
      CheckMark
  <2> QED
    BY <2>1, <2>2, <2>3 DEF TypeOK
<1>2. CASE PrepareStep
  <2> USE <1>2 DEF PrepareStep, MountDev, StartZot, PollZot, MountBootDirs, CreateBootFs,
      MountTmpfs, MosctlMount, ShowCatalog
  <2>1. UNCHANGED <<machine, soci, loops, mark, persisted, modules, tpmvars, devPresent,
      otherDone>>
    OBVIOUS
  <2>2. (polls \in 0 .. ZotTries)'
    BY DEF TypeOK, PollInv, ZotTries
  <2>3. (dmp \in Nat)'
    BY DEF TypeOK
  <2>4. (root \in BOOLEAN)'
    BY DEF TypeOK
  <2>5. (served \in {None, "oci"} /\ zot \in {"off", "starting", "up", "silent", "dead"})'
    BY DEF TypeOK
  <2>6. (mounted \subseteq Dirs /\ moved \subseteq Dirs)'
    BY DEF TypeOK, Dirs
  <2> HIDE <1>2 DEF PrepareStep, MountDev, StartZot, PollZot, MountBootDirs, CreateBootFs,
      MountTmpfs, MosctlMount, ShowCatalog
  <2> QED
    BY <2>1, <2>2, <2>3, <2>4, <2>5, <2>6 DEF TypeOK
<1>3. CASE BuildStep
  <2> USE <1>3 DEF BuildStep, RunMosctl, SavePcr, ExtendPcr, MoveMounts, Persist, SkipModules,
      MountModules
  <2>1. UNCHANGED <<machine, soci, loops, polls, dmp, served, root, envvars>>
    OBVIOUS
  <2>2. (mounted \subseteq Dirs /\ moved \subseteq Dirs)'
    BY DEF TypeOK, FirstDirs, MoveOrder, Dirs, DataDirs
  <2>3. (mark \in BOOLEAN /\ persisted \in BOOLEAN)'
    BY DEF TypeOK
  <2>4. (modules \in {"none", "skipped", "root", "match", "other"})'
    BY MachinesAssumption DEF TypeOK, MachinesAssumption
  <2>5. (pcr \in Nat /\ saved \in {None} \cup Nat /\ acted \in {"no", "ok", "failed"})'
    BY DEF TypeOK
  <2> HIDE <1>3 DEF BuildStep, RunMosctl, SavePcr, ExtendPcr, MoveMounts, Persist,
      SkipModules, MountModules
  <2> QED
    BY <2>1, <2>2, <2>3, <2>4, <2>5 DEF TypeOK
<1>4. CASE Environment
  <2>1. UNCHANGED <<machine, phase, loopvars, fsvars, tpmvars>>
    BY <1>4 DEF Environment, DevAppears, DevVanishes, ZotUp, ZotHangs, ZotDies, OthersFinish
  <2>2. (/\ devPresent \in BOOLEAN /\ otherDone \in BOOLEAN
         /\ zot \in {"off", "starting", "up", "silent", "dead"})'
    BY <1>4 DEF Environment, DevAppears, DevVanishes, ZotUp, ZotHangs, ZotDies, OthersFinish, TypeOK
  <2> QED
    BY <2>1, <2>2 DEF TypeOK
<1>5. CASE UNCHANGED vars
  BY <1>5 DEF vars, TypeOK
<1> QED
  BY <1>1, <1>2, <1>3, <1>4, <1>5 DEF Next, BootStep, Terminating

\* wait_on_zot polls only while its count is positive.
LEMMA PollStep == polls \in 0 .. ZotTries /\ PollInv /\ [Next]_vars => PollInv'
<1> SUFFICES ASSUME polls \in 0 .. ZotTries /\ PollInv, [Next]_vars PROVE PollInv'
  OBVIOUS
<1> USE DEF PollInv, fsvars, tpmvars, envvars, loopvars, Die
<1>1. CASE LoopStep
  BY <1>1 DEF LoopStep, CmdlineHook, CheckFinished, LoopEnd, SettledIdle, SettledRuns,
      CheckMark
<1>2. CASE PrepareStep
  BY <1>2 DEF PrepareStep, MountDev, StartZot, PollZot, MountBootDirs, CreateBootFs,
      MountTmpfs, MosctlMount, ShowCatalog, ZotTries
<1>3. CASE BuildStep
  BY <1>3 DEF BuildStep, RunMosctl, SavePcr, ExtendPcr, MoveMounts, Persist, SkipModules,
      MountModules
<1>4. CASE Environment \/ UNCHANGED vars
  BY <1>4 DEF Environment, DevAppears, DevVanishes, ZotUp, ZotHangs, ZotDies, OthersFinish, vars
<1> QED
  BY <1>1, <1>2, <1>3, <1>4 DEF Next, BootStep, Terminating

\* Once the mark is written the process only loops: the device is mounted by
\* then, so no pass reaches mountdev again.
LEMMA MarkStep == TypeOK /\ MarkInv /\ DeviceInv /\ [Next]_vars => MarkInv'
<1> SUFFICES ASSUME TypeOK /\ MarkInv /\ DeviceInv, [Next]_vars PROVE MarkInv'
  OBVIOUS
<1> USE DEF MarkInv, AfterMark, DeviceInv, fsvars, tpmvars, envvars, loopvars, Die
<1>1. CASE LoopStep
  <2>1. CASE CmdlineHook
    BY <2>1 DEF CmdlineHook
  <2>2. CASE CheckFinished
    BY <2>2 DEF CheckFinished
  <2>3. CASE LoopEnd
    BY <2>3 DEF LoopEnd
  <2>4. CASE SettledIdle
    BY <2>4 DEF SettledIdle
  <2>5. CASE SettledRuns
    BY <2>5 DEF SettledRuns
  <2>6. CASE CheckMark
    BY <2>6 DEF CheckMark
  <2> QED
    BY <1>1, <2>1, <2>2, <2>3, <2>4, <2>5, <2>6 DEF LoopStep
<1>2. CASE PrepareStep
  BY <1>2 DEF PrepareStep, MountDev, StartZot, PollZot, MountBootDirs, CreateBootFs,
      MountTmpfs, MosctlMount, ShowCatalog
<1>3. CASE BuildStep
  BY <1>3 DEF BuildStep, RunMosctl, SavePcr, ExtendPcr, MoveMounts, Persist, SkipModules,
      MountModules
<1>4. CASE Environment \/ UNCHANGED vars
  BY <1>4 DEF Environment, DevAppears, DevVanishes, ZotUp, ZotHangs, ZotDies, OthersFinish, vars
<1> QED
  BY <1>1, <1>2, <1>3, <1>4 DEF Next, BootStep, Terminating

\* The boot device is mounted before it is used, and once.
LEMMA DeviceStep ==
    TypeOK /\ MarkInv /\ DeviceInv /\ EnabledInv /\ [Next]_vars =>
        DeviceInv'
<1> SUFFICES ASSUME TypeOK /\ MarkInv /\ DeviceInv /\ EnabledInv, [Next]_vars PROVE DeviceInv'
  OBVIOUS
<1> USE DEF DeviceInv, BeforeRoot, RootInProgress, MarkInv, EnabledInv, AfterMark, fsvars,
    tpmvars, envvars, loopvars, Die
<1>1. CASE LoopStep
  BY <1>1 DEF LoopStep, CmdlineHook, CheckFinished, LoopEnd, SettledIdle, SettledRuns,
      CheckMark
<1>2. CASE PrepareStep
  BY <1>2 DEF PrepareStep, MountDev, StartZot, PollZot, MountBootDirs, CreateBootFs,
      MountTmpfs, MosctlMount, ShowCatalog
<1>3. CASE BuildStep
  BY <1>3 DEF BuildStep, RunMosctl, SavePcr, ExtendPcr, MoveMounts, Persist, SkipModules,
      MountModules
<1>4. CASE Environment \/ UNCHANGED vars
  BY <1>4 DEF Environment, DevAppears, DevVanishes, ZotUp, ZotHangs, ZotDies, OthersFinish, vars
<1> QED
  BY <1>1, <1>2, <1>3, <1>4 DEF Next, BootStep, Terminating

\* The hooks act only on an soci root.
LEMMA EnabledStep ==
    machine \in Machines /\ MarkInv /\ EnabledInv /\ [Next]_vars =>
        EnabledInv'
<1> SUFFICES ASSUME machine \in Machines /\ MarkInv /\ EnabledInv,
    [Next]_vars PROVE EnabledInv'
  OBVIOUS
<1> USE DEF EnabledInv, MarkInv, BeforeRoot, RootInProgress, AfterMark, fsvars, tpmvars,
    envvars, loopvars, Die
<1>1. CASE LoopStep
  BY <1>1 DEF LoopStep, CmdlineHook, CheckFinished, LoopEnd, SettledIdle, SettledRuns,
      CheckMark, Settled
<1>2. CASE PrepareStep
  BY <1>2 DEF PrepareStep, MountDev, StartZot, PollZot, MountBootDirs, CreateBootFs,
      MountTmpfs, MosctlMount, ShowCatalog
<1>3. CASE BuildStep
  BY <1>3 DEF BuildStep, RunMosctl, SavePcr, ExtendPcr, MoveMounts, Persist, SkipModules,
      MountModules
<1>4. CASE Environment \/ UNCHANGED vars
  BY <1>4 DEF Environment, DevAppears, DevVanishes, ZotUp, ZotHangs, ZotDies, OthersFinish, vars
<1> QED
  BY <1>1, <1>2, <1>3, <1>4 DEF Next, BootStep, Terminating

\* They end only the boot of an soci root.
LEMMA DeadStep == EnabledInv /\ DeadInv /\ [Next]_vars => DeadInv'
<1> SUFFICES ASSUME EnabledInv /\ DeadInv, [Next]_vars PROVE DeadInv'
  OBVIOUS
<1> USE DEF DeadInv, EnabledInv, MarkInv, BeforeRoot, RootInProgress, fsvars, tpmvars,
    envvars, loopvars, Die
<1>1. CASE LoopStep
  BY <1>1 DEF LoopStep, CmdlineHook, CheckFinished, LoopEnd, SettledIdle, SettledRuns,
      CheckMark
<1>2. CASE PrepareStep
  BY <1>2 DEF PrepareStep, MountDev, StartZot, PollZot, MountBootDirs, CreateBootFs,
      MountTmpfs, MosctlMount, ShowCatalog
<1>3. CASE BuildStep
  BY <1>3 DEF BuildStep, RunMosctl, SavePcr, ExtendPcr, MoveMounts, Persist, SkipModules,
      MountModules
<1>4. CASE Environment \/ UNCHANGED vars
  BY <1>4 DEF Environment, DevAppears, DevVanishes, ZotUp, ZotHangs, ZotDies, OthersFinish, vars
<1> QED
  BY <1>1, <1>2, <1>3, <1>4 DEF Next, BootStep, Terminating

\* The work on the root is done in the order of the phases.
LEMMA RootStep == TypeOK /\ MarkInv /\ RootInv /\ [Next]_vars => RootInv'
<1> SUFFICES ASSUME TypeOK /\ MarkInv /\ RootInv, [Next]_vars PROVE RootInv'
  OBVIOUS
<1> USE DEF TypeOK, MarkInv, AfterMark, RootInv, RootInProgress, fsvars, tpmvars, envvars,
    loopvars, Die
<1>1. CASE LoopStep
  BY <1>1 DEF LoopStep, CmdlineHook, CheckFinished, LoopEnd, SettledIdle, SettledRuns,
      CheckMark
<1>2. CASE PrepareStep
  BY <1>2 DEF PrepareStep, MountDev, StartZot, PollZot, MountBootDirs, CreateBootFs,
      MountTmpfs, MosctlMount, ShowCatalog
<1>3. CASE BuildStep
  BY <1>3 DEF BuildStep, RunMosctl, SavePcr, ExtendPcr, MoveMounts, Persist, SkipModules,
      MountModules, FirstDirs, MoveOrder, DataDirs
<1>4. CASE Environment \/ UNCHANGED vars
  BY <1>4 DEF Environment, DevAppears, DevVanishes, ZotUp, ZotHangs, ZotDies, OthersFinish, vars
<1> QED
  BY <1>1, <1>2, <1>3, <1>4 DEF Next, BootStep, Terminating

\* The mark means a complete root, and PCR 7 is extended once.
LEMMA ReadyStep ==
    TypeOK /\ MarkInv /\ RootInv /\ FinishedMeansReady /\ PcrDiscipline /\ [Next]_vars =>
        (FinishedMeansReady /\ PcrDiscipline)'
<1> SUFFICES ASSUME TypeOK /\ MarkInv /\ RootInv /\ FinishedMeansReady /\ PcrDiscipline,
    [Next]_vars PROVE (FinishedMeansReady /\ PcrDiscipline)'
  OBVIOUS
<1> USE DEF TypeOK, MarkInv, AfterMark, RootInv, RootInProgress, FinishedMeansReady,
    PcrDiscipline, fsvars, tpmvars, envvars, loopvars, Die
<1>1. CASE LoopStep
  BY <1>1 DEF LoopStep, CmdlineHook, CheckFinished, LoopEnd, SettledIdle, SettledRuns,
      CheckMark
<1>2. CASE PrepareStep
  BY <1>2 DEF PrepareStep, MountDev, StartZot, PollZot, MountBootDirs, CreateBootFs,
      MountTmpfs, MosctlMount, ShowCatalog
<1>3. CASE BuildStep
  BY <1>3 DEF BuildStep, RunMosctl, SavePcr, ExtendPcr, MoveMounts, Persist, SkipModules,
      MountModules
<1>4. CASE Environment \/ UNCHANGED vars
  BY <1>4 DEF Environment, DevAppears, DevVanishes, ZotUp, ZotHangs, ZotDies, OthersFinish, vars
<1> QED
  BY <1>1, <1>2, <1>3, <1>4 DEF Next, BootStep, Terminating

LEMMA NextIInv == IInv /\ [Next]_vars => IInv'
<1> SUFFICES ASSUME IInv, [Next]_vars PROVE IInv'
  OBVIOUS
<1>1. (phase \in Phases)'
  BY PhaseStep DEF IInv, TypeOK
<1>2. TypeOK'
  BY <1>1, TypeStep DEF IInv
<1>3. MarkInv' /\ DeviceInv' /\ EnabledInv' /\ DeadInv'
  BY MarkStep, DeviceStep, EnabledStep, DeadStep DEF IInv, TypeOK
<1>4. PollInv'
  BY PollStep DEF IInv, TypeOK
<1>5. RootInv' /\ FinishedMeansReady' /\ PcrDiscipline'
  BY RootStep, ReadyStep DEF IInv
<1> QED
  BY <1>2, <1>3, <1>4, <1>5 DEF IInv

-----------------------------------------------------------------------------
(* The theorems.                                                           *)

\* The invariant holds in every reachable state of the hooks (soci-lib.sh,
\* soci-cmdline.sh, soci-finished.sh, soci-settled.sh).
THEOREM Invariance == Spec => []IInv
  BY InitIInv, NextIInv, PTL DEF Spec

\* Type correctness: dracut's loop and zot's polls stay within their counts, and
\* every variable of the hooks keeps its type.
THEOREM TypeCorrect == Spec => []TypeOK
<1>1. IInv => TypeOK
  BY DEF IInv
<1> QED
  BY <1>1, Invariance, PTL

\* Nobody sees the finished mark of an incomplete root, whatever fails
\* (soci-settled.sh:293).
THEOREM MarkMeansReady == Spec => []FinishedMeansReady
<1>1. IInv => FinishedMeansReady
  BY DEF IInv
<1> QED
  BY <1>1, Invariance, PTL

\* However many passes the settled hook makes, PCR 7 is extended at most once,
\* and only for a provision or livecd root (soci-settled.sh:230-243).
THEOREM Pcr7Once == Spec => []PcrDiscipline
<1>1. IInv => PcrDiscipline
  BY DEF IInv
<1> QED
  BY <1>1, Invariance, PTL

\* The boot device is mounted at most once (soci-settled.sh:151).
THEOREM DeviceOnce == Spec => []MountedOnce
<1>1. IInv => MountedOnce
  BY DEF IInv, DeviceInv, MountedOnce
<1> QED
  BY <1>1, Invariance, PTL

\* A boot whose root is not an soci root is left alone (soci-settled.sh:136).
THEOREM OthersUntouched == Spec => []NotOursIsUntouched
<1>1. IInv => NotOursIsUntouched
  <2> SUFFICES ASSUME IInv, soci = NotEnabled
               PROVE  /\ phase \in {"check", "settled", "next", "done", "timeout"}
                      /\ dmp = 0 /\ ~root /\ moved = {} /\ pcr = 0 /\ zot = "off" /\ ~mark
    BY DEF NotOursIsUntouched
  <2>1. ~soci.enabled
    BY DEF NotEnabled
  <2>2. phase \notin {"cmdline", "dead"}
    BY <2>1, NoneAssumption DEF IInv, EnabledInv, DeadInv
  <2>3. phase \in {"check", "settled", "next", "done", "timeout"}
    BY <2>1, <2>2 DEF IInv, TypeOK, Phases, EnabledInv, BeforeRoot, RootInProgress
  <2>4. dmp = 0 /\ zot = "off" /\ ~mark
    BY <2>1, <2>3 DEF IInv, EnabledInv, AfterMark
  <2>5. ~root /\ moved = {} /\ pcr = 0
    BY <2>3, <2>4 DEF IInv, RootInv, RootInProgress
  <2> QED
    BY <2>3, <2>4, <2>5
<1> QED
  BY <1>1, Invariance, PTL

\* No step of the hooks or of the environment changes what a marked boot has.
LEMMA LaterStep ==
    IInv /\ [Next]_vars /\ mark =>
        /\ UNCHANGED <<mark, fsvars, tpmvars, polls>>
        /\ (zot' = zot \/ zot' \in {"up", "silent", "dead"})
        /\ phase' # "dead"
<1> SUFFICES ASSUME IInv, [Next]_vars, mark PROVE UNCHANGED <<mark, fsvars, tpmvars,
    polls>> /\ (zot' = zot \/ zot' \in {"up", "silent", "dead"}) /\ phase' # "dead"
  OBVIOUS
<1> USE DEF IInv, MarkInv, AfterMark, DeviceInv, fsvars, tpmvars, envvars, loopvars, Die
<1>1. CASE LoopStep
  BY <1>1 DEF LoopStep, CmdlineHook, CheckFinished, LoopEnd, SettledIdle, SettledRuns,
      CheckMark
<1>2. CASE PrepareStep
  BY <1>2 DEF PrepareStep, MountDev, StartZot, PollZot, MountBootDirs, CreateBootFs,
      MountTmpfs, MosctlMount, ShowCatalog
<1>3. CASE BuildStep
  BY <1>3 DEF BuildStep, RunMosctl, SavePcr, ExtendPcr, MoveMounts, Persist, SkipModules,
      MountModules
<1>4. CASE Environment \/ UNCHANGED vars
  BY <1>4 DEF Environment, DevAppears, DevVanishes, ZotUp, ZotHangs, ZotDies, OthersFinish, vars
<1> QED
  BY <1>1, <1>2, <1>3, <1>4 DEF Next, BootStep, Terminating

\* Once the mark is written no later pass of the hook changes the root, the mounts
\* or the TPM, or ends the boot (soci-settled.sh:151,172).
THEOREM LaterPasses == Spec => LaterPassesDoNothing
<1>1. IInv /\ [Next]_vars =>
        [mark => /\ UNCHANGED <<mark, fsvars, tpmvars, polls>>
                 /\ zot' = zot \/ zot' \in {"up", "silent", "dead"}
                 /\ phase' # "dead"]_vars
  BY LaterStep
<1> QED
  BY <1>1, Invariance, PTL DEF Spec, LaterPassesDoNothing

\* Every step is a step of BootHandover, or a stutter.
LEMMA HandoverStep == IInv /\ [Next]_vars => [Handover!Next]_(Handover!vars)
<1> SUFFICES ASSUME IInv, [Next]_vars PROVE [Handover!Next]_(Handover!vars)
  OBVIOUS
<1> USE DEF IInv, TypeOK, MarkInv, RootInv, EnabledInv, RootInProgress, BeforeRoot, AfterMark,
    Outcome, Handover!Next, Handover!vars, Handover!MountRoot, Handover!ExtendPcr7,
    Handover!Ready, Handover!Boot, Handover!Skip, Handover!Fail, Handover!GiveUp, fsvars,
    tpmvars, envvars, loopvars, Die
<1>1. CASE LoopStep
  BY <1>1 DEF LoopStep, CmdlineHook, CheckFinished, LoopEnd, SettledIdle, SettledRuns,
      CheckMark
<1>2. CASE PrepareStep
  BY <1>2 DEF PrepareStep, MountDev, StartZot, PollZot, MountBootDirs, CreateBootFs,
      MountTmpfs, MosctlMount, ShowCatalog
<1>3. CASE BuildStep
  <2>1. CASE RunMosctl
    BY <2>1 DEF RunMosctl
  <2>2. CASE SavePcr
    BY <2>2 DEF SavePcr
  <2>3. CASE ExtendPcr
    BY <2>3 DEF ExtendPcr
  <2>4. CASE MoveMounts
    BY <2>4 DEF MoveMounts
  <2>5. CASE Persist
    BY <2>5 DEF Persist
  <2>6. CASE SkipModules
    BY <2>6 DEF SkipModules
  <2>7. CASE MountModules
    BY <2>7 DEF MountModules
  <2> QED
    BY <1>3, <2>1, <2>2, <2>3, <2>4, <2>5, <2>6, <2>7 DEF BuildStep
<1>4. CASE Environment \/ UNCHANGED vars
  BY <1>4 DEF Environment, DevAppears, DevVanishes, ZotUp, ZotHangs, ZotDies, OthersFinish, vars
<1> QED
  BY <1>1, <1>2, <1>3, <1>4 DEF Next, BootStep, Terminating

\* The hooks implement BootHandover.
THEOREM Implements == Spec => KeepsHandoverPromise
<1>1. Init => Handover!Init
  BY DEF Init, Handover!Init, Outcome
<1> QED
  BY <1>1, HandoverStep, Invariance, PTL DEF Spec, KeepsHandoverPromise, Handover!Spec
=============================================================================
