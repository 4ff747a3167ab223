---------------------------- MODULE BkcustProofs ----------------------------
(* The commands of bkcust are atomic for every script and every store: the   *)
(* invariant says, for each step of each command, what the store is in terms *)
(* of the one that the command found.                                        *)
EXTENDS Bkcust, TLAPS

-----------------------------------------------------------------------------
(* Stores.                                                                 *)

\* A store without temporary files.
Clean(s) == IsStore(s) /\ In(s, "tmp") = {}

LEMMA WithoutClean == ASSUME NEW s PROVE Clean(Without(s, {"tmp"}))
  BY DEF Clean, In, IsStore, Without

LEMMA WithoutTmp == ASSUME NEW s, Clean(s) PROVE Without(s, {"tmp"}) = s
  BY DEF Clean, In, IsStore, Without

\* A file of a clean store that is written stays when a command returns, and
\* the temporary file goes.
LEMMA PutStays ==
    ASSUME NEW s, Clean(s), NEW p, p.dir # "tmp", NEW x
    PROVE  Without(Put(s, p, x), {"tmp"}) = Put(s, p, x)
  BY DEF Clean, In, IsStore, Without, Put

LEMMA TmpGoes == ASSUME NEW s, Clean(s), NEW x PROVE Without(Put(s, Tmp, x), {"tmp"}) = s
  BY DEF Clean, In, IsStore, Without, Put, Tmp, Path

LEMMA PutPut == ASSUME NEW s, NEW p, NEW x, NEW y PROVE Put(Put(s, p, x), p, y) = Put(s, p, y)
  BY DEF Put

LEMMA PutTmpGets ==
    ASSUME NEW s, NEW p, p.dir # "tmp", NEW x, NEW y
    PROVE  Put(Put(s, Tmp, x), p, y)[Tmp] = x
<1>1. Tmp # p
  BY DEF Tmp, Path
<1>2. Tmp \in DOMAIN Put(s, Tmp, x) /\ Put(s, Tmp, x)[Tmp] = x
  BY DEF Put
<1>3. Put(Put(s, Tmp, x), p, y)[Tmp] = Put(s, Tmp, x)[Tmp]
  BY <1>1, <1>2 DEF Put
<1> QED
  BY <1>2, <1>3

LEMMA PutTmpPut ==
    ASSUME NEW s, Clean(s), NEW p, p.dir # "tmp", NEW x, NEW y
    PROVE  Without(Put(Put(s, Tmp, x), p, y), {"tmp"}) = Put(s, p, y)
  BY DEF Clean, In, IsStore, Without, Put, Tmp, Path

-----------------------------------------------------------------------------
(* The invariant.                                                          *)

Resting == {"begin", "exit", "done"}

\* The store after a copy of the input: the copy of a file onto itself is empty.
Copied(s) == Put(s, Target(cmd), IF cmd.in = Target(cmd) THEN Blank ELSE s[cmd.in])

\* set-db before objcopy, secure-boot before virt-fw-vars, a write before it
\* truncates its target, and initrd-join before it appends.
ForDB(s)   == IF cmd.out = NoPath THEN s ELSE Copied(s)
ForVars(s) == IF cmd.op = "secure-boot" /\ cmd.out = NoPath THEN Put(s, Tmp, Blank) ELSE s
Whole(s)   == IF cmd.op = "secure-boot" THEN Put(s, Tmp, Meaning(cmd, s)) ELSE s
Begun(s)   == IF cmd.in = NoPath THEN s ELSE Put(s, Target(cmd), Early(cmd, s))

Writers == {"cp", "tar", "set-db", "sign-efi", "smoosh", "secure-boot", "initrd-join", "bk-join",
            "cu-smoosh", "fw-vars", "create-cpio"}

\* Which commands come to truncate a file, and how.
MayWrite ==
    /\ cmd.op \in Writers \ {"cu-smoosh", "fw-vars"}
    /\ cmd.op = "cp" => cmd.in # Target(cmd)
    /\ cmd.op = "set-db" => cmd.out # NoPath
    /\ cmd.op = "secure-boot" => cmd.out = NoPath
    /\ cmd.op = "initrd-join" => cmd.in # NoPath
    /\ cmd.op = "sign-efi" => buffer = Meaning(cmd, before)

\* The certificates of secure-boot, of which virt-fw-vars has the owners as well.
CanLoadAll(s) == \A args \in Lists(cmd) :
                    IF cmd.op = "fw-vars" THEN HasGuidCert(s, args) ELSE CanLoad(s, args)

StepInv ==
    /\ step \in Resting => files = before
    /\ step \notin Resting => line <= Len(job.script)
    /\ step = "test" => cmd.op = "test" /\ files = before
    /\ step = "rm"   => cmd.op = "rm" /\ files = before
    /\ step = "sign" => cmd.op = "sign-efi" /\ files = before
    /\ step = "certs" => \/ cmd.op = "set-db" /\ files = ForDB(before)
                         \/ cmd.op \in {"secure-boot", "fw-vars"} /\ files = ForVars(before)
    /\ step = "objcopy" => \/ cmd.op = "set-db" /\ files = ForDB(before) /\ CanLoad(files, cmd.certs)
                           \/ cmd.op = "smoosh" /\ files = Copied(before)
                           \/ cmd.op = "cu-smoosh" /\ files = before
    /\ step = "vars"   => /\ cmd.op \in {"secure-boot", "fw-vars"}
                          /\ files = ForVars(before) /\ CanLoadAll(files)
    /\ step = "append" => cmd.op = "initrd-join" /\ files = Begun(before)
    /\ step = "truncate" => MayWrite /\ files = Whole(before)
    /\ step = "fill"     => /\ MayWrite /\ files = Put(Whole(before), Target(cmd), Blank)
                            /\ cmd.op \in {"cp", "set-db", "smoosh"} => cmd.in \in DOMAIN before

IInv ==
    /\ TypeOK
    /\ step = "exit" \/ step = "done" <=> result # "none"
    /\ Clean(before)
    /\ StepInv

LEMMA InitIInv == Init => IInv
<1> SUFFICES ASSUME Init PROVE IInv
  OBVIOUS
<1>1. job \in Jobs /\ Len(job.script) \in Nat /\ Clean(job.files)
  BY JobsAssumption DEF Init, Clean
<1>2. line \in 1 .. Len(job.script) + 1
  BY <1>1 DEF Init
<1> QED
  BY <1>1, <1>2 DEF Init, IInv, TypeOK, Steps, StepInv, Resting

LEMMA CmdSane ==
    ASSUME IInv, line <= Len(job.script)
    PROVE  IsSane(cmd) /\ Target(cmd).dir # "tmp" /\ cmd.op \in Ops
  BY JobsAssumption DEF IInv, TypeOK, cmd, IsSane

-----------------------------------------------------------------------------
(* Every command that returns leaves the invariant, and has the effect that  *)
(* the abstract command has.                                                 *)

LEMMA ReturnsInv ==
    ASSUME IInv, NEW s, step \notin Resting, Returns(s)
    PROVE  IInv'
<1>1. line \in 1 .. Len(job.script) /\ Len(job.script) \in Nat
  BY JobsAssumption DEF IInv, TypeOK, StepInv
<1>2. line' \in 1 .. Len(job'.script) + 1
  BY <1>1 DEF Returns
<1>3. Clean(before') /\ files' = before'
  BY WithoutClean DEF Returns
<1>4. TypeOK'
  BY <1>2 DEF Returns, IInv, TypeOK, Steps
<1>5. StepInv'
  BY <1>3 DEF Returns, StepInv, Resting
<1> QED
  BY <1>3, <1>4, <1>5 DEF IInv, Returns, Resting

\* The abstract specification has its own copy of the operators on stores.
LEMMA SameEffect == ASSUME NEW c, NEW s PROVE Atomic!Effect(c, s) = Effect(c, s)
  BY DEF Atomic!Effect, Atomic!Meaning, Atomic!Without, Atomic!Put, Atomic!Target, Atomic!NoPath,
         Atomic!Path, Atomic!Empty, Atomic!SetParts, Atomic!File, Atomic!VendorDB, Atomic!Load,
         Atomic!CertOf, Atomic!Sign, Atomic!Signature, Atomic!Sections, Atomic!Variables,
         Atomic!Archive, Atomic!In, Atomic!Initrd, Atomic!Cpios, Atomic!Cpio, Atomic!IsDirCpio, Atomic!Extended,
         Atomic!Early, Atomic!Content, Atomic!IsGz, Atomic!Gz, Atomic!LoadOwned, Atomic!GuidOf,
         Early, Content, IsGz, Gz, LoadOwned, GuidOf,
         Effect, Meaning, Without, Put, Target, NoPath, Path, Empty, SetParts, File, VendorDB, Load,
         CertOf, Sign, Signature, Sections, Variables, Archive, In, Initrd, Cpios, Cpio, IsDirCpio,
         Extended

\* A returning step is a step of the abstract specification.
LEMMA ReturnsRuns ==
    ASSUME IInv, NEW s, step \notin Resting, Returns(s),
           Without(s, {"tmp"}) = Effect(cmd, before)
    PROVE  Atomic!Run
<1>1. result = "none" /\ line <= Len(job.script)
  BY DEF IInv, StepInv, Resting
<1> QED
  BY <1>1, SameEffect DEF Atomic!Run, Returns, cmd

\* What is read is not what is written: the same files are found while the
\* command is half done.
LEMMA LoadStable ==
    ASSUME NEW s, NEW p, NEW x, NEW args, CanLoad(Put(s, p, x), args),
           \A i \in 1 .. Len(args) : CertOf(args[i].dir) # p
    PROVE  Load(Put(s, p, x), args) = Load(s, args)
  BY DEF Load, Put, CanLoad, IsReadable

LEMMA SectionsStable ==
    ASSUME NEW s, NEW p, NEW x, NEW c, {c.kernel, c.initrd} \subseteq DOMAIN Put(s, p, x),
           p \notin {c.kernel, c.initrd}
    PROVE  Sections(Put(s, p, x), c) = Sections(s, c)
  BY DEF Sections, Put

LEMMA CertIsNotTmp == ASSUME NEW d PROVE CertOf(d) # Tmp
  BY DEF CertOf, Tmp, Path

LEMMA ArchiveStable ==
    ASSUME NEW s, NEW p, NEW x, NEW base, NEW d, p.dir # d
    PROVE  Archive(base, Put(s, p, x), d) = Archive(base, s, d)
<1>1. In(Put(s, p, x), d) = In(s, d)
  BY DEF In, Put
<1>2. \A q \in In(s, d) : Put(s, p, x)[q] = s[q]
  BY DEF In, Put
<1> QED
  BY <1>1, <1>2 DEF Archive, File

LEMMA CpioStable ==
    ASSUME NEW s, NEW p, NEW x, NEW q, CanRead(Put(s, p, x), q),
           q # p, IsDirCpio(q) => q.dir # p.dir
    PROVE  Cpio(Put(s, p, x), q) = Cpio(s, q)
<1>1. CASE IsDirCpio(q)
  BY <1>1, ArchiveStable DEF Cpio
<1>2. CASE ~IsDirCpio(q)
  BY <1>2 DEF Cpio, CanRead, Put
<1> QED
  BY <1>1, <1>2

LEMMA CpiosStable ==
    ASSUME NEW s, NEW p, NEW x, NEW ps, \A i \in 1 .. Len(ps) : CanRead(Put(s, p, x), ps[i]),
           \A i \in 1 .. Len(ps) : ps[i] # p /\ (IsDirCpio(ps[i]) => ps[i].dir # p.dir)
    PROVE  Cpios(Put(s, p, x), ps) = Cpios(s, ps)
<1>1. ASSUME NEW i \in 1 .. Len(ps) PROVE Cpio(Put(s, p, x), ps[i]) = Cpio(s, ps[i])
  BY CpioStable
<1> QED
  BY <1>1 DEF Cpios

LEMMA EarlyStable ==
    ASSUME NEW s, NEW p, NEW x, NEW c, HasEarly(c, Put(s, p, x)), c.in # p,
           c.op = "initrd-join" /\ IsDirCpio(c.in) => c.in.dir # p.dir,
           c.op \in {"initrd-join", "bk-join"}
    PROVE  Early(c, Put(s, p, x)) = Early(c, s)
<1>1. CASE c.in = NoPath
  BY <1>1 DEF Early
<1>2. CASE c.in # NoPath /\ c.op = "bk-join"
  BY <1>2 DEF Early, HasEarly, Put
<1>3. CASE c.in # NoPath /\ c.op = "initrd-join"
  BY <1>3, CpioStable DEF Early, HasEarly
<1> QED
  BY <1>1, <1>2, <1>3

LEMMA VariablesStable ==
    ASSUME NEW s, NEW x, cmd.op = "secure-boot", CanLoadAll(Put(s, Tmp, x))
    PROVE  Variables(Put(s, Tmp, x), cmd) = Variables(s, cmd)
<1>1. \A args : CanLoad(Put(s, Tmp, x), args) => Load(Put(s, Tmp, x), args) = Load(s, args)
  BY LoadStable, CertIsNotTmp
<1>2. \A args \in Lists(cmd) : Load(Put(s, Tmp, x), args) = Load(s, args)
  BY <1>1 DEF CanLoadAll
<1> QED
  BY <1>2 DEF Variables, Lists

-----------------------------------------------------------------------------
(* The steps, one by one.                                                  *)

Abstract == <<job, line, before, result>>

\* A step to another step of the same command: what is left to show is how the
\* new step finds the store.
LEMMA GotoInv ==
    ASSUME IInv, NEW s \in Steps \ Resting, Goto(s), line <= Len(job.script), result = "none",
           StepInv', buffer' # Blank => cmd.op = "sign-efi" /\ s \in {"truncate", "fill"}
    PROVE  IInv' /\ UNCHANGED Abstract
<1>1. cmd' = cmd
  BY DEF Goto, cmd
<1>2. TypeOK'
  BY <1>1 DEF IInv, TypeOK, Goto
<1> QED
  BY <1>2 DEF IInv, Goto, Abstract, Resting

LEMMA Moving == ASSUME IInv, step \notin {"exit", "done"} PROVE result = "none"
  BY DEF IInv

LEMMA StepBegin == ASSUME IInv, Begin PROVE IInv' /\ UNCHANGED Abstract
<1> DEFINE s == FirstStep(cmd)
<1>1. step = "begin" /\ line <= Len(job.script) /\ result = "none" /\ files = before /\ buffer = Blank
  BY DEF Begin, IInv, StepInv, Resting, TypeOK
<1>2. cmd.op \in Ops
  BY <1>1, CmdSane
<1>3. Goto(s) /\ buffer' = buffer /\ AcceptsArgs(cmd)
  BY DEF Begin
<1>4. cmd' = cmd /\ before' = before
  BY <1>3 DEF Goto, cmd
<1>5. files' = IF cmd.op = "secure-boot" /\ cmd.out = NoPath THEN Put(before, Tmp, Blank) ELSE before
  BY <1>1 DEF Begin
<1>6. s \in Steps \ Resting
  BY <1>2 DEF FirstStep, Ops, Steps, Resting
<1>7. StepInv'
  <2> USE <1>1, <1>3, <1>4, <1>5 DEF Goto, StepInv, Resting
  <2>1. CASE cmd.op \in {"test", "rm", "sign-efi"}
    BY <2>1 DEF FirstStep
  <2>2. CASE cmd.op \in {"secure-boot", "fw-vars"}
    BY <2>2 DEF FirstStep, ForVars
  <2>6. CASE cmd.op = "cu-smoosh"
    BY <2>6 DEF FirstStep
  <2>3. CASE cmd.op = "set-db" /\ cmd.out = NoPath
    BY <2>3 DEF FirstStep, ForDB
  <2>4. CASE cmd.op = "initrd-join" /\ cmd.in = NoPath
    BY <2>4 DEF FirstStep, Begun
  <2>5. CASE \/ cmd.op \in {"cp", "tar", "smoosh", "bk-join", "create-cpio"}
             \/ cmd.op = "set-db" /\ cmd.out # NoPath
             \/ cmd.op = "initrd-join" /\ cmd.in # NoPath
    <3>1. s = "truncate" /\ files' = before
      BY <2>5 DEF FirstStep
    <3>2. MayWrite' /\ Whole(before)' = before
      BY <2>5 DEF MayWrite, Writers, AcceptsArgs, Whole
    <3> QED
      BY <3>1, <3>2
  <2> QED
    BY <1>2, <2>1, <2>2, <2>3, <2>4, <2>5, <2>6 DEF Ops
<1> QED
  BY <1>1, <1>3, <1>6, <1>7, GotoInv

LEMMA StepTruncate == ASSUME IInv, Truncate PROVE IInv' /\ UNCHANGED Abstract
<1>1. /\ step = "truncate" /\ line <= Len(job.script) /\ result = "none"
      /\ MayWrite /\ files = Whole(before)
  BY DEF Truncate, IInv, StepInv, Resting
<1>2. Goto("fill") /\ buffer' = buffer /\ files' = Put(Whole(before), Target(cmd), Blank)
  BY <1>1 DEF Truncate
<1>3. cmd' = cmd /\ before' = before
  BY <1>2 DEF Goto, cmd
<1>4. MayWrite' /\ Whole(before)' = Whole(before)
  BY <1>1, <1>2, <1>3 DEF MayWrite, Whole
<1>5. cmd.op \in {"cp", "set-db", "smoosh"} => cmd.in \in DOMAIN before
  BY <1>1 DEF Truncate, Source, Whole
<1>6. StepInv'
  BY <1>1, <1>2, <1>3, <1>4, <1>5 DEF Goto, StepInv, Resting
<1>7. buffer' # Blank => cmd.op = "sign-efi"
  BY <1>2 DEF IInv, TypeOK
<1> QED
  BY <1>1, <1>2, <1>6, <1>7, GotoInv DEF Steps, Resting

LEMMA StepLoadCerts == ASSUME IInv, LoadCerts PROVE IInv' /\ UNCHANGED Abstract
<1> DEFINE s == IF cmd.op = "set-db" THEN "objcopy" ELSE "vars"
<1>1. /\ step = "certs" /\ line <= Len(job.script) /\ result = "none" /\ buffer = Blank
      /\ \/ cmd.op = "set-db" /\ files = ForDB(before)
         \/ cmd.op \in {"secure-boot", "fw-vars"} /\ files = ForVars(before)
  BY DEF LoadCerts, IInv, StepInv, Resting, TypeOK
<1>2. Goto(s) /\ buffer' = buffer /\ files' = files
  BY DEF LoadCerts
<1>3. cmd' = cmd /\ before' = before
  BY <1>2 DEF Goto, cmd
<1>4. ForDB(before)' = ForDB(before) /\ ForVars(before)' = ForVars(before)
  BY <1>3 DEF ForDB, ForVars, Copied
<1>5. step' = s /\ UNCHANGED <<job, line>> /\ files' = files
  BY <1>2 DEF Goto
<1>6. StepInv'
  <2>1. CASE cmd.op = "set-db" /\ files = ForDB(before)
    <3>1. step' = "objcopy" /\ cmd'.op = "set-db" /\ files' = ForDB(before)'
      BY <2>1, <1>3, <1>4, <1>5
    <3>2. CanLoad(files', cmd'.certs)
      BY <2>1, <1>3, <1>5 DEF LoadCerts
    <3> QED
      BY <3>1, <3>2, <1>1, <1>5 DEF StepInv, Resting
  <2>2. CASE cmd.op \in {"secure-boot", "fw-vars"} /\ files = ForVars(before)
    <3>1. step' = "vars" /\ cmd'.op \in {"secure-boot", "fw-vars"} /\ files' = ForVars(before)'
      BY <2>2, <1>3, <1>4, <1>5
    <3>2. CanLoadAll(files)'
      BY <2>2, <1>3, <1>5 DEF LoadCerts, CanLoadAll
    <3> QED
      BY <3>1, <3>2, <1>1, <1>5 DEF StepInv, Resting
  <2> QED
    BY <1>1, <2>1, <2>2
<1>7. s \in Steps \ Resting
  BY DEF Steps, Resting
<1>8. buffer' = Blank
  BY <1>1, <1>2
<1>9. Goto(s) /\ line <= Len(job.script) /\ result = "none"
  BY <1>1, <1>2
<1> QED
  BY <1>6, <1>7, <1>8, <1>9, GotoInv

LEMMA StepSignImage == ASSUME IInv, SignImage PROVE IInv' /\ UNCHANGED Abstract
<1>1. /\ step = "sign" /\ line <= Len(job.script) /\ result = "none"
      /\ cmd.op = "sign-efi" /\ files = before
  BY DEF SignImage, IInv, StepInv, Resting
<1>2. Goto("truncate") /\ files' = files
      /\ buffer' = Sign(files[cmd.in], files[cmd.cert].base, files[cmd.key].base)
  BY DEF SignImage
<1>3. cmd' = cmd /\ before' = before
  BY <1>2 DEF Goto, cmd
<1>4. MayWrite' /\ Whole(before)' = before
  BY <1>1, <1>2, <1>3 DEF MayWrite, Writers, Whole, Meaning
<1>5. StepInv'
  BY <1>1, <1>2, <1>3, <1>4 DEF Goto, StepInv, Resting
<1> QED
  BY <1>1, <1>2, <1>5, GotoInv DEF Steps, Resting

\* A command that returns did what the abstract one does.
LEMMA ReturnStep ==
    ASSUME IInv, NEW s, step \notin Resting, Returns(s), Without(s, {"tmp"}) = Effect(cmd, before)
    PROVE  IInv' /\ Atomic!Run
  BY ReturnsInv, ReturnsRuns

LEMMA PutReturns ==
    ASSUME IInv, step \notin Resting, cmd.op \in Writers,
           Returns(Put(before, Target(cmd), Meaning(cmd, before)))
    PROVE  IInv' /\ Atomic!Run
<1>1. Target(cmd).dir # "tmp" /\ Clean(before)
  BY CmdSane DEF IInv, StepInv
<1>2. Effect(cmd, before) = Put(before, Target(cmd), Meaning(cmd, before))
  BY DEF Effect, Writers
<1> QED
  BY <1>1, <1>2, PutStays, ReturnStep

LEMMA StepTestDir == ASSUME IInv, TestDir PROVE IInv' /\ Atomic!Run
<1>1. step = "test" /\ cmd.op = "test" /\ files = before /\ Clean(before)
  BY DEF TestDir, IInv, StepInv
<1>2. Without(files, {"tmp"}) = Effect(cmd, before)
  BY <1>1, WithoutTmp DEF Effect
<1> QED
  BY <1>1, <1>2, ReturnStep DEF TestDir, Resting

LEMMA StepRemoveDir == ASSUME IInv, RemoveDir PROVE IInv' /\ Atomic!Run
<1>1. step = "rm" /\ cmd.op = "rm" /\ files = before /\ Clean(before)
  BY DEF RemoveDir, IInv, StepInv
<1>2. Clean(Without(before, {cmd.dir}))
  BY <1>1 DEF Clean, In, IsStore, Without
<1>3. Without(Without(files, {cmd.dir}), {"tmp"}) = Effect(cmd, before)
  BY <1>1, <1>2, WithoutTmp DEF Effect
<1> QED
  BY <1>1, <1>3, ReturnStep DEF RemoveDir, Resting

LEMMA StepSetSections == ASSUME IInv, SetSections PROVE IInv' /\ Atomic!Run
<1> DEFINE p == Target(cmd)
<1>1. /\ step = "objcopy" /\ line <= Len(job.script)
      /\ \/ cmd.op = "set-db" /\ files = ForDB(before) /\ CanLoad(files, cmd.certs)
         \/ cmd.op = "smoosh" /\ files = Copied(before)
         \/ cmd.op = "cu-smoosh" /\ files = before
  BY DEF SetSections, IInv, StepInv, Resting
<1>2. IsSane(cmd) /\ (cmd.op # "cu-smoosh" => IsReadable(files, p))
  BY <1>1, CmdSane DEF SetSections, Binary
<1>3. CASE cmd.op = "set-db" /\ cmd.out = NoPath
  <2>1. files = before /\ p = cmd.in
    BY <1>1, <1>3 DEF ForDB, Target
  <2>2. Returns(Put(before, p, Meaning(cmd, before)))
    BY <1>3, <2>1 DEF SetSections, Meaning, Binary
  <2> QED
    BY <1>1, <1>3, <2>2, PutReturns DEF Resting, Writers
<1>4. CASE cmd.op = "smoosh" \/ (cmd.op = "set-db" /\ cmd.out # NoPath)
  <2>1. files = Copied(before)
    BY <1>1, <1>4 DEF ForDB
  <2>2. cmd.in # p /\ files = Put(before, p, before[cmd.in])
    BY <1>2, <1>4, <2>1 DEF Copied, IsReadable, Put
  <2>3. files[p] = before[cmd.in]
    BY <2>2 DEF Put
  <2>4. CASE cmd.op = "set-db"
    <3>1. \A i \in 1 .. Len(cmd.certs) : CertOf(cmd.certs[i].dir) # p
      BY <1>2, <2>4 DEF IsSane, Reads
    <3>2. CanLoad(files, cmd.certs)
      BY <1>1, <2>4
    <3>3. Load(files, cmd.certs) = Load(before, cmd.certs)
      BY <3>1, <3>2, <2>2, LoadStable
    <3>4. SetParts(files[p], VendorDB(files, cmd)) = Meaning(cmd, before)
      BY <2>3, <2>4, <3>3 DEF VendorDB, Meaning
    <3>5. Returns(Put(files, p, Meaning(cmd, before)))
      BY <2>4, <3>4 DEF SetSections, Binary
    <3>6. Returns(Put(before, p, Meaning(cmd, before)))
      BY <3>5, <2>2, PutPut
    <3> QED
      BY <1>1, <2>4, <3>6, PutReturns DEF Resting, Writers
  <2>5. CASE cmd.op = "smoosh"
    <3>1. p \notin {cmd.kernel, cmd.initrd}
      BY <1>2, <2>5 DEF IsSane, Reads
    <3>2. {cmd.kernel, cmd.initrd} \subseteq DOMAIN files
      BY <2>5 DEF SetSections
    <3>3. Sections(files, cmd) = Sections(before, cmd)
      BY <3>1, <3>2, <2>2, SectionsStable
    <3>4. SetParts(files[p], Sections(files, cmd)) = Meaning(cmd, before)
      BY <2>3, <2>5, <3>3 DEF Meaning
    <3>5. Returns(Put(files, p, Meaning(cmd, before)))
      BY <2>5, <3>4 DEF SetSections, Binary
    <3>6. Returns(Put(before, p, Meaning(cmd, before)))
      BY <3>5, <2>2, PutPut
    <3> QED
      BY <1>1, <2>5, <3>6, PutReturns DEF Resting, Writers
  <2> QED
    BY <1>4, <2>4, <2>5
<1>5. CASE cmd.op = "cu-smoosh"
  <2>1. files = before
    BY <1>1, <1>5
  <2>2. Returns(Put(before, p, Meaning(cmd, before)))
    BY <1>5, <2>1 DEF SetSections, Meaning, Binary
  <2> QED
    BY <1>1, <1>5, <2>2, PutReturns DEF Resting, Writers
<1> QED
  BY <1>1, <1>3, <1>4, <1>5

LEMMA StepMakeVars == ASSUME IInv, MakeVars PROVE IInv' /\ (Atomic!Run \/ UNCHANGED Abstract)
<1> DEFINE made == SetParts(files[cmd.in], Variables(files, cmd))
<1>1. /\ step = "vars" /\ line <= Len(job.script) /\ result = "none" /\ buffer = Blank
      /\ cmd.op \in {"secure-boot", "fw-vars"} /\ files = ForVars(before) /\ CanLoadAll(files)
      /\ cmd.op = "fw-vars" => cmd.out # NoPath
  BY CmdSane DEF IsSane, MakeVars, IInv, StepInv, Resting, TypeOK
<1>2. Target(cmd).dir # "tmp" /\ cmd.in \in DOMAIN files
  BY <1>1, CmdSane DEF MakeVars, IsReadable
<1>3. CASE cmd.out = NoPath
  <2>0. cmd.op = "secure-boot"
    BY <1>1, <1>3
  <2>1. files = Put(before, Tmp, Blank)
    BY <1>1, <1>3, <2>0 DEF ForVars
  <2>2. cmd.in # Tmp
    BY <1>2, <1>3 DEF Target, Tmp, Path
  <2>3. files[cmd.in] = before[cmd.in]
    BY <1>2, <2>1, <2>2 DEF Put
  <2>4. Variables(files, cmd) = Variables(before, cmd)
    BY <1>1, <2>0, <2>1, VariablesStable
  <2>5. made = Meaning(cmd, before)
    BY <1>1, <2>3, <2>4 DEF Meaning
  <2>6. Goto("truncate") /\ buffer' = buffer /\ files' = Put(files, Tmp, made)
    BY <1>3 DEF MakeVars
  <2>7. files' = Put(before, Tmp, Meaning(cmd, before))
    BY <2>1, <2>5, <2>6, PutPut
  <2>8. cmd' = cmd /\ before' = before
    BY <2>6 DEF Goto, cmd
  <2>9. MayWrite' /\ Whole(before)' = Put(before, Tmp, Meaning(cmd, before))
    BY <1>1, <1>3, <2>0, <2>8 DEF MayWrite, Writers, Whole
  <2>10. step' = "truncate" /\ UNCHANGED <<job, line>>
    BY <2>6 DEF Goto
  <2>11. StepInv'
    BY <1>1, <2>7, <2>9, <2>10 DEF StepInv, Resting
  <2> QED
    BY <1>1, <2>6, <2>11, GotoInv DEF Steps, Resting
<1>4. CASE cmd.out # NoPath
  <2>1. files = before
    BY <1>1, <1>4 DEF ForVars
  <2>2. Returns(Put(before, Target(cmd), Meaning(cmd, before)))
    BY <1>1, <1>4, <2>1 DEF MakeVars, Meaning, Target
  <2> QED
    BY <1>1, <2>2, PutReturns DEF Resting, Writers
<1> QED
  BY <1>3, <1>4

LEMMA StepAppendCpios == ASSUME IInv, AppendCpios PROVE IInv' /\ Atomic!Run
<1> DEFINE p == Target(cmd)
           early == Early(cmd, before)
<1>1. /\ step = "append" /\ line <= Len(job.script)
      /\ cmd.op = "initrd-join" /\ files = Begun(before)
  BY DEF AppendCpios, IInv, StepInv, Resting
<1>2. IsSane(cmd)
  BY <1>1, CmdSane
<1>3. p = cmd.out
  BY <1>1, <1>2 DEF IsSane, Reads, Target
<1>4. \A i \in 1 .. Len(cmd.cpios) : cmd.cpios[i] # p /\ (IsDirCpio(cmd.cpios[i]) => cmd.cpios[i].dir # p.dir)
  BY <1>1, <1>2 DEF IsSane, Reads, ReadDirs
<1>5. \A i \in 1 .. Len(cmd.cpios) : CanRead(files, cmd.cpios[i])
  BY DEF AppendCpios
<1>6. CASE cmd.in = NoPath
  <2>1. files = before
    BY <1>1, <1>6 DEF Begun
  <2>2. Returns(Put(before, p, Meaning(cmd, before)))
    BY <1>1, <1>3, <1>6, <2>1 DEF AppendCpios, Meaning, Early
  <2> QED
    BY <1>1, <2>2, PutReturns DEF Resting, Writers
<1>7. CASE cmd.in # NoPath
  <2>1. files = Put(before, p, early)
    BY <1>1, <1>7 DEF Begun
  <2>2. p \in DOMAIN files /\ files[p] = early
    BY <2>1 DEF Put
  <2>3. Cpios(files, cmd.cpios) = Cpios(before, cmd.cpios)
    BY <1>4, <1>5, <2>1, CpiosStable
  <2>4. Returns(Put(files, p, Extended(early, Cpios(before, cmd.cpios))))
    BY <1>3, <2>2, <2>3 DEF AppendCpios
  <2>5. Extended(early, Cpios(before, cmd.cpios)) = Meaning(cmd, before)
    BY <1>1, <1>7 DEF Meaning
  <2>6. Returns(Put(before, p, Meaning(cmd, before)))
    BY <2>1, <2>4, <2>5, PutPut
  <2> QED
    BY <1>1, <2>6, PutReturns DEF Resting, Writers
<1> QED
  BY <1>6, <1>7

LEMMA StepFill == ASSUME IInv, Fill PROVE IInv' /\ (Atomic!Run \/ UNCHANGED Abstract)
<1> DEFINE p == Target(cmd)
<1>1. /\ step = "fill" /\ line <= Len(job.script) /\ result = "none" /\ MayWrite
      /\ files = Put(Whole(before), p, Blank) /\ Clean(before)
      /\ cmd.op \in {"cp", "set-db", "smoosh"} => cmd.in \in DOMAIN before
  BY DEF Fill, IInv, StepInv, Resting
<1>2. IsSane(cmd) /\ p.dir # "tmp"
  BY <1>1, CmdSane
<1>3. cmd.op # "secure-boot" => files = Put(before, p, Blank)
  BY <1>1 DEF Whole
<1>4. ASSUME NEW x, Returns(Put(files, p, x)), x = Meaning(cmd, before)
      PROVE  IInv' /\ Atomic!Run
  <2>1. Effect(cmd, before) = Put(before, p, x)
    BY <1>1, <1>4 DEF MayWrite, Writers, Effect
  <2>2. Put(files, p, x) = Put(Whole(before), p, x)
    BY <1>1, PutPut
  <2>3. Without(Put(Whole(before), p, x), {"tmp"}) = Put(before, p, x)
    BY <1>1, <1>2, PutStays, PutTmpPut DEF Whole
  <2> QED
    BY <1>1, <1>4, <2>1, <2>2, <2>3, ReturnStep DEF Resting
<1>5. CASE cmd.op = "cp"
  <2>1. files[cmd.in] = before[cmd.in]
    BY <1>1, <1>3, <1>5 DEF MayWrite, Put
  <2> QED
    BY <1>4, <1>5, <2>1 DEF Fill, AfterFill, Source, Meaning
<1>6. CASE cmd.op = "sign-efi"
  BY <1>1, <1>4, <1>6 DEF Fill, AfterFill, MayWrite
<1>7. CASE cmd.op = "tar"
  <2>1. Archive("tar", files, cmd.dir) = Archive("tar", before, cmd.dir)
    BY <1>2, <1>3, <1>7, ArchiveStable DEF IsSane, ReadDirs
  <2> QED
    BY <1>4, <1>7, <2>1 DEF Fill, AfterFill, Meaning
<1>11. CASE cmd.op = "create-cpio"
  <2>1. Archive("cpio", files, cmd.dir) = Archive("cpio", before, cmd.dir)
    BY <1>2, <1>3, <1>11, ArchiveStable DEF IsSane, ReadDirs
  <2> QED
    BY <1>4, <1>11, <2>1 DEF Fill, AfterFill, Meaning
<1>8. CASE cmd.op = "secure-boot"
  <2>1. files[Tmp] = Meaning(cmd, before)
    <3>1. files = Put(Put(before, Tmp, Meaning(cmd, before)), p, Blank)
      BY <1>1, <1>8 DEF Whole
    <3> QED
      BY <1>2, <3>1, PutTmpGets
  <2> QED
    BY <1>4, <1>8, <2>1 DEF Fill, AfterFill, Source
<1>9. CASE cmd.op \in {"initrd-join", "bk-join"}
  <2> DEFINE x == Early(cmd, before)
  <2>1. cmd.in # p /\ HasEarly(cmd, files)
    BY <1>2, <1>9 DEF IsSane, Reads, Fill
  <2>0. cmd.op = "initrd-join" /\ IsDirCpio(cmd.in) => cmd.in.dir # p.dir
    BY <1>2 DEF IsSane, ReadDirs
  <2>2. Early(cmd, files) = x
    BY <1>3, <1>9, <2>0, <2>1, EarlyStable
  <2>3. CASE cmd.op = "bk-join"
    <3>1. Returns(Put(files, p, x))
      BY <2>2, <2>3 DEF Fill, AfterFill
    <3> QED
      BY <1>4, <2>3, <3>1 DEF Meaning
  <2>4. CASE cmd.op = "initrd-join"
    <3>1. cmd.in # NoPath
      BY <1>1, <2>4 DEF MayWrite
    <3>2. Goto("append") /\ buffer' = buffer /\ files' = Put(files, p, x)
      BY <2>2, <2>4, <3>1 DEF Fill, AfterFill
    <3>3. files' = Begun(before)
      BY <1>3, <2>4, <3>1, <3>2, PutPut DEF Begun
    <3>4. cmd' = cmd /\ before' = before /\ step' = "append" /\ UNCHANGED <<job, line>>
      BY <3>2 DEF Goto, cmd
    <3>5. Begun(before)' = Begun(before)
      BY <3>4 DEF Begun
    <3>6. StepInv'
      BY <1>1, <2>4, <3>3, <3>4, <3>5 DEF StepInv, Resting
    <3>7. buffer' = Blank
      BY <2>4, <3>2 DEF IInv, TypeOK
    <3> QED
      BY <1>1, <3>2, <3>6, <3>7, GotoInv DEF Steps, Resting
  <2> QED
    BY <1>9, <2>3, <2>4
<1>10. CASE cmd.op \in {"set-db", "smoosh"}
  <2> DEFINE s == AfterFill(cmd)
  <2>1. files[cmd.in] = IF cmd.in = p THEN Blank ELSE before[cmd.in]
    BY <1>1, <1>3, <1>10 DEF Put
  <2>2. Goto(s) /\ buffer' = buffer /\ files' = Put(files, p, files[cmd.in])
    BY <1>10 DEF Fill, AfterFill, Source
  <2>3. files' = Copied(before)
    BY <1>3, <1>10, <2>1, <2>2, PutPut DEF Copied
  <2>4. cmd' = cmd /\ before' = before /\ step' = s /\ UNCHANGED <<job, line>>
    BY <2>2 DEF Goto, cmd
  <2>5. Copied(before)' = Copied(before)
    BY <2>4 DEF Copied
  <2>6. buffer' = Blank
    BY <1>10, <2>2 DEF IInv, TypeOK
  <2>7. CASE cmd.op = "set-db"
    <3>1. ForDB(before)' = files'
      BY <1>1, <2>3, <2>4, <2>5, <2>7 DEF MayWrite, ForDB
    <3>2. s = "certs"
      BY <2>7 DEF AfterFill
    <3>3. StepInv'
      BY <1>1, <2>4, <2>7, <3>1, <3>2 DEF StepInv, Resting
    <3> QED
      BY <1>1, <2>2, <2>6, <3>2, <3>3, GotoInv DEF Steps, Resting
  <2>8. CASE cmd.op = "smoosh"
    <3>1. s = "objcopy"
      BY <2>8 DEF AfterFill
    <3>2. StepInv'
      BY <1>1, <2>3, <2>4, <2>5, <2>8, <3>1 DEF StepInv, Resting
    <3> QED
      BY <1>1, <2>2, <2>6, <3>1, <3>2, GotoInv DEF Steps, Resting
  <2> QED
    BY <1>10, <2>7, <2>8
<1> QED
  BY <1>1, <1>5, <1>6, <1>7, <1>8, <1>9, <1>10, <1>11 DEF MayWrite, Writers
-----------------------------------------------------------------------------
(* A failure spoils the target of the command, and nothing else.           *)

\* Off some paths, two stores are alike.
AlikeOff(paths, s, t) ==
    \A p \in DOMAIN s \cup DOMAIN t :
        p \notin paths => p \in DOMAIN s /\ p \in DOMAIN t /\ s[p] = t[p]

LEMMA PutAlike ==
    ASSUME NEW paths, NEW s, NEW t, AlikeOff(paths, s, t), NEW p \in paths, NEW x
    PROVE  AlikeOff(paths, Put(s, p, x), t)
  BY DEF AlikeOff, Put

LEMMA DropAlike ==
    ASSUME NEW paths, NEW s, NEW t, AlikeOff(paths, s, t), NEW p \in paths
    PROVE  AlikeOff(paths, Drop(s, p), t)
  BY DEF AlikeOff, Drop

LEMMA SelfAlike == ASSUME NEW paths, NEW s PROVE AlikeOff(paths, s, s)
  BY DEF AlikeOff

\* Whatever step a command has come to, it has written to nothing else.
LEMMA FilesAlike ==
    ASSUME IInv, line <= Len(job.script), step \notin {"exit", "done"}
    PROVE  AlikeOff({Target(cmd), Tmp}, files, before)
<1> DEFINE paths == {Target(cmd), Tmp}
<1>1. AlikeOff(paths, before, before)
  BY SelfAlike
<1>2. \A p \in paths : \A x : AlikeOff(paths, Put(before, p, x), before)
  BY <1>1, PutAlike
<1>3. \A x : AlikeOff(paths, Put(Whole(before), Target(cmd), x), before)
  BY <1>1, <1>2, PutAlike DEF Whole
<1> HIDE DEF paths
<1>4. Target(cmd) \in paths /\ Tmp \in paths
  BY DEF paths
<1>5. CASE step \in Resting \cup {"test", "rm", "sign"}
  BY <1>1, <1>5 DEF IInv, StepInv, paths
<1>6. CASE step \in {"certs", "objcopy"}
  BY <1>1, <1>2, <1>4, <1>6 DEF IInv, StepInv, ForDB, ForVars, Copied, paths
<1>7. CASE step = "vars"
  BY <1>1, <1>2, <1>4, <1>7 DEF IInv, StepInv, ForVars, paths
<1>8. CASE step = "append"
  BY <1>1, <1>2, <1>4, <1>8 DEF IInv, StepInv, Begun, paths
<1>9. CASE step = "truncate"
  BY <1>1, <1>2, <1>4, <1>9 DEF IInv, StepInv, Whole, paths
<1>10. CASE step = "fill"
  BY <1>3, <1>10 DEF IInv, StepInv, paths
<1> QED
  BY <1>5, <1>6, <1>7, <1>8, <1>9, <1>10 DEF IInv, TypeOK, Steps, Resting

\* Before a command writes to its target, nothing but the temporary file differs.
LEMMA TargetAlike ==
    ASSUME IInv, step \notin Resting, Written = {}
    PROVE  AlikeOff({Tmp}, files, before)
<1>1. AlikeOff({Tmp}, before, before)
  BY SelfAlike
<1>2. \A x : AlikeOff({Tmp}, Put(before, Tmp, x), before)
  BY <1>1, PutAlike
<1>3. step \in {"sign", "truncate"} \/ (cmd.op \in {"secure-boot", "fw-vars"} /\ step # "fill")
  BY DEF Written
<1>4. CASE step = "sign"
  BY <1>1, <1>4 DEF IInv, StepInv
<1>5. CASE step = "truncate"
  BY <1>1, <1>2, <1>5 DEF IInv, StepInv, Whole
<1>6. CASE cmd.op \in {"secure-boot", "fw-vars"} /\ step \notin {"fill", "sign", "truncate"}
  <2>1. step \in {"certs", "vars"}
    BY <1>6 DEF IInv, TypeOK, StepInv, Steps, Resting
  <2>2. files = ForVars(before)
    BY <1>6, <2>1 DEF IInv, StepInv
  <2> QED
    BY <1>1, <1>2, <2>2 DEF ForVars
<1> QED
  BY <1>3, <1>4, <1>5, <1>6

LEMMA FailureSpoilsTarget ==
    ASSUME NEW s, NEW p, Clean(before), AlikeOff({p, Tmp}, s, before)
    PROVE  AlikeOff({p}, before, Without(s, {"tmp"}))
<1>1. \A q \in DOMAIN before : q # Tmp /\ q.dir # "tmp"
  BY DEF Clean, In, Tmp, Path
<1>2. \A q \in DOMAIN Without(s, {"tmp"}) : q \in DOMAIN s /\ q # Tmp /\ Without(s, {"tmp"})[q] = s[q]
  BY DEF Without, Tmp, Path
<1>3. \A q \in DOMAIN s : q.dir # "tmp" => q \in DOMAIN Without(s, {"tmp"})
  BY DEF Without
<1> QED
  BY <1>1, <1>2, <1>3 DEF AlikeOff

LEMMA StepStepFails == ASSUME IInv, StepFails PROVE IInv' /\ Atomic!Break
<1>1. /\ step \notin {"exit", "done"} /\ line <= Len(job.script) /\ result = "none"
      /\ Clean(before)
  BY DEF StepFails, IInv
<1>2. AlikeOff({Target(cmd), Tmp}, files, before)
  BY <1>1, FilesAlike
<1>3. AlikeOff({Target(cmd), Tmp}, Put(files, Target(cmd), Blank), before)
  BY <1>2, PutAlike
<1>4. AlikeOff({Target(cmd), Tmp}, Drop(files, Target(cmd)), before)
  BY <1>2, DropAlike
<1>5. PICK s : before' = Without(s, {"tmp"}) /\ AlikeOff({Target(cmd), Tmp}, s, before)
  BY <1>2, <1>3, <1>4 DEF StepFails
<1>6. AlikeOff({Target(cmd)}, before, before')
  BY <1>1, <1>5, FailureSpoilsTarget
<1>7. Atomic!Target(cmd) = Target(cmd)
  BY DEF Atomic!Target, Target, Atomic!NoPath, NoPath, Atomic!Path, Path, Atomic!Empty, Empty
<1>8. Atomic!Break
  BY <1>1, <1>6, <1>7 DEF Atomic!Break, AlikeOff, StepFails, cmd
<1>9. Clean(before') /\ files' = before'
  BY <1>5, WithoutClean DEF StepFails
<1>10. TypeOK' /\ StepInv'
  BY <1>9 DEF StepFails, IInv, TypeOK, Steps, StepInv, Resting
<1> QED
  BY <1>8, <1>9, <1>10 DEF StepFails, IInv

LEMMA StepScriptEnds == ASSUME IInv, ScriptEnds PROVE IInv' /\ Atomic!Finish
<1>1. result = "none" /\ files = before
  BY DEF ScriptEnds, IInv, StepInv, Resting
<1>2. TypeOK' /\ StepInv'
  BY <1>1 DEF ScriptEnds, IInv, TypeOK, Steps, StepInv, Resting
<1> QED
  BY <1>1, <1>2 DEF ScriptEnds, IInv, Atomic!Finish

LEMMA StepExit == ASSUME IInv, Exit PROVE IInv' /\ Atomic!Exit
<1>1. result # "none" /\ files = before /\ Clean(before)
  BY DEF Exit, IInv, StepInv, Resting
<1>2. Clean(before')
  BY <1>1 DEF Exit, Clean, IsStore, In, Without
<1>3. TypeOK' /\ StepInv'
  BY <1>1 DEF Exit, IInv, TypeOK, Steps, StepInv, Resting
<1>4. Atomic!Exit
  BY <1>1 DEF Exit, Atomic!Exit, Atomic!Without, Without
<1> QED
  BY <1>1, <1>2, <1>3, <1>4 DEF Exit, IInv

-----------------------------------------------------------------------------
(* What a command that succeeds has found.                                 *)

\* What is known of the input once the step that read it is past.
ReadInv ==
    /\ step \in {"truncate", "fill"} =>
          /\ cmd.op = "sign-efi" => {cmd.in, cmd.cert, cmd.key} \subseteq DOMAIN before
          /\ cmd.op = "secure-boot" => cmd.in \in DOMAIN before /\ CanLoadAll(before)
    /\ step = "append" /\ cmd.in # NoPath => HasEarly(cmd, before)
    /\ step \in {"certs", "objcopy"} /\ cmd.op \in {"set-db", "smoosh"} => cmd.in \in DOMAIN before

\* What is readable although something else was written was readable before.
LEMMA CanLoadBefore ==
    ASSUME NEW s, NEW p, NEW x, NEW args, CanLoad(Put(s, p, x), args),
           \A i \in 1 .. Len(args) : CertOf(args[i].dir) # p
    PROVE  CanLoad(s, args)
  BY DEF CanLoad, Put, IsReadable

LEMMA CanReadBefore ==
    ASSUME NEW s, NEW p, NEW x, NEW q, CanRead(Put(s, p, x), q),
           q # p, IsDirCpio(q) => q.dir # p.dir
    PROVE  CanRead(s, q)
<1>1. CASE IsDirCpio(q)
  BY <1>1 DEF CanRead, In, Put
<1>2. CASE ~IsDirCpio(q)
  BY <1>2 DEF CanRead, Put
<1> QED
  BY <1>1, <1>2

LEMMA HasEarlyBefore ==
    ASSUME NEW s, NEW p, NEW x, NEW c, HasEarly(c, Put(s, p, x)), c.in # p,
           c.op # "bk-join" /\ IsDirCpio(c.in) => c.in.dir # p.dir
    PROVE  HasEarly(c, s)
<1>1. CASE c.op = "bk-join"
  BY <1>1 DEF HasEarly, Put
<1>2. CASE c.op # "bk-join"
  BY <1>2, CanReadBefore DEF HasEarly
<1> QED
  BY <1>1, <1>2

LEMMA BeginFinds == ASSUME IInv, Begin \/ Truncate \/ LoadCerts \/ SignImage, ReadInv PROVE ReadInv'
<1>1. cmd' = cmd /\ before' = before
  BY DEF Begin, Truncate, LoadCerts, SignImage, Goto, cmd
<1>2. CASE Begin
  <2>1. step' = FirstStep(cmd)
    BY <1>2 DEF Begin, Goto
  <2>2. step' \in {"truncate", "fill"} => cmd.op \notin {"sign-efi", "secure-boot"}
    BY <2>1 DEF FirstStep
  <2>3. step' = "append" => cmd.in = NoPath
    BY <2>1 DEF FirstStep
  <2>4. step' = "certs" /\ cmd.op = "set-db" => cmd.in \in DOMAIN before
    BY <1>2 DEF Begin, AcceptsArgs, IInv, StepInv, Resting
  <2>5. step' = "certs" => cmd.op # "smoosh"
    BY <2>1 DEF FirstStep
  <2>6. step' = "objcopy" => cmd.op = "cu-smoosh"
    BY <2>1 DEF FirstStep
  <2> QED
    BY <1>1, <2>2, <2>3, <2>4, <2>5, <2>6 DEF ReadInv
<1>3. CASE Truncate
  BY <1>1, <1>3 DEF Truncate, Goto, ReadInv, CanLoadAll
<1>4. CASE LoadCerts
  BY <1>1, <1>4 DEF LoadCerts, Goto, ReadInv
<1>5. CASE SignImage
  <2>1. cmd.op = "sign-efi" /\ files = before
    BY <1>5 DEF SignImage, IInv, StepInv
  <2>2. {cmd.in, cmd.cert, cmd.key} \subseteq DOMAIN before
    BY <1>5, <2>1 DEF SignImage, IsReadable
  <2> QED
    BY <1>1, <1>5, <2>1, <2>2 DEF SignImage, Goto, ReadInv
<1> QED
  BY <1>2, <1>3, <1>4, <1>5

\* When a command returns, the next one has read nothing yet.
LEMMA ReturnsFinds == ASSUME NEW s, Returns(s) PROVE ReadInv'
  BY DEF Returns, ReadInv

LEMMA SectionsFinds == ASSUME IInv, SetSections, ReadInv PROVE Finds(cmd, before) /\ ReadInv'
<1> DEFINE p == Target(cmd)
<1>1. /\ step = "objcopy" /\ line <= Len(job.script)
      /\ \/ cmd.op = "set-db" /\ files = ForDB(before) /\ CanLoad(files, cmd.certs)
         \/ cmd.op = "smoosh" /\ files = Copied(before)
         \/ cmd.op = "cu-smoosh" /\ files = before
  BY DEF SetSections, IInv, StepInv, Resting
<1>2. IsSane(cmd) /\ IsReadable(files, Binary)
  BY <1>1, CmdSane DEF SetSections
<1>3. Finds(cmd, before)
  <2>1. CASE cmd.op = "cu-smoosh"
    BY <1>1, <1>2, <2>1 DEF Finds, SetSections, Binary, IsReadable
  <2>2. CASE cmd.op = "set-db" /\ cmd.out = NoPath
    BY <1>1, <1>2, <2>2 DEF Finds, Binary, IsReadable, ForDB, Target
  <2>3. CASE cmd.op = "set-db" /\ cmd.out # NoPath
    <3>1. files = Put(before, p, before[cmd.in]) /\ cmd.in # p
      BY <1>1, <1>2, <2>3 DEF ForDB, Copied, Binary, IsReadable, Put
    <3>2. \A i \in 1 .. Len(cmd.certs) : CertOf(cmd.certs[i].dir) # p
      BY <1>2, <2>3 DEF IsSane, Reads
    <3>3. CanLoad(before, cmd.certs)
      BY <1>1, <2>3, <3>1, <3>2, CanLoadBefore
    <3> QED
      BY <1>1, <2>3, <3>3 DEF Finds, ReadInv
  <2>4. CASE cmd.op = "smoosh"
    <3>1. files = Put(before, p, IF cmd.in = p THEN Blank ELSE before[cmd.in])
      BY <1>1, <2>4 DEF Copied
    <3>2. {cmd.kernel, cmd.initrd} \subseteq DOMAIN files /\ p \notin {cmd.kernel, cmd.initrd}
      BY <1>2, <2>4 DEF SetSections, IsSane, Reads
    <3>3. {cmd.kernel, cmd.initrd} \subseteq DOMAIN before
      BY <3>1, <3>2 DEF Put
    <3> QED
      BY <1>1, <2>4, <3>3 DEF Finds, ReadInv
  <2> QED
    BY <1>1, <2>1, <2>2, <2>3, <2>4
<1> QED
  BY <1>3, ReturnsFinds DEF SetSections

LEMMA VarsFinds ==
    ASSUME IInv, MakeVars, ReadInv PROVE (line' # line => Finds(cmd, before)) /\ ReadInv'
<1>1. /\ step = "vars" /\ line <= Len(job.script)
      /\ cmd.op \in {"secure-boot", "fw-vars"} /\ files = ForVars(before) /\ CanLoadAll(files)
      /\ cmd.op = "fw-vars" => cmd.out # NoPath
  BY CmdSane DEF IsSane, MakeVars, IInv, StepInv, Resting
<1>2. Target(cmd).dir # "tmp" /\ cmd.in \in DOMAIN files
  BY <1>1, CmdSane DEF MakeVars, IsReadable
<1>3. CASE cmd.out # NoPath
  <2>1. files = before
    BY <1>1, <1>3 DEF ForVars
  <2>2. Finds(cmd, before)
    BY <1>1, <1>2, <2>1 DEF Finds, CanLoadAll
  <2> QED
    BY <1>3, <2>2, ReturnsFinds DEF MakeVars
<1>4. CASE cmd.out = NoPath
  <2>1. cmd.op = "secure-boot" /\ files = Put(before, Tmp, Blank)
    BY <1>1, <1>4 DEF ForVars
  <2>2. cmd.in \in DOMAIN before
    BY <1>2, <1>4, <2>1 DEF Put, Target, Tmp, Path
  <2>3. CanLoadAll(before)
    BY <1>1, <2>1, CanLoadBefore, CertIsNotTmp DEF CanLoadAll
  <2>4. Goto("truncate")
    BY <1>4 DEF MakeVars
  <2>5. cmd' = cmd /\ before' = before /\ step' = "truncate" /\ line' = line
    BY <2>4 DEF Goto, cmd
  <2> QED
    BY <2>1, <2>2, <2>3, <2>5 DEF ReadInv, CanLoadAll
<1> QED
  BY <1>3, <1>4

LEMMA FillFinds == ASSUME IInv, Fill, ReadInv PROVE (line' # line => Finds(cmd, before)) /\ ReadInv'
<1> DEFINE p == Target(cmd)
<1>1. /\ step = "fill" /\ line <= Len(job.script) /\ MayWrite
      /\ files = Put(Whole(before), p, Blank)
      /\ cmd.op \in {"cp", "set-db", "smoosh"} => cmd.in \in DOMAIN before
  BY DEF Fill, IInv, StepInv, Resting
<1>2. IsSane(cmd)
  BY <1>1, CmdSane
<1>3. cmd.op \in {"initrd-join", "bk-join"} => HasEarly(cmd, before)
  <2> SUFFICES ASSUME cmd.op \in {"initrd-join", "bk-join"} PROVE HasEarly(cmd, before)
    OBVIOUS
  <2>1. files = Put(before, p, Blank) /\ HasEarly(cmd, files)
    BY <1>1 DEF Whole, Fill
  <2>2. cmd.in # p /\ (cmd.op # "bk-join" /\ IsDirCpio(cmd.in) => cmd.in.dir # p.dir)
    BY <1>2 DEF IsSane, Reads, ReadDirs
  <2> QED
    BY <2>1, <2>2, HasEarlyBefore
<1>4. CASE AfterFill(cmd) = "end"
  <2>1. cmd.op \notin {"set-db", "smoosh", "initrd-join"}
    BY <1>4 DEF AfterFill
  <2>2. Finds(cmd, before)
    BY <1>1, <1>3, <2>1 DEF Finds, ReadInv, CanLoadAll, MayWrite, Writers
  <2> QED
    BY <1>4, <2>2, ReturnsFinds DEF Fill
<1>5. CASE AfterFill(cmd) # "end"
  <2>1. Goto(AfterFill(cmd))
    BY <1>5 DEF Fill
  <2>2. cmd' = cmd /\ before' = before /\ step' = AfterFill(cmd) /\ line' = line
    BY <2>1 DEF Goto, cmd
  <2>3. \/ step' = "certs" /\ cmd.op = "set-db"
        \/ step' = "objcopy" /\ cmd.op = "smoosh"
        \/ step' = "append" /\ cmd.op = "initrd-join"
    BY <1>5, <2>2 DEF AfterFill
  <2> QED
    BY <1>1, <1>3, <2>2, <2>3 DEF ReadInv
<1> QED
  BY <1>4, <1>5

LEMMA AppendFinds == ASSUME IInv, AppendCpios, ReadInv PROVE Finds(cmd, before) /\ ReadInv'
<1> DEFINE p == Target(cmd)
<1>1. /\ step = "append" /\ line <= Len(job.script)
      /\ cmd.op = "initrd-join" /\ files = Begun(before)
  BY DEF AppendCpios, IInv, StepInv, Resting
<1>2. HasEarly(cmd, before)
  BY <1>1 DEF ReadInv, HasEarly
<1>3. ASSUME NEW i \in 1 .. Len(cmd.cpios) PROVE CanRead(before, cmd.cpios[i])
  <2> DEFINE q == cmd.cpios[i]
  <2>1. q # p /\ (IsDirCpio(q) => q.dir # p.dir)
    BY <1>1, CmdSane DEF IsSane, Reads, ReadDirs
  <2>2. CanRead(files, q)
    BY DEF AppendCpios
  <2>3. files = before \/ files = Put(before, p, Early(cmd, before))
    BY <1>1 DEF Begun
  <2> HIDE DEF q, p
  <2>4. CanRead(before, q)
    BY <2>1, <2>2, <2>3, CanReadBefore
  <2> QED
    BY <2>4 DEF q
<1> QED
  BY <1>1, <1>2, <1>3, ReturnsFinds DEF Finds, AppendCpios

LEMMA NextFinds ==
    ASSUME IInv, [Next]_vars, ReadInv
    PROVE  (line' # line => Finds(cmd, before)) /\ ReadInv'
<1>1. CASE Begin \/ Truncate \/ LoadCerts \/ SignImage
  <2>1. line' = line
    BY <1>1 DEF Begin, Truncate, LoadCerts, SignImage, Goto
  <2> QED
    BY <1>1, <2>1, BeginFinds
<1>2. CASE TestDir \/ RemoveDir
  <2>1. cmd.op \in {"test", "rm"}
    BY <1>2 DEF IInv, StepInv, TestDir, RemoveDir
  <2> QED
    BY <1>2, <2>1, ReturnsFinds DEF Finds, TestDir, RemoveDir
<1>3. CASE Fill
  BY <1>3, FillFinds
<1>4. CASE SetSections
  BY <1>4, SectionsFinds
<1>5. CASE MakeVars
  BY <1>5, VarsFinds
<1>6. CASE AppendCpios
  BY <1>6, AppendFinds
<1>7. CASE StepFails \/ ScriptEnds \/ Exit
  BY <1>7 DEF StepFails, ScriptEnds, Exit, ReadInv
<1>8. CASE UNCHANGED vars
  BY <1>8 DEF vars, ReadInv, cmd, CanLoadAll
<1> QED
  BY <1>1, <1>2, <1>3, <1>4, <1>5, <1>6, <1>7, <1>8 DEF Next, CommandStep, Terminated

-----------------------------------------------------------------------------
(* The theorems.                                                           *)

LEMMA Stutter == ASSUME IInv, UNCHANGED vars PROVE IInv' /\ UNCHANGED Abstract
  BY DEF IInv, TypeOK, StepInv, vars, Abstract, cmd, Clean, IsStore, In, MayWrite, ForDB, ForVars,
         Copied, Whole, Begun, CanLoadAll, Resting, Steps

\* Every step keeps the invariant and is a step of the atomic commands, or none.
LEMMA NextStep ==
    ASSUME IInv, [Next]_vars
    PROVE  IInv' /\ (Atomic!Next \/ UNCHANGED Abstract)
<1>1. CASE Begin \/ Truncate \/ LoadCerts \/ SignImage
  BY <1>1, StepBegin, StepTruncate, StepLoadCerts, StepSignImage
<1>2. CASE TestDir \/ RemoveDir \/ Fill \/ SetSections \/ MakeVars \/ AppendCpios
  BY <1>2, StepTestDir, StepRemoveDir, StepFill, StepSetSections, StepMakeVars, StepAppendCpios
  DEF Atomic!Next
<1>3. CASE StepFails \/ ScriptEnds \/ Exit
  BY <1>3, StepStepFails, StepScriptEnds, StepExit DEF Atomic!Next
<1>4. CASE UNCHANGED vars
  BY <1>4, Stutter
<1> QED
  BY <1>1, <1>2, <1>3, <1>4 DEF Next, CommandStep, Terminated

\* The invariant holds of every reachable state, whatever the scripts.
THEOREM Invariance == Spec => []IInv
<1>1. IInv /\ [Next]_vars => IInv'
  BY NextStep
<1> QED
  BY <1>1, InitIInv, PTL DEF Spec

\* A script never runs past its end, and what sign-efi has signed is kept only
\* until it is written.
THEOREM TypeCorrect == Spec => []TypeOK
<1>1. IInv => TypeOK
  BY DEF IInv
<1> QED
  BY <1>1, Invariance, PTL

\* No step of any command of any script touches a file other than the one that
\* the command writes and the temporary one, which is gone when it ends, nor to
\* the file it writes before it is truncated.
THEOREM OthersUntouched == Spec => []OthersAreUntouched
<1>1. IInv => OthersAreUntouched
  <2> SUFFICES ASSUME IInv PROVE OthersAreUntouched
    OBVIOUS
  <2>1. step \in Resting => files = before
    BY DEF IInv, StepInv
  <2>2. In(before, "tmp") = {}
    BY DEF IInv, Clean
  <2>3. step \notin Resting => AlikeOff({Target(cmd), Tmp}, files, before)
    BY FilesAlike DEF IInv, StepInv, Resting
  <2>4. step \notin Resting /\ Written = {} => AlikeOff({Tmp}, files, before)
    BY TargetAlike
  <2>5. Written = {} \/ Written = {Target(cmd)}
    BY DEF Written
  <2>6. step \notin Resting => AlikeOff(Written \cup {Tmp}, files, before)
    BY <2>3, <2>4, <2>5
  <2> QED
    BY <2>1, <2>2, <2>6 DEF OthersAreUntouched, AlikeOff, Resting
<1> QED
  BY <1>1, Invariance, PTL

\* In place or in pieces, every script of commands does what the same script of
\* atomic commands may do.
THEOREM CommandsAtomic == Spec => CommandsAreAtomic
<1>1. Init => Atomic!Init
  BY DEF Init, Atomic!Init
<1>2. IInv /\ [Next]_vars => [Atomic!Next]_Atomic!vars
  BY NextStep DEF Atomic!vars, Abstract
<1> QED
  BY <1>1, <1>2, Invariance, PTL DEF Spec, CommandsAreAtomic, Atomic!Spec

\* A command that succeeds has found all that it reads where it was when it began,
\* whatever it has written in between.
THEOREM SuccessFound == Spec => SuccessFindsItsInput
<1>1. Init => ReadInv
  BY DEF Init, ReadInv
<1>2. IInv /\ ReadInv /\ [Next]_vars => ReadInv' /\ [line' # line => Finds(cmd, before)]_vars
  BY NextFinds
<1>3. IInv /\ [Next]_vars => IInv'
  BY NextStep
<1> QED
  BY <1>1, <1>2, <1>3, InitIInv, PTL DEF Spec, SuccessFindsItsInput
=============================================================================
