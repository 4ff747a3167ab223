------------------------------- MODULE Bkcust -------------------------------
(***************************************************************************)
(* The commands of bkcust (go/cmd/bkcust, go/pkg) that make the artifacts  *)
(* of a customized bootkit, and initrd-join of tools/custbk, as scripts    *)
(* run them: one after the other, up to the first that fails.              *)
(*                                                                         *)
(* No command writes its output at once.  set-db and smoosh copy a binary  *)
(* and then have objcopy change the copy; a copy truncates its target      *)
(* first; initrd-join appends to what it wrote.  step is what the command  *)
(* of the line does next, and every step may fail.                         *)
(***************************************************************************)
EXTENDS Artifacts

CONSTANTS Jobs      \* scripts, each with the files it finds
VARIABLES
    job,
    line,      \* line of the script
    step,
    files,     \* the store
    buffer,    \* sign-efi: the signed binary, before it is written
    before,    \* history: the store as it was when the last command ended
    result     \* of the script: "none" yet, "ok" or "error"
vars == <<job, line, step, files, buffer, before, result>>

\* script: a sequence of commands;  files: the store at its start;  trap: the
\* directories that its exit removes
cmd == job.script[line]

Tmp == Path("tmp", "doVirtFW")    \* the only temporary file that outlives a step

\* No command writes to a file that it reads later on.  Writing in place is
\* allowed: the input may be the output.
Reads(c) ==
    CASE c.op \in {"smoosh", "cu-smoosh"} -> {c.kernel, c.initrd}
      [] c.op \in {"initrd-join", "bk-join"} ->
            {c.in} \cup {c.cpios[i] : i \in 1 .. Len(c.cpios)}
      [] c.op = "set-db"  -> {CertOf(c.certs[i].dir) : i \in 1 .. Len(c.certs)}
      [] OTHER            -> {}
ReadDirs(c) ==
    CASE c.op \in {"tar", "create-cpio"} -> {c.dir}
      [] c.op = "initrd-join" ->
            {p.dir : p \in {q \in {c.in} \cup {c.cpios[i] : i \in 1 .. Len(c.cpios)} : IsDirCpio(q)}}
      [] OTHER        -> {}
Ops == {"cp", "test", "rm", "tar", "set-db", "sign-efi", "smoosh", "secure-boot", "initrd-join",
        "bk-join", "cu-smoosh", "fw-vars", "create-cpio"}
IsSane(c) ==
    /\ c.op \in Ops
    /\ c.op \in {"cu-smoosh", "fw-vars"} => c.out # NoPath
    /\ Target(c) \notin Reads(c) /\ Target(c).dir \notin ReadDirs(c) \cup {"tmp"}
ASSUME JobsAssumption ==
    \A j \in Jobs : /\ Len(j.script) \in Nat
                    /\ \A i \in 1 .. Len(j.script) : IsSane(j.script[i])
                    /\ IsStore(j.files) /\ In(j.files, "tmp") = {}

-----------------------------------------------------------------------------
Goto(s) == step' = s /\ UNCHANGED <<job, line, before, result>>

\* A plausible bug: what was signed stays around.
ReturnsWithBuffer(store) ==
    /\ files' = Without(store, {"tmp"}) /\ before' = files'
    /\ step' = "begin" /\ line' = line + 1
    /\ UNCHANGED <<job, result, buffer>>

\* The command returns: deferred removals, then the next line.
Returns(store) ==
    /\ files' = Without(store, {"tmp"}) /\ before' = files'
    /\ step' = "begin" /\ line' = line + 1
    /\ buffer' = Blank
    /\ UNCHANGED <<job, result>>

\* The steps of a command, in the order of the code.
FirstStep(c) ==
    CASE c.op = "test" -> "test"
      [] c.op = "rm"   -> "rm"
      [] c.op = "sign-efi"    -> "sign"
      [] c.op \in {"secure-boot", "fw-vars"} -> "certs"
      [] c.op = "cu-smoosh"   -> "objcopy"
      [] c.op = "set-db" /\ c.out = NoPath      -> "certs"
      [] c.op = "initrd-join" /\ c.in = NoPath  -> "append"
      [] OTHER         -> "truncate"

AfterFill(c) ==
    CASE c.op = "set-db" -> "certs"
      [] c.op = "smoosh" -> "objcopy"
      [] c.op = "initrd-join" -> "append"
      [] OTHER -> "end"

Init ==
    /\ job \in Jobs
    /\ line = 1 /\ step = "begin" /\ buffer = Blank /\ result = "none"
    /\ files = job.files /\ before = files

-----------------------------------------------------------------------------
\* set-db wants its shim to exist, custbk smoosh all that it reads, create-cpio
\* its directory; cp wants two files, initrd-join more than two arguments, bkcust
\* initrd join two.
AcceptsArgs(c) ==
    /\ c.op = "cp" => c.in # Target(c)
    /\ c.op = "set-db" => c.in \in DOMAIN files
    /\ c.op = "cu-smoosh" => {c.in, c.kernel, c.initrd} \subseteq DOMAIN files
    /\ c.op = "create-cpio" => In(files, c.dir) # {}
    /\ c.op = "initrd-join" => 1 + Len(c.cpios) > 2
    /\ c.op = "bk-join" => 1 + Len(c.cpios) >= 2

\* The arguments are checked; secure-boot without an output makes a temporary
\* file.
Begin ==
    /\ step = "begin" /\ line <= Len(job.script)
    /\ AcceptsArgs(cmd)
    /\ files' = IF cmd.op = "secure-boot" /\ cmd.out = NoPath THEN Put(files, Tmp, Blank) ELSE files
    /\ Goto(FirstStep(cmd))
    /\ UNCHANGED buffer

TestDir ==
    /\ step = "test"
    /\ \A d \in cmd.dirs : In(files, d) # {}
    /\ Returns(files)

RemoveDir ==
    /\ step = "rm"
    /\ Returns(Without(files, {cmd.dir}))

\* What is read while the target is written.
Source == IF cmd.op = "secure-boot" THEN Tmp ELSE cmd.in

\* CopyFileContents opens its source first, os.WriteFile has its bytes: then the
\* target is truncated.  A shell opens the target before it runs the command.
Truncate ==
    /\ step = "truncate"
    /\ cmd.op \in {"cp", "set-db", "smoosh", "secure-boot"} => Source \in DOMAIN files
    /\ files' = Put(files, Target(cmd), Blank)
    /\ Goto("fill")
    /\ UNCHANGED buffer

\* A plausible bug: the error of io.Copy is dropped, and what follows has an
\* empty file.
FillUnchecked ==
    /\ step = "fill"
    /\ UNCHANGED files
    /\ IF AfterFill(cmd) = "end"
         THEN Returns(files) ELSE Goto(AfterFill(cmd)) /\ UNCHANGED buffer

\* The bytes follow; the microcode of an initrd comes first, uncompressed.
Fill ==
    /\ step = "fill"
    /\ cmd.op \in {"initrd-join", "bk-join"} => HasEarly(cmd, files)
    /\ LET bytes == CASE cmd.op = "sign-efi" -> buffer
                      [] cmd.op = "tar" -> Archive("tar", files, cmd.dir)
                      [] cmd.op = "create-cpio" -> Gz(Archive("cpio", files, cmd.dir))
                      [] cmd.op \in {"initrd-join", "bk-join"} -> Early(cmd, files)
                      [] OTHER -> files[Source]
           filled == Put(files, Target(cmd), bytes)
       IN  IF AfterFill(cmd) = "end"
             THEN Returns(filled)
             ELSE files' = filled /\ Goto(AfterFill(cmd)) /\ UNCHANGED buffer

\* Every certificate is read before anything is made of one.  Without a
\* platform key, the empty one is no certificate.
LoadCerts ==
    /\ step = "certs"
    /\ \/ /\ cmd.op = "set-db"
          /\ CanLoad(files, cmd.certs) /\ Goto("objcopy")
       \/ /\ cmd.op = "secure-boot"
          /\ Len(cmd.pk) = 1
          /\ \A args \in Lists(cmd) : CanLoad(files, args)
          /\ Goto("vars")
       \/ /\ cmd.op = "fw-vars"
          /\ \A args \in Lists(cmd) : HasGuidCert(files, args)
          /\ Goto("vars")
    /\ UNCHANGED <<files, buffer>>

\* A plausible bug: nobody looks at the status of objcopy.
SetSectionsUnchecked ==
    /\ step = "objcopy"
    /\ Returns(Put(files, Target(cmd), Blank))

\* obj.SetSections: objcopy changes the binary in place, if it is one; custbk's
\* has an output of its own, and does not remove a section of the same name.
Binary == IF cmd.op = "cu-smoosh" THEN cmd.in ELSE Target(cmd)
SetSections ==
    /\ step = "objcopy"
    /\ IsReadable(files, Binary)
    /\ cmd.op # "set-db" => {cmd.kernel, cmd.initrd} \subseteq DOMAIN files
    /\ LET new == IF cmd.op = "set-db" THEN VendorDB(files, cmd) ELSE Sections(files, cmd)
       IN  /\ cmd.op = "cu-smoosh" => DOMAIN new \cap DOMAIN files[Binary].parts = {}
           /\ Returns(Put(files, Target(cmd), SetParts(files[Binary], new)))

\* A plausible bug: without an output, virt-fw-vars writes over its input.
MakeVarsInPlace ==
    /\ step = "vars" /\ IsReadable(files, cmd.in)
    /\ files' = Put(files, Target(cmd), SetParts(files[cmd.in], Variables(files, cmd)))
    /\ Goto("truncate") /\ UNCHANGED buffer

\* OVMFPopulateSecureBoot, and custbk: virt-fw-vars reads one file and writes
\* another.
MakeVars ==
    /\ step = "vars"
    /\ IsReadable(files, cmd.in)
    /\ cmd.op = "fw-vars" =>
          \A args \in Lists(cmd) : \A i \in 1 .. Len(args) : IsReadable(files, CertOf(args[i].dir))
    /\ LET made == SetParts(files[cmd.in], Variables(files, cmd))
       IN  IF cmd.out = NoPath
             THEN files' = Put(files, Tmp, made) /\ Goto("truncate") /\ UNCHANGED buffer
             ELSE Returns(Put(files, cmd.out, made))

\* doSignEfi up to the write: nothing asks whether key and certificate match.
SignImage ==
    /\ step = "sign"
    /\ \A p \in {cmd.cert, cmd.key, cmd.in} : IsReadable(files, p)
    /\ buffer' = Sign(files[cmd.in], files[cmd.cert].base, files[cmd.key].base)
    /\ Goto("truncate")
    /\ UNCHANGED files

\* A plausible bug: > instead of >>.
AppendCpiosAfresh ==
    /\ step = "append"
    /\ \A i \in 1 .. Len(cmd.cpios) : CanRead(files, cmd.cpios[i])
    /\ Returns(Put(files, cmd.out, Initrd(<< >>, Cpios(files, cmd.cpios))))

\* The rest of initrd_join: all archives, compressed as one, are appended.
AppendCpios ==
    /\ step = "append"
    /\ \A i \in 1 .. Len(cmd.cpios) : CanRead(files, cmd.cpios[i])
    /\ Returns(Put(files, cmd.out,
                   Extended(IF cmd.out \in DOMAIN files THEN files[cmd.out]
                            ELSE Initrd(<< >>, << >>), Cpios(files, cmd.cpios))))

\* A plausible bug: a shell without -e goes on.
StepFailsGoesOn ==
    /\ step \notin {"exit", "done"} /\ line <= Len(job.script)
    /\ files' = Without(files, {"tmp"}) /\ before' = files'
    /\ step' = "begin" /\ line' = line + 1 /\ buffer' = Blank
    /\ UNCHANGED <<job, result>>

\* A step fails, on its own or because it cannot go on.  What writes to a file
\* may have begun to; the deferred removals are made.  create-cpio removes what
\* it has written.
StepFails ==
    /\ step \notin {"exit", "done"} /\ line <= Len(job.script)
    /\ \/ files' = Without(files, {"tmp"})
       \/ /\ step = "fill" /\ cmd.op = "create-cpio"
          /\ files' = Without(Drop(files, Target(cmd)), {"tmp"})
       \/ /\ step \in {"objcopy", "append"} \/ (step = "vars" /\ cmd.out # NoPath)
          /\ files' = Without(Put(files, Target(cmd), Blank), {"tmp"})
    /\ before' = files'
    /\ step' = "exit" /\ result' = "error" /\ buffer' = Blank
    /\ UNCHANGED <<job, line>>

ScriptEnds ==
    /\ step = "begin" /\ line > Len(job.script)
    /\ step' = "exit" /\ result' = "ok"
    /\ UNCHANGED <<job, line, files, buffer, before>>

\* The trap of the shell.
Exit ==
    /\ step = "exit"
    /\ files' = Without(files, job.trap) /\ before' = files'
    /\ step' = "done"
    /\ UNCHANGED <<job, line, buffer, result>>

Terminated == step = "done" /\ UNCHANGED vars

CommandStep == \/ Begin \/ TestDir \/ RemoveDir \/ Truncate \/ Fill \/ LoadCerts \/ SetSections
               \/ MakeVars \/ SignImage \/ AppendCpios

Next == CommandStep \/ StepFails \/ ScriptEnds \/ Exit \/ Terminated

Spec == Init /\ [][Next]_vars

-----------------------------------------------------------------------------
(* Properties.                                                             *)

Steps == {"begin", "test", "rm", "truncate", "fill", "certs", "objcopy", "vars", "sign", "append",
          "exit", "done"}

\* The type invariant: the script never runs past its end, and a signed binary
\* is only kept until it is written.
TypeOK ==
    /\ job \in Jobs /\ step \in Steps
    /\ line \in 1 .. Len(job.script) + 1
    /\ result \in {"none", "ok", "error"}
    /\ buffer # Blank => step \in {"truncate", "fill"} /\ cmd.op = "sign-efi"

\* In the middle of a command, only the file it writes and the temporary one are
\* not what they were when the command began, and the written one neither before
\* it is truncated: sign-efi signs in memory, and secure-boot makes the variables
\* in the temporary file, so that their input is whole until then.  Between
\* commands all is as the last one left it, and nothing temporary is left.
Written ==
    IF step \in {"sign", "truncate"} \/ (cmd.op \in {"secure-boot", "fw-vars"} /\ step # "fill")
    THEN {} ELSE {Target(cmd)}
OthersAreUntouched ==
    /\ step \in {"begin", "exit", "done"} => files = before
    /\ In(before, "tmp") = {}
    /\ step \notin {"begin", "exit", "done"} =>
          \A p \in DOMAIN files \cup DOMAIN before :
             p \notin Written \cup {Tmp} =>
                p \in DOMAIN files /\ p \in DOMAIN before /\ files[p] = before[p]

\* A command that succeeds has found all that it reads in the store as it was at
\* its start: nothing that it has written itself, and nothing that was not there
\* (custbk and bkcust, whose checks are spread over the steps).
Finds(c, s) ==
    /\ c.op \in {"cp", "sign-efi", "set-db", "smoosh", "cu-smoosh", "secure-boot", "fw-vars"} =>
          c.in \in DOMAIN s
    /\ c.op = "sign-efi" => {c.cert, c.key} \subseteq DOMAIN s
    /\ c.op \in {"smoosh", "cu-smoosh"} => {c.kernel, c.initrd} \subseteq DOMAIN s
    /\ c.op = "set-db" => CanLoad(s, c.certs)
    /\ c.op = "secure-boot" => \A args \in Lists(c) : CanLoad(s, args)
    /\ c.op = "fw-vars" => \A args \in Lists(c) : HasGuidCert(s, args)
    /\ c.op \in {"initrd-join", "bk-join"} => HasEarly(c, s)
    /\ c.op = "initrd-join" => \A i \in 1 .. Len(c.cpios) : CanRead(s, c.cpios[i])
SuccessFindsItsInput == [][line' # line => Finds(cmd, before)]_vars

\* Step by step the commands do what each is to do at once, whatever is written
\* in place or in pieces: a command that succeeds has the effect that its input,
\* as it was at its start, gives it, and one that fails spoils its target only.
Atomic == INSTANCE Commands WITH store <- before, verdict <- result
CommandsAreAtomic == Atomic!Spec

=============================================================================
