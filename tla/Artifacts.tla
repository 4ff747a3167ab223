----------------------------- MODULE Artifacts -----------------------------
(***************************************************************************)
(* The files that bkcust and custbk work on.  A store is a function from   *)
(* paths to files.  A file is what it was first made from, the parts that  *)
(* were put into it (sections of an EFI binary, variables of a firmware,   *)
(* archives of an initrd) and the signatures appended to it.               *)
(***************************************************************************)
EXTENDS Naturals, Sequences

CONSTANT GzNames     \* the file names that end in .gz

Empty == "empty"     \* the empty string

Path(dir, name) == [dir |-> dir, name |-> name]
NoPath == Path(Empty, Empty)

File(base, parts) == [base |-> base, parts |-> parts, sigs |-> {}]
Plain(base)       == File(base, [n \in {} |-> Empty])
Blank             == Plain("nothing")     \* empty, or cut off in the middle

\* objcopy and virt-fw-vars write a new file: it has no signatures.
SetParts(file, new) ==
    File(file.base, [n \in DOMAIN file.parts \cup DOMAIN new |->
                        IF n \in DOMAIN new THEN new[n] ELSE file.parts[n]])

\* A key is known by the base of its certificate.
Signature(file, cert, key) ==
    [cert |-> cert, key |-> key, base |-> file.base, parts |-> file.parts]
Sign(file, cert, key) == [file EXCEPT !.sigs = @ \cup {Signature(file, cert, key)}]

\* What a verifier that trusts cert accepts: a signature by the certificate's
\* own key over what is in the file now.
Verifies(file, cert) == Signature(file, cert, cert) \in file.sigs

IsStore(store) == store = [p \in DOMAIN store |-> store[p]]

Put(store, path, file) ==
    [p \in DOMAIN store \cup {path} |-> IF p = path THEN file ELSE store[p]]

Drop(store, path) == [p \in DOMAIN store \ {path} |-> store[p]]

In(store, dir)       == {p \in DOMAIN store : p.dir = dir}
Without(store, dirs) == [p \in {q \in DOMAIN store : q.dir \notin dirs} |-> store[p]]

\* A directory as one file: an archive of what is in it.
Archive(base, store, dir) == File(base, [p \in In(store, dir) |-> store[p]])

\* A gzipped file has its content for its only part.
Gz(file)      == File("gzip", [n \in {"content"} |-> file])
IsGz(file)    == file.base = "gzip"
Content(file) == IF IsGz(file) THEN file.parts["content"] ELSE file

-----------------------------------------------------------------------------
(* Key directories.                                                        *)

CertOf(dir) == Path(dir, "cert.pem")
KeyOf(dir)  == Path(dir, "privkey.pem")
GuidOf(dir) == Path(dir, "guid")

IsReadable(store, path) == path \in DOMAIN store /\ store[path] # Blank

\* A certificate to load is a key directory, or a guid and a file.
Dir(dir)        == [dir |-> dir, guid |-> Empty, pem |-> NoPath]
Pair(guid, pem) == [dir |-> Empty, guid |-> guid, pem |-> pem]

\* LoadSignatureDataDir leaves the owner zero.  Of a pair, the file to read is
\* never set: reading the empty path fails.
CanLoad(store, args) ==
    \A i \in 1 .. Len(args) : args[i].dir # Empty /\ IsReadable(store, CertOf(args[i].dir))
Load(store, args) ==
    [i \in 1 .. Len(args) |-> [owner |-> "zero", cert |-> store[CertOf(args[i].dir)].base]]

\* get_guid_cert of custbk reads the guid; the certificate has to be there, for
\* virt-fw-vars to read.
HasGuidCert(store, args) ==
    \A i \in 1 .. Len(args) :
        CertOf(args[i].dir) \in DOMAIN store /\ IsReadable(store, GuidOf(args[i].dir))
LoadOwned(store, args) ==
    [i \in 1 .. Len(args) |-> [owner |-> store[GuidOf(args[i].dir)].base,
                              cert  |-> store[CertOf(args[i].dir)].base]]

\* What set-db puts into a shim, smoosh into a stub, secure-boot and custbk
\* virt-fw-vars into the variables of a firmware.
VendorDB(store, c) == [n \in {".vendor_cert"} |-> Load(store, c.certs)]
Sections(store, c) ==
    [n \in {".cmdline", ".sbat", ".linux", ".initrd"} |->
        CASE n = ".cmdline" -> c.cmdline
          [] n = ".sbat"    -> "sbat"
          [] n = ".linux"   -> store[c.kernel]
          [] n = ".initrd"  -> store[c.initrd]]
Lists(c) == {c.pk, c.kek, c.db, c.mok}
Variables(store, c) ==
    LET loaded(args) == IF c.op = "fw-vars" THEN LoadOwned(store, args) ELSE Load(store, args)
    IN  [n \in {"PK", "KEK", "db", "MOK"} |->
            loaded(CASE n = "PK"  -> c.pk  [] n = "KEK" -> c.kek
                     [] n = "db"  -> c.db  [] n = "MOK" -> c.mok)]

\* An initrd: what is not compressed at its start, and what follows.
Initrd(early, rest) ==
    File("initrd", [n \in {"early", "rest"} |-> IF n = "early" THEN early ELSE rest])

\* Appended to: whatever else is there comes first.
Extended(file, cpios) ==
    IF file.base = "initrd" THEN Initrd(file.parts["early"], file.parts["rest"] \o cpios)
                            ELSE Initrd(<<file>>, cpios)

-----------------------------------------------------------------------------
(* Commands.                                                               *)

Cp(in, out)                  == [op |-> "cp", in |-> in, out |-> out]
TestDirs(dirs)               == [op |-> "test", dirs |-> dirs, in |-> NoPath, out |-> NoPath]
Rm(dir)                      == [op |-> "rm", dir |-> dir, in |-> NoPath, out |-> NoPath]
Tar(dir, out)                == [op |-> "tar", dir |-> dir, in |-> NoPath, out |-> out]
SetDB(in, out, certs)        == [op |-> "set-db", in |-> in, out |-> out, certs |-> certs]
SignEfi(in, out, cert, key)  == [op |-> "sign-efi", in |-> in, out |-> out,
                                 cert |-> cert, key |-> key]
Smoosh(out, stub, kernel, initrd, cmdline) ==
    [op |-> "smoosh", in |-> stub, out |-> out, kernel |-> kernel, initrd |-> initrd,
     cmdline |-> cmdline]
SecureBoot(in, out, pk, kek, db, mok) ==
    [op |-> "secure-boot", in |-> in, out |-> out, pk |-> pk, kek |-> kek, db |-> db, mok |-> mok]
\* custbk smoosh and virt-fw-vars: one tool reads the input and writes the output
CuSmoosh(out, stub, kernel, initrd, cmdline) ==
    [op |-> "cu-smoosh", in |-> stub, out |-> out, kernel |-> kernel, initrd |-> initrd,
     cmdline |-> cmdline]
FwVars(in, out, pk, kek, db, mok) ==
    [op |-> "fw-vars", in |-> in, out |-> out, pk |-> pk, kek |-> kek, db |-> db, mok |-> mok]
\* create-cpio, with an absolute path for its output
CreateCpio(dir, out) == [op |-> "create-cpio", dir |-> dir, in |-> NoPath, out |-> out]
\* cpios: files and, given as a path without a name, directories
InitrdJoin(out, microcode, cpios) ==
    [op |-> "initrd-join", in |-> microcode, out |-> out, cpios |-> cpios]
\* bkcust initrd join: the archives after the output are not looked at
BkInitrdJoin(out, microcode, cpios) ==
    [op |-> "bk-join", in |-> microcode, out |-> out, cpios |-> cpios]

IsDirCpio(p) == p.name = Empty
CanRead(store, p) ==
    IF IsDirCpio(p) THEN In(store, p.dir) # {}
    ELSE p \in DOMAIN store /\ (p.name \in GzNames => IsGz(store[p]))
Cpio(store, p) ==
    IF IsDirCpio(p) THEN Archive("cpio", store, p.dir)
    ELSE IF p.name \in GzNames THEN store[p].parts["content"] ELSE store[p]
Cpios(store, ps) == [i \in 1 .. Len(ps) |-> Cpio(store, ps[i])]

\* A plausible bug: set-db does not look at its --output.
TargetIsInput(c) == IF c.op = "set-db" \/ c.out = NoPath THEN c.in ELSE c.out

\* What an initrd starts with: nothing, or its microcode, uncompressed.  bkcust
\* goes by what the file is, custbk by its name.
Early(c, s) ==
    Initrd(IF c.in = NoPath THEN << >>
           ELSE IF c.op = "bk-join" THEN <<Content(s[c.in])>> ELSE <<Cpio(s, c.in)>>, << >>)
HasEarly(c, s) ==
    c.in = NoPath \/ IF c.op = "bk-join" THEN c.in \in DOMAIN s ELSE CanRead(s, c.in)

\* The file that a command writes: without an output, its input.
Target(c) == IF c.out = NoPath THEN c.in ELSE c.out

\* What a command makes of the file it writes.
Meaning(c, s) ==
    CASE c.op = "cp"         -> s[c.in]
      [] c.op = "set-db"     -> SetParts(s[c.in], VendorDB(s, c))
      [] c.op = "sign-efi"   -> Sign(s[c.in], s[c.cert].base, s[c.key].base)
      [] c.op \in {"smoosh", "cu-smoosh"}    -> SetParts(s[c.in], Sections(s, c))
      [] c.op \in {"secure-boot", "fw-vars"} -> SetParts(s[c.in], Variables(s, c))
      [] c.op = "create-cpio" -> Gz(Archive("cpio", s, c.dir))
      [] c.op = "tar"        -> Archive("tar", s, c.dir)
      [] c.op = "initrd-join" ->
            \* without microcode it appends
            Extended(IF c.in = NoPath /\ c.out \in DOMAIN s THEN s[c.out] ELSE Early(c, s),
                     Cpios(s, c.cpios))
      [] c.op = "bk-join"    -> Early(c, s)

Effect(c, s) ==
    CASE c.op = "test" -> s
      [] c.op = "rm"   -> Without(s, {c.dir})
      [] OTHER         -> Put(s, Target(c), Meaning(c, s))
=============================================================================
