------------------------------ MODULE MCBkcust ------------------------------
(* Scripts of one and two commands, that write anew and in place, succeed    *)
(* and fail.                                                                 *)
EXTENDS Bkcust

F(name) == Path("here", name)
A == F("a.efi")
B == F("b.efi")
Vars == F("vars.fd")
NewVars == F("new-vars.fd")
Img == F("initrd.img")
One == CertOf("one")
OneKey == KeyOf("one")

\* Gzipped archives, one named as such and one not, and the name on what is not.
MCGzNames == {"mc.cpio.gz", "plain.gz"}
Gzipped   == {"mc.cpio.gz", "packed"}

\* A keyset of two, the second without a private key; archives, and two
\* directories of which one is empty.
Store == [p \in {A, F("stub.efi"), Vars, F("vmlinuz"), F("x.cpio"), F("y.cpio"), F("mc.cpio"),
                 One, OneKey, GuidOf("one"), CertOf("two"), Path("extra", "file")}
                \cup {F(n) : n \in MCGzNames \cup Gzipped} |->
             LET content == Plain(IF p.name \in {"cert.pem", "privkey.pem"} THEN p.dir ELSE p.name)
             IN  IF p.name \in Gzipped THEN Gz(content) ELSE content]

DirOne == <<Dir("one")>>

Binaries ==
    {SetDB(A, NoPath, DirOne), SetDB(A, B, <<Dir("one"), Dir("two")>>), SetDB(A, A, DirOne),
     SetDB(A, B, <<Pair("guid", One)>>), SetDB(B, NoPath, <<Dir("none")>>), SetDB(B, A, << >>),
     SignEfi(A, NoPath, One, OneKey), SignEfi(A, B, CertOf("two"), OneKey),
     SignEfi(B, NoPath, One, KeyOf("two")), SignEfi(B, A, One, OneKey),
     Smoosh(B, F("stub.efi"), F("vmlinuz"), Img, "quiet"), Smoosh(A, A, F("vmlinuz"), F("x.cpio"), Empty),
     Smoosh(A, B, F("vmlinuz"), F("x.cpio"), "quiet"),
     CuSmoosh(B, F("stub.efi"), F("vmlinuz"), Img, "quiet"), CuSmoosh(A, A, F("vmlinuz"), F("x.cpio"), Empty)}

Firmwares ==
    {SecureBoot(Vars, NoPath, DirOne, DirOne, DirOne, DirOne),
     SecureBoot(Vars, NewVars, DirOne, << >>, <<Dir("one"), Dir("two")>>, << >>),
     SecureBoot(NewVars, NoPath, <<Dir("two")>>, << >>, DirOne, << >>),
     SecureBoot(Vars, NewVars, << >>, DirOne, DirOne, << >>),
     FwVars(Vars, NewVars, DirOne, << >>, DirOne, << >>), FwVars(Vars, Vars, << >>, << >>, DirOne, << >>),
     FwVars(NewVars, Vars, << >>, << >>, <<Dir("two")>>, << >>)}

Initrds ==
    {InitrdJoin(Img, F("mc.cpio"), <<F("x.cpio"), Path("extra", Empty)>>),
     InitrdJoin(Img, NoPath, <<F("x.cpio"), F("y.cpio")>>), InitrdJoin(Img, NoPath, <<F("x.cpio")>>),
     InitrdJoin(Img, F("none"), <<F("x.cpio"), F("y.cpio")>>),
     InitrdJoin(Img, F("mc.cpio.gz"), <<F("x.cpio"), F("packed")>>),
     InitrdJoin(Img, F("mc.cpio"), <<F("mc.cpio.gz"), F("plain.gz")>>),
     BkInitrdJoin(Img, F("mc.cpio"), <<F("x.cpio")>>), BkInitrdJoin(Img, F("packed"), <<F("x.cpio")>>),
     BkInitrdJoin(Img, NoPath, <<F("x.cpio")>>), BkInitrdJoin(Img, F("none"), << >>),
     CreateCpio("extra", Img), CreateCpio("none", Img), Rm("extra"), TestDirs({"here", "extra"}), Tar("one", F("one.tar")), Cp(A, B)}

All == Binaries \cup Firmwares \cup Initrds

Job(script) == [script |-> script, files |-> Store, trap |-> {"extra"}]

MCJobs == {Job(<<c>>) : c \in All} \cup {Job(<<c, d>>) : c, d \in All}
=============================================================================
