----------------------------- MODULE MCSociBoot -----------------------------
(* Small instances of SociBoot: boots that differ in what the hooks test.   *)
EXTENDS SociBoot, TLC

MCUnsafeKeys == {"md-path"}

Arg(k, v) == [key |-> k, val |-> v]
Soci(args) == <<[kind |-> "soci", args |-> args]>>
Flag == [kind |-> "flag", args |-> << >>]

Livecd   == Soci(<<Arg("name", "livecd"), Arg("dev", "vda"), Arg("repo", "local")>>)
Provision == Soci(<<Arg("name", "provision"), Arg("dev", "vda"), Arg("repo", "local"),
                    Arg("path", "alt")>>)
MosbootC == Soci(<<Arg("name", "mosboot")>>)
MosbootD == Soci(<<Arg("name", "mosboot"), Arg("dev", "vda"), Arg("path", Empty)>>)
LocalNoDev == Soci(<<Arg("name", "livecd"), Arg("repo", "local")>>)
Remote   == Soci(<<Arg("name", "livecd"), Arg("repo", "zothub.io")>>)
NoName   == Soci(<<Arg("md-path", "md"), Arg("name", "livecd")>>)
NotSoci  == <<Flag, [kind |-> "other", args |-> << >>]>>

Both(a, b) == ("oci" :> a) @@ ("alt" :> b)

Box(cmdline, paths, squash, action, inRoot) ==
    [cmdline |-> cmdline, deps |-> TRUE, paths |-> paths, squash |-> squash,
     action |-> action, inRoot |-> inRoot]

\* All boots of interest: which registry and path, what the device holds, what
\* the image asks for.
AllMachines ==
    {Box(c, p, s, a, FALSE) :
        c \in {Livecd, Provision}, p \in {Both("dir", "dir"), Both("absent", "dir"), Both("dir", "file")},
        s \in {"match"}, a \in {"livecd", "provision"}}
    \cup {Box(MosbootD, Both("dir", "absent"), s, "none", r) :
        s \in {"none", "other"}, r \in BOOLEAN}
    \cup {Box(MosbootC, Both("absent", "absent"), "none", a, FALSE) : a \in {"install", "none"}}
    \cup {Box(c, Both("dir", "dir"), "match", "install", FALSE) : c \in {Remote, LocalNoDev, NoName, NotSoci}}
    \cup {[Box(Remote, Both("dir", "dir"), "match", "none", FALSE) EXCEPT !.deps = FALSE]}

\* One boot of each flow, for the statements of the source.
LateMachines ==
    {Box(Livecd, Both("dir", "dir"), "match", "livecd", FALSE),
     Box(Provision, Both("dir", "dir"), "none", "provision", FALSE),
     Box(MosbootD, Both("dir", "absent"), "other", "none", TRUE),
     Box(NotSoci, Both("absent", "absent"), "none", "none", FALSE)}
=============================================================================
