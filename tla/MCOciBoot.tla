----------------------------- MODULE MCOciBoot -----------------------------
(* Small instances of OciBoot: command lines that differ in what the steps   *)
(* test, on one host.                                                        *)
EXTENDS BootMedia

\* A flat layout with two layers and the kit, and a layout written by zot.
Images == {Place(<<"flat">>, <<"a", "1">>), Place(<<"flat">>, <<"b">>), Place(<<"flat">>, <<"kit">>),
           Place(<<"zot", "a">>, <<"1">>), Place(<<"zot", "live-boot">>, <<"latest">>)}
A    == <<<<"flat">>, "a", "1">>
B    == <<<<"flat">>, "b">>
NoName == <<<<"flat">>, Empty, "b">>
ZotA == <<<<"zot">>, "a", "1">>
Live == <<<<"zot">>, "live-boot", "latest">>
Gone == <<<<"zot">>, "c", "1">>
Kit  == <<<<"flat">>, "kit">>

Entries == {"shim.efi", "kernel.efi", "modules.squashfs"}

\* Layers of a kit, with files and whiteouts at its top or under export.
Top(files)    == {Place(<<"bootkit">>, <<f>>) : f \in files}
Export(files) == {Place(<<"export", "bootkit">>, <<f>>) : f \in files}
Layer(kind, adds, dels) == [kind |-> kind, adds |-> adds, dels |-> dels]
Kits(kind) ==
    LET base == Layer(kind, Top(Entries), {})
    IN  {<<base>>, <<Layer(kind, Export(Entries), {})>>,
         <<Layer(kind, Top(Entries) \cup Export({"shim.efi"}), {}),
           Layer(kind, Top({"kernel.efi"}), Export({"shim.efi"}))>>,
         <<base, Layer(kind, Top({"kernel.efi"}), Top({"shim.efi"}))>>,
         <<base, Layer(kind, {}, Top({"shim.efi", "modules.squashfs"})),
           Layer(kind, Top({"modules.squashfs"}), {})>>}
Mixed == {<<Layer("tar", Top(Entries), {}), Layer("squash", {}, {})>>,
          <<Layer("squash", Top(Entries), {}), Layer("tar", {}, {})>>}

Base == [cdrom |-> FALSE, mode |-> "efi-auto", kitIsRef |-> FALSE, kitRef |-> Kit,
         kit |-> <<Layer("tar", Top(Entries), {})>>, root |-> FALSE, idmaps |-> {"usable"},
         programs |-> {}, boot |-> <<A>>, layers |-> << >>, repos |-> << >>, cmdline |-> << >>,
         inserts |-> << >>, images |-> Images, files |-> {"x", "y", "zotrepo"}]

To(src, dir, name) == [src |-> src, dest |-> Place(dir, <<name>>)]

\* How the kit is extracted, and what it holds.
KitRequests ==
    {[Base EXCEPT !.kitIsRef = TRUE, !.kit = k, !.root = r, !.programs = t] :
        k \in Kits("squash") \cup Mixed, r \in BOOLEAN, t \in SUBSET {"squashtool"}}
    \cup {[Base EXCEPT !.kitIsRef = TRUE, !.kit = k, !.root = r, !.idmaps = m] :
        k \in Kits("tar"), r \in BOOLEAN, m \in {{}, {"usable"}, {"usable", "unusable"}}}
    \cup {[Base EXCEPT !.kitIsRef = TRUE, !.cdrom = TRUE, !.kitRef = k] :
        k \in {Kit, B \o <<"1">>}}
    \cup {[Base EXCEPT !.kitIsRef = TRUE, !.kit = << >>]}
    \cup {[Base EXCEPT !.cdrom = c, !.mode = m, !.kit = <<Layer("tar", Top(k), {})>>] :
        c \in BOOLEAN, m \in Modes \cup {"bios"},
        k \in {Entries, Entries \ {"shim.efi"}, Entries \ {"modules.squashfs"}, {}}}

\* What is collected: overlapping layers and inserts, and ones that fail.
TreeRequests ==
    {[Base EXCEPT !.cdrom = c, !.boot = b, !.layers = l] :
        c \in BOOLEAN, b \in {<< >>, <<ZotA>>, <<<<<<"flat">>>>>>},
        l \in {<< >>, <<A, B>>, <<A, ZotA>>, <<A, Live>>, <<Gone, A>>, <<B, <<<<"flat">>>>>>, <<ZotA, NoName>>}}
    \cup {[Base EXCEPT !.layers = <<A>>, !.inserts = <<To("x", <<"oci">>, "z")>>]}
    \cup {[Base EXCEPT !.cdrom = c, !.inserts = i] :
        c \in BOOLEAN,
        i \in {<<To("x", << >>, "x"), To("y", <<"krd">>, "y")>>,
               <<To("x", <<"krd">>, "z"), To("y", <<"krd">>, "z")>>,
               <<To("x", <<"krd">>, "modules.squashfs")>>,
               <<To("x", << >>, "x"), To("y", << >>, "y"), To("x", <<"krd">>, "z")>>,
               <<To("x", EFIBootDir, "kernel.efi")>>, <<To("x", << >>, "kernel.efi")>>,
               <<To("x", <<"loader", "images">>, "efi-esp.img")>>,
               <<To("nofile", << >>, "x")>>}}

\* Only a directory with brackets in its name can be synchronised.
RepoRequests == {[Base EXCEPT !.repos = <<"zotrepo">>, !.files = Base.files \cup f] :
                     f \in {{}, {"[zotrepo]"}}}

\* Words of the user's own, before or after which the boot layer's root= comes.
OtherRoot == [kind |-> "soci", args |-> <<[key |-> "name", val |-> "mosboot"],
                                          [key |-> "repo", val |-> "local"]>>]
BootRequests == {[Base EXCEPT !.cdrom = c, !.boot = b, !.cmdline = w] :
                     c \in BOOLEAN, b \in {<< >>, <<Live>>},
                     w \in {<<[kind |-> "flag", args |-> << >>]>>, <<OtherRoot>>}}

AllRequests == KitRequests \cup TreeRequests \cup RepoRequests \cup BootRequests

\* What the statements of the source are about.
KernelRequests == {[Base EXCEPT !.cdrom = c, !.mode = "efi-kernel"] : c \in BOOLEAN}
=============================================================================
