------------------------------- MODULE OciRef -------------------------------
(***************************************************************************)
(* References to OCI images (go/cmd/oci-boot/main.go, newOciPath): a       *)
(* reference oci:dir:[name:]tag is the sequence of its tokens after the    *)
(* scheme.  A layout on disk is one of two kinds: "flat", one index that   *)
(* holds name:tag, or "tree", as zot writes it, one index per name that    *)
(* holds the tags.  An image on disk is therefore a place: the directory   *)
(* of an index, as a path, and the name it has in that index.              *)
(***************************************************************************)
EXTENDS Sequences, Naturals, FiniteSets

Empty == "empty"     \* the empty string

Place(dir, name) == [dir |-> dir, name |-> name]

\* Two or three colons: a directory, an optional name, a tag.
IsOciRef(ref) == Len(ref) \in {2, 3}

OciPath(ref, layout) ==
    [repo   |-> ref[1],
     name   |-> IF Len(ref) = 3 THEN ref[2] ELSE Empty,
     tag    |-> ref[Len(ref)],
     layout |-> layout]

OciDir(p) == IF p.layout = "tree" /\ p.name # Empty THEN p.repo \o <<p.name>> ELSE p.repo

NameAndTag(p) == IF p.name = Empty THEN <<p.tag>> ELSE <<p.name, p.tag>>

RefName(p) == IF p.layout = "tree" THEN <<p.tag>> ELSE NameAndTag(p)

PlaceOf(p) == Place(OciDir(p), RefName(p))

\* With no layout given, an index in the directory itself makes it flat.
Layout(dir, places) == IF \E q \in places : q.dir = dir THEN "flat" ELSE "tree"

\* Where an image is read from, and where a copy of it is written.
SourcePlace(ref, places) == PlaceOf(OciPath(ref, Layout(ref[1], places)))
TargetPlace(ref)         == PlaceOf(OciPath(ref, "tree"))
=============================================================================
