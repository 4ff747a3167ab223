------------------------------- MODULE Layers -------------------------------
(***************************************************************************)
(* The file system that the layers of an image stand for, and what the     *)
(* programs oci-boot extracts a boot kit with make of them.                *)
(*                                                                         *)
(* A layer has a kind, "tar" or "squash", the places it holds a file for   *)
(* (adds) and those it has a whiteout for (dels).  What a directory holds  *)
(* is a set of files, each with the number of the layer it came from.      *)
(***************************************************************************)
EXTENDS Naturals, Sequences

File(place, i) == [at |-> place, from |-> i]

FilesOf(layers, i) == {File(p, i) : p \in layers[i].adds}

Touched(layers, i) == layers[i].adds \cup layers[i].dels

\* The first n layers on top of each other: a file is that of the last layer
\* that has it, unless a later one deletes it.
Overlay(layers, n) ==
    UNION {{f \in FilesOf(layers, i) : \A j \in i + 1 .. n : f.at \notin Touched(layers, j)} :
              i \in 1 .. n}

\* Layer i over what the directory holds: the whiteouts take effect.
Extracted(dir, layers, i) ==
    {f \in dir : f.at \notin Touched(layers, i)} \cup FilesOf(layers, i)

\* The same by a program that cannot make the whiteouts' device nodes and knows
\* nothing of what they mean: what they delete stays.
ExtractedOver(dir, layers, i) ==
    {f \in dir : f.at \notin layers[i].adds} \cup FilesOf(layers, i)

AllOfKind(layers, kind) == \A i \in 1 .. Len(layers) : layers[i].kind = kind
HasWhiteouts(layers) == \E i \in 1 .. Len(layers) : layers[i].dels # {}
=============================================================================
