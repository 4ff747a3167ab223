---------------------------- MODULE MCSociCmdline ----------------------------
(* SociCmdline over every argument list of up to three tokens.              *)
EXTENDS SociCmdline

MCUnsafeKeys == {Empty, "md-path"}

Tokens ==
    {[key |-> "name", val |-> v] : v \in {"livecd", "mosboot", Empty}}
    \cup {[key |-> "path", val |-> v] : v \in {"oci", "alt", Empty}}
    \cup {[key |-> "dev", val |-> "vda"], [key |-> "repo", val |-> "local"],
          [key |-> "mdpath", val |-> "md"],
          [key |-> "md-path", val |-> "md"], [key |-> Empty, val |-> Empty]}

MaxTokens == 3

ArgLists == UNION {[1 .. n -> Tokens] : n \in 0 .. MaxTokens}

Soci(args) == [kind |-> "soci", args |-> args]
Flag == [kind |-> "flag", args |-> << >>]
Named == Soci(<<[key |-> "name", val |-> "livecd"]>>)

\* One root= word, and the orders of two of them and a flag.
MCInputs ==
    {<<Soci(a)>> : a \in ArgLists}
    \cup {<<w, v, u>> : w, v, u \in {Named, NoRoot, Flag, Soci(<< >>)}}
    \cup {<< >>}
=============================================================================
