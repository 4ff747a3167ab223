------------------------------ MODULE SociArgs ------------------------------
(***************************************************************************)
(* What the SOCI_* shell variables hold once soci_set_vars has run         *)
(* (layers/build-krd/dracut/soci/soci-lib.sh), as a function of the kernel *)
(* command line.  SociCmdline.tla checks that the shell loop computes it;  *)
(* SociBoot.tla uses it.                                                   *)
(*                                                                         *)
(* A command line is a sequence of words.  A word has a kind: "soci" for   *)
(* root=soci:<args>, "other" for any other root=..., "flag" for the rest.  *)
(* <args> is the sequence of its key=val tokens; a token without '=' has   *)
(* the empty value.                                                        *)
(***************************************************************************)
EXTENDS Naturals, Sequences

Empty == "empty"       \* stands for the empty string

CONSTANTS UnsafeKeys   \* the keys safe_string refuses: Empty or a character outside 0-9a-zA-Z_

NoRoot == [kind |-> "other", args |-> << >>]

IsLast(i, S) == i \in S /\ \A j \in S : j <= i

RootWords(cmdline) == {i \in 1 .. Len(cmdline) : cmdline[i].kind # "flag"}

\* The last root= word wins.
RootArg(cmdline) ==
    IF RootWords(cmdline) = {} THEN NoRoot
    ELSE cmdline[CHOOSE i \in RootWords(cmdline) : IsLast(i, RootWords(cmdline))]

\* The positions parse_string reaches: it returns at the first unsafe key.
Reached(args) ==
    {i \in 1 .. Len(args) : \A j \in 1 .. i : args[j].key \notin UnsafeKeys}

Settings(args, key) == {i \in Reached(args) : args[i].key = key}

\* The last token that sets a key wins; a key that no token sets is unset.
Value(args, key, unset) ==
    IF Settings(args, key) = {} THEN unset
    ELSE args[CHOOSE i \in Settings(args, key) : IsLast(i, Settings(args, key))].val

NotEnabled ==
    [enabled |-> FALSE, name |-> Empty, dev |-> Empty, path |-> Empty, repo |-> Empty]

\* An unset variable reads as "" everywhere except SOCI_path, whose default
\* is "oci" when it is unset, and stays "" when it is set to nothing.
SetVars(cmdline) ==
    LET root == RootArg(cmdline)
    IN  IF root.kind = "soci"
        THEN [enabled |-> TRUE,
              name |-> Value(root.args, "name", Empty),
              dev  |-> Value(root.args, "dev", Empty),
              path |-> Value(root.args, "path", "oci"),
              repo |-> Value(root.args, "repo", Empty)]
        ELSE NotEnabled
=============================================================================
