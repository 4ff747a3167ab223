----------------------------- MODULE SociCmdline -----------------------------
(***************************************************************************)
(* soci_set_vars and parse_string of soci-lib.sh, one word or one token at *)
(* a time: every hook of the soci dracut module starts by running it.      *)
(***************************************************************************)
EXTENDS SociArgs

CONSTANTS Inputs,   \* the command lines considered
          Unset     \* a variable the shell has not assigned

VARIABLES cmdline,  \* /proc/cmdline
          pc,       \* "words", "tokens", "defaults", "done" or "dead"
          i,        \* the next word, then the next token
          root,     \* _root
          var       \* SOCI_<key>
vars == <<cmdline, pc, i, root, var>>

Keys == {"name", "dev", "path", "repo", "mdpath"}

\* What the shell assigns is a string, and the keys it knows are safe.
ASSUME CmdlineAssumption ==
    /\ Keys \cap UnsafeKeys = {} /\ Unset # "oci"
    /\ \A c \in Inputs :
          /\ Len(c) \in Nat
          /\ \A k \in 1 .. Len(c) : c[k].kind = "soci" =>
                Len(c[k].args) \in Nat /\ \A j \in 1 .. Len(c[k].args) : c[k].args[j].val # Unset

Init ==
    /\ cmdline \in Inputs
    /\ pc = "words"
    /\ i = 1
    /\ root = NoRoot
    /\ var = [k \in Keys |-> Unset]

-----------------------------------------------------------------------------
(* Plausible mistakes, each in place of one action below.                  *)

\* A token with an unsafe key is skipped.
ParseTokenSkips ==
    /\ pc = "tokens"
    /\ i <= Len(root.args)
    /\ var' = IF root.args[i].key \in UnsafeKeys THEN var
              ELSE [var EXCEPT ![root.args[i].key] = root.args[i].val]
    /\ i' = i + 1
    /\ UNCHANGED <<cmdline, pc, root>>

\* A token is taken only while its key is the next one of the documented order.
ParseTokenInOrder ==
    /\ pc = "tokens"
    /\ i <= Len(root.args)
    /\ IF root.args[i].key \in UnsafeKeys
          \/ (root.args[i].key = "dev" /\ var["path"] # Unset)
       THEN pc' = "defaults" /\ UNCHANGED <<i, var>>
       ELSE /\ var' = [var EXCEPT ![root.args[i].key] = root.args[i].val]
            /\ i' = i + 1
            /\ UNCHANGED pc
    /\ UNCHANGED <<cmdline, root>>

-----------------------------------------------------------------------------

\* for tok in $cmdline; do case "$tok" in root=*) _root=...
ReadWord ==
    /\ pc = "words"
    /\ i <= Len(cmdline)
    /\ root' = IF cmdline[i].kind = "flag" THEN root ELSE cmdline[i]
    /\ i' = i + 1
    /\ UNCHANGED <<cmdline, pc, var>>

ChooseRoot ==
    /\ pc = "words"
    /\ i > Len(cmdline)
    /\ pc' = IF root.kind = "soci" THEN "tokens" ELSE "done"
    /\ i' = 1
    /\ UNCHANGED <<cmdline, root, var>>

\* One turn of parse_string's loop: an unsafe key ends it, and the caller
\* does not look at the status it returns.
ParseToken ==
    /\ pc = "tokens"
    /\ i <= Len(root.args)
    /\ IF root.args[i].key \in UnsafeKeys
       THEN pc' = "defaults" /\ UNCHANGED <<i, var>>
       ELSE /\ var' = [var EXCEPT ![root.args[i].key] = root.args[i].val]
            /\ i' = i + 1
            /\ UNCHANGED pc
    /\ UNCHANGED <<cmdline, root>>

EndOfTokens ==
    /\ pc = "tokens"
    /\ i > Len(root.args)
    /\ pc' = "defaults"
    /\ UNCHANGED <<cmdline, i, root, var>>

\* [ -n "$SOCI_name" ] || soci_die; then the default of SOCI_path.
Defaults ==
    /\ pc = "defaults"
    /\ IF var["name"] \in {Unset, Empty}
       THEN pc' = "dead" /\ UNCHANGED var
       ELSE /\ pc' = "done"
            /\ var' = IF var["path"] = Unset THEN [var EXCEPT !["path"] = "oci"] ELSE var
    /\ UNCHANGED <<cmdline, i, root>>

Terminating == pc \in {"done", "dead"} /\ UNCHANGED vars

Next == ReadWord \/ ChooseRoot \/ ParseToken \/ EndOfTokens \/ Defaults \/ Terminating

Spec == Init /\ [][Next]_vars

-----------------------------------------------------------------------------

Read(k) == IF var[k] = Unset THEN Empty ELSE var[k]

\* The loop leaves in the shell what SetVars says of the command line, and it
\* dies exactly when an soci root has no name (soci-lib.sh:100-131).
ComputesSetVars ==
    LET want == SetVars(cmdline)
    IN  /\ pc = "done" =>
             /\ want = [enabled |-> root.kind = "soci",
                        name |-> Read("name"), dev |-> Read("dev"),
                        path |-> Read("path"), repo |-> Read("repo")]
             /\ want.enabled => want.name # Empty
        /\ pc = "dead" => want.enabled /\ want.name = Empty

Documented(args) ==
    /\ \A k \in 1 .. Len(args) : args[k].key \in Keys
    /\ \A k, l \in 1 .. Len(args) : args[k].key = args[l].key => k = l

\* soci/README.md:5-6, "Order of the comma (,) delimited key/value pairs is not
\* important": when every documented key is given at most once, each variable
\* has the value its own token gives it, wherever in the list that token is,
\* and a key that is not given is left alone.
OrderIsNotImportant ==
    pc = "done" /\ root.kind = "soci" /\ Documented(root.args) =>
        LET given == {root.args[k] : k \in 1 .. Len(root.args)}
        IN  \A key \in Keys :
              /\ \A t \in given : t.key = key => var[key] = t.val
              /\ (\A t \in given : t.key # key) =>
                    var[key] = IF key = "path" THEN "oci" ELSE Unset
=============================================================================
