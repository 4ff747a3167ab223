------------------------- MODULE SociCmdlineProofs -------------------------
(* The loops of soci_set_vars compute what SociArgs says, for command lines  *)
(* of any length: each loop has read a part, and the last one in it counts.  *)
EXTENDS SociCmdline, Integers, TLAPS

-----------------------------------------------------------------------------
(* The invariant.                                                          *)

\* Of the first n words, the last that is a root= word.
RootSoFar(n, r) ==
    \/ r = NoRoot /\ \A j \in 1 .. n : cmdline[j].kind = "flag"
    \/ \E m \in 1 .. n : /\ cmdline[m].kind # "flag" /\ r = cmdline[m]
                         /\ \A j \in m + 1 .. n : cmdline[j].kind = "flag"

\* Of the first n tokens, the last that sets a key.
ValueSoFar(args, key, n, v) ==
    \/ v = Unset /\ \A j \in 1 .. n : args[j].key # key
    \/ \E m \in 1 .. n : /\ args[m].key = key /\ v = args[m].val
                         /\ \A j \in m + 1 .. n : args[j].key # key

\* Of all tokens.
IsValue(args, key, v) ==
    \/ v = Unset /\ Settings(args, key) = {}
    \/ \E m \in Settings(args, key) : IsLast(m, Settings(args, key)) /\ v = args[m].val

IsSoci(r) ==
    /\ r.kind = "soci" /\ Len(r.args) \in Nat
    /\ \A j \in 1 .. Len(r.args) : r.args[j].val # Unset

AllUnset == var = [k \in Keys |-> Unset]

WordsInv ==
    pc = "words" => /\ i \in 1 .. Len(cmdline) + 1 /\ RootSoFar(i - 1, root) /\ AllUnset

TokensInv ==
    pc = "tokens" => /\ IsSoci(root) /\ i \in 1 .. Len(root.args) + 1
                     /\ \A j \in 1 .. i - 1 : root.args[j].key \notin UnsafeKeys
                     /\ \A k \in Keys : ValueSoFar(root.args, k, i - 1, var[k])

EndInv ==
    /\ pc # "words" => root = RootArg(cmdline)
    /\ pc \in {"defaults", "dead"} => IsSoci(root) /\ \A k \in Keys : IsValue(root.args, k, var[k])
    /\ pc = "dead" => var["name"] \in {Unset, Empty}
    /\ pc = "done" /\ root.kind # "soci" => AllUnset
    /\ pc = "done" /\ root.kind = "soci" =>
          /\ IsSoci(root) /\ var["name"] \notin {Unset, Empty}
          /\ \A k \in Keys : \E v : /\ IsValue(root.args, k, v)
                                    /\ var[k] = IF k = "path" /\ v = Unset THEN "oci" ELSE v

Inv ==
    /\ cmdline \in Inputs /\ pc \in {"words", "tokens", "defaults", "done", "dead"}
    /\ DOMAIN var = Keys /\ var = [k \in DOMAIN var |-> var[k]]
    /\ WordsInv /\ TokensInv /\ EndInv

-----------------------------------------------------------------------------
(* The last of some positions.                                             *)

LEMMA LastIs ==
    ASSUME NEW S, S \subseteq Int, NEW m, IsLast(m, S)
    PROVE  (CHOOSE l \in S : IsLast(l, S)) = m
<1> DEFINE c == CHOOSE l \in S : IsLast(l, S)
<1>1. c \in S /\ IsLast(c, S)
  BY DEF IsLast
<1>2. c <= m /\ m <= c /\ c \in Int /\ m \in Int
  BY <1>1 DEF IsLast
<1> QED
  BY <1>2

LEMMA RootIsLast ==
    ASSUME NEW r, RootSoFar(Len(cmdline), r), Len(cmdline) \in Nat
    PROVE  r = RootArg(cmdline)
<1> DEFINE S == RootWords(cmdline)
<1>1. CASE r = NoRoot /\ \A j \in 1 .. Len(cmdline) : cmdline[j].kind = "flag"
  BY <1>1 DEF RootWords, RootArg
<1>2. CASE \E m \in 1 .. Len(cmdline) : /\ cmdline[m].kind # "flag" /\ r = cmdline[m]
                                       /\ \A j \in m + 1 .. Len(cmdline) : cmdline[j].kind = "flag"
  <2>1. PICK m \in 1 .. Len(cmdline) : /\ cmdline[m].kind # "flag" /\ r = cmdline[m]
                                       /\ \A j \in m + 1 .. Len(cmdline) : cmdline[j].kind = "flag"
    BY <1>2
  <2>2. IsLast(m, S) /\ S \subseteq Int /\ S # {}
    BY <2>1 DEF IsLast, RootWords
  <2>3. (CHOOSE l \in S : IsLast(l, S)) = m
    BY <2>2, LastIs
  <2>4. RootArg(cmdline) = cmdline[CHOOSE l \in RootWords(cmdline) : IsLast(l, RootWords(cmdline))]
    BY <2>2, Zenon DEF RootArg
  <2> QED
    BY <2>1, <2>3, <2>4, Zenon
<1> QED
  BY <1>1, <1>2 DEF RootSoFar

\* parse_string has read all that it will read.
LEMMA ValueIsLast ==
    ASSUME NEW args, Len(args) \in Nat, NEW n \in 0 .. Len(args),
           \A j \in 1 .. n : args[j].key \notin UnsafeKeys,
           n = Len(args) \/ args[n + 1].key \in UnsafeKeys,
           NEW key, NEW v, ValueSoFar(args, key, n, v)
    PROVE  IsValue(args, key, v)
<1>1. Reached(args) = 1 .. n
  BY DEF Reached
<1>2. Settings(args, key) = {j \in 1 .. n : args[j].key = key}
  BY <1>1 DEF Settings
<1>3. CASE v = Unset /\ \A j \in 1 .. n : args[j].key # key
  BY <1>2, <1>3 DEF IsValue
<1>4. CASE \E m \in 1 .. n : /\ args[m].key = key /\ v = args[m].val
                             /\ \A j \in m + 1 .. n : args[j].key # key
  <2>1. PICK m \in 1 .. n : /\ args[m].key = key /\ v = args[m].val
                            /\ \A j \in m + 1 .. n : args[j].key # key
    BY <1>4
  <2>2. IsLast(m, Settings(args, key)) /\ m \in Settings(args, key)
    BY <1>2, <2>1 DEF IsLast
  <2> QED
    BY <2>1, <2>2 DEF IsValue
<1> QED
  BY <1>3, <1>4 DEF ValueSoFar

LEMMA ValueIs ==
    ASSUME NEW r, IsSoci(r), NEW key, NEW v, IsValue(r.args, key, v), NEW unset
    PROVE  Value(r.args, key, unset) = IF v = Unset THEN unset ELSE v
<1> DEFINE S == Settings(r.args, key)
<1>1. CASE v = Unset /\ S = {}
  BY <1>1 DEF Value
<1>2. CASE \E m \in S : IsLast(m, S) /\ v = r.args[m].val
  <2>1. PICK m \in S : IsLast(m, S) /\ v = r.args[m].val
    BY <1>2
  <2>2. S \subseteq 1 .. Len(r.args) /\ S \subseteq Int
    BY DEF Settings, Reached, IsSoci
  <2>3. v # Unset
    BY <2>1, <2>2 DEF IsSoci
  <2>4. (CHOOSE l \in S : IsLast(l, S)) = m
    BY <2>1, <2>2, LastIs
  <2> QED
    BY <2>1, <2>3, <2>4 DEF Value
<1> QED
  BY <1>1, <1>2 DEF IsValue

-----------------------------------------------------------------------------
(* The steps.                                                              *)

LEMMA InitInv == Init => Inv
  BY CmdlineAssumption DEF Init, Inv, WordsInv, TokensInv, EndInv, RootSoFar, AllUnset

LEMMA StepReadWord == ASSUME Inv, ReadWord PROVE Inv'
<1>1. Len(cmdline) \in Nat /\ i \in 1 .. Len(cmdline) /\ pc = "words" /\ RootSoFar(i - 1, root)
      /\ UNCHANGED <<cmdline, pc, var>> /\ i' = i + 1
  BY CmdlineAssumption DEF Inv, ReadWord, WordsInv
<1>2. RootSoFar(i, root')
  <2>1. CASE cmdline[i].kind = "flag"
    <3>1. root' = root
      BY <2>1 DEF ReadWord
    <3>2. \A j \in 1 .. i : j \in 1 .. i - 1 \/ j = i
      BY <1>1
    <3> QED
      BY <1>1, <2>1, <3>1, <3>2 DEF RootSoFar
  <2>2. CASE cmdline[i].kind # "flag"
    <3>1. root' = cmdline[i] /\ i \in 1 .. i /\ \A j \in i + 1 .. i : cmdline[j].kind = "flag"
      BY <1>1, <2>2 DEF ReadWord
    <3> QED
      BY <2>2, <3>1 DEF RootSoFar
  <2> QED
    BY <2>1, <2>2
<1>3. RootSoFar(i - 1, root)'
  BY <1>1, <1>2 DEF RootSoFar
<1>4. WordsInv'
  BY <1>1, <1>3 DEF WordsInv, AllUnset, Inv
<1> QED
  BY <1>1, <1>4 DEF Inv, TokensInv, EndInv

LEMMA StepChooseRoot == ASSUME Inv, ChooseRoot PROVE Inv'
<1>1. /\ Len(cmdline) \in Nat /\ pc = "words" /\ RootSoFar(Len(cmdline), root) /\ AllUnset
      /\ UNCHANGED <<cmdline, root, var>> /\ i' = 1
      /\ pc' = IF root.kind = "soci" THEN "tokens" ELSE "done"
  <2>1. i - 1 = Len(cmdline) /\ Len(cmdline) \in Nat
    BY CmdlineAssumption DEF Inv, ChooseRoot, WordsInv
  <2> QED
    BY <2>1 DEF Inv, ChooseRoot, WordsInv
<1>2. root = RootArg(cmdline)
  BY <1>1, RootIsLast
<1>3. root.kind = "soci" => IsSoci(root)
  BY <1>1, CmdlineAssumption DEF RootSoFar, IsSoci, NoRoot, Inv
<1>4. TokensInv'
  BY <1>1, <1>3 DEF TokensInv, IsSoci, ValueSoFar, AllUnset
<1>5. EndInv'
  BY <1>1, <1>2 DEF EndInv, AllUnset, RootArg, RootWords, IsLast
<1> QED
  BY <1>1, <1>4, <1>5 DEF Inv, WordsInv

\* A turn of the loop that ends it.
LEMMA TokensEnd ==
    ASSUME Inv, pc = "tokens", i > Len(root.args) \/ root.args[i].key \in UnsafeKeys,
           pc' = "defaults", UNCHANGED <<cmdline, i, root, var>>
    PROVE  Inv'
<1>1. /\ IsSoci(root) /\ i \in 1 .. Len(root.args) + 1 /\ root = RootArg(cmdline)
      /\ \A j \in 1 .. i - 1 : root.args[j].key \notin UnsafeKeys
      /\ \A k \in Keys : ValueSoFar(root.args, k, i - 1, var[k])
  BY DEF Inv, TokensInv, EndInv
<1>2. i - 1 \in 0 .. Len(root.args) /\ Len(root.args) \in Nat /\ (i - 1) + 1 = i
  BY <1>1 DEF IsSoci
<1>3. i - 1 = Len(root.args) \/ root.args[(i - 1) + 1].key \in UnsafeKeys
  BY <1>2
<1>4. \A k \in Keys : IsValue(root.args, k, var[k])
  BY <1>1, <1>2, <1>3, ValueIsLast
<1>5. EndInv'
  <2>1. pc' # "words" => root' = RootArg(cmdline')
    BY <1>1
  <2> QED
    BY <1>1, <1>4, <2>1 DEF EndInv
<1> QED
  BY <1>5 DEF Inv, WordsInv, TokensInv

LEMMA StepParseToken == ASSUME Inv, ParseToken PROVE Inv'
<1>1. CASE root.args[i].key \in UnsafeKeys
  BY <1>1, TokensEnd DEF ParseToken
<1>2. CASE root.args[i].key \notin UnsafeKeys
  <2> DEFINE args == root.args
             t == args[i]
  <2>1. /\ IsSoci(root) /\ i \in 1 .. Len(args) /\ i \in Nat /\ root = RootArg(cmdline) /\ pc = "tokens"
        /\ \A j \in 1 .. i - 1 : args[j].key \notin UnsafeKeys
        /\ \A k \in Keys : ValueSoFar(args, k, i - 1, var[k])
    BY DEF Inv, TokensInv, EndInv, ParseToken, IsSoci
  <2>2. /\ var' = [var EXCEPT ![t.key] = t.val] /\ i' = i + 1
        /\ UNCHANGED <<cmdline, root, pc>>
    BY <1>2 DEF ParseToken
  <2>3. \A k \in Keys : var'[k] = IF k = t.key THEN t.val ELSE var[k]
    BY <2>2 DEF Inv
  <2>4. \A j \in 1 .. i : j \in 1 .. i - 1 \/ j = i
    BY <2>1
  <2> HIDE DEF args
  <2>5. ASSUME NEW k \in Keys PROVE ValueSoFar(args, k, i, var'[k])
    <3>1. CASE k = t.key
      <4>1. i \in 1 .. i /\ \A j \in i + 1 .. i : args[j].key # k
        BY <2>1
      <4> QED
        BY <2>3, <3>1, <4>1 DEF ValueSoFar
    <3>2. CASE k # t.key
      <4>1. var'[k] = var[k] /\ ValueSoFar(args, k, i - 1, var[k])
        BY <2>1, <2>3, <3>2
      <4>2. CASE var[k] = Unset /\ \A j \in 1 .. i - 1 : args[j].key # k
        BY <2>4, <3>2, <4>1, <4>2 DEF ValueSoFar
      <4>3. CASE \E m \in 1 .. i - 1 : /\ args[m].key = k /\ var[k] = args[m].val
                                       /\ \A j \in m + 1 .. i - 1 : args[j].key # k
        <5>1. PICK m \in 1 .. i - 1 : /\ args[m].key = k /\ var[k] = args[m].val
                                      /\ \A j \in m + 1 .. i - 1 : args[j].key # k
          BY <4>3
        <5>2. m \in 1 .. i /\ \A j \in m + 1 .. i : args[j].key # k
          BY <2>1, <3>2, <5>1
        <5> QED
          BY <4>1, <5>1, <5>2 DEF ValueSoFar
      <4> QED
        BY <4>1, <4>2, <4>3 DEF ValueSoFar
    <3> QED
      BY <3>1, <3>2
  <2>6. \A j \in 1 .. i : args[j].key \notin UnsafeKeys
    BY <1>2, <2>1, <2>4 DEF args
  <2>7. i' - 1 = i /\ i' \in 1 .. Len(args) + 1
    BY <2>1, <2>2 DEF IsSoci, args
  <2>8. TokensInv'
    BY <2>1, <2>2, <2>5, <2>6, <2>7 DEF TokensInv, args
  <2>9. DOMAIN var' = Keys /\ var' = [k \in DOMAIN var' |-> var'[k]]
    BY <2>2 DEF Inv
  <2>10. EndInv'
    BY <2>1, <2>2 DEF EndInv
  <2> QED
    BY <2>1, <2>2, <2>8, <2>9, <2>10 DEF Inv, WordsInv
<1> QED
  BY <1>1, <1>2

LEMMA StepDefaults == ASSUME Inv, Defaults PROVE Inv'
<1>1. /\ pc = "defaults" /\ IsSoci(root) /\ root = RootArg(cmdline) /\ root.kind = "soci"
      /\ \A k \in Keys : IsValue(root.args, k, var[k])
      /\ UNCHANGED <<cmdline, i, root>>
  BY DEF Inv, EndInv, Defaults, IsSoci
<1>2. CASE var["name"] \in {Unset, Empty}
  <2>1. pc' = "dead" /\ var' = var
    BY <1>2 DEF Defaults
  <2>2. EndInv'
    <3>1. root' = RootArg(cmdline')
      BY <1>1
    <3> QED
      BY <1>1, <1>2, <2>1, <3>1 DEF EndInv
  <2> QED
    BY <1>1, <2>1, <2>2 DEF Inv, WordsInv, TokensInv
<1>3. CASE var["name"] \notin {Unset, Empty}
  <2>1. /\ pc' = "done"
        /\ var' = IF var["path"] = Unset THEN [var EXCEPT !["path"] = "oci"] ELSE var
    BY <1>3 DEF Defaults
  <2>2. DOMAIN var' = Keys /\ var' = [k \in DOMAIN var' |-> var'[k]]
    BY <2>1 DEF Inv
  <2>3. \A k \in Keys : var'[k] = IF k = "path" /\ var[k] = Unset THEN "oci" ELSE var[k]
    BY <2>1 DEF Inv
  <2>4. "name" \in Keys /\ var'["name"] = var["name"]
    BY <2>3 DEF Keys
  <2>5. EndInv'
    <3>1. root' = RootArg(cmdline')
      BY <1>1
    <3> QED
      BY <1>1, <1>3, <2>1, <2>3, <2>4, <3>1 DEF EndInv
  <2> QED
    BY <1>1, <2>1, <2>2, <2>5 DEF Inv, WordsInv, TokensInv
<1> QED
  BY <1>2, <1>3

LEMMA NextInv == ASSUME Inv, [Next]_vars PROVE Inv'
<1>1. CASE EndOfTokens
  BY <1>1, TokensEnd DEF EndOfTokens, Inv, TokensInv
<1>2. CASE UNCHANGED vars
  <2>1. RootArg(cmdline') = RootArg(cmdline)
    BY <1>2 DEF vars
  <2> QED
    BY <1>2, <2>1 DEF vars, Inv, WordsInv, TokensInv, EndInv, RootSoFar, AllUnset
<1> QED
  BY <1>1, <1>2, StepReadWord, StepChooseRoot, StepParseToken, StepDefaults DEF Next, Terminating

-----------------------------------------------------------------------------
(* The theorems.                                                           *)

\* Wherever a loop stands, what it has assigned is what the words or tokens
\* it has read say (soci-lib.sh:64-131).
THEOREM Invariance == Spec => []Inv
<1> QED
  BY InitInv, NextInv, PTL DEF Spec

LEMMA ReadIs ==
    ASSUME NEW k \in Keys, k # "path", IsSoci(root), IsValue(root.args, k, var[k])
    PROVE  Read(k) = Value(root.args, k, Empty)
  BY ValueIs DEF Read

LEMMA InvComputes == Inv => ComputesSetVars
<1> SUFFICES ASSUME Inv PROVE ComputesSetVars
  OBVIOUS
<1>1. ASSUME pc \in {"done", "dead"} PROVE root = RootArg(cmdline)
  BY <1>1 DEF Inv, EndInv
<1>2. CASE pc = "done" /\ root.kind # "soci"
  <2>1. SetVars(cmdline) = NotEnabled
    BY <1>1, <1>2 DEF SetVars
  <2>2. \A k \in Keys : Read(k) = Empty
    BY <1>2 DEF Inv, EndInv, AllUnset, Read
  <2>3. {"name", "dev", "path", "repo"} \subseteq Keys
    BY DEF Keys
  <2>4. (root.kind = "soci") = FALSE
    BY <1>2
  <2>5. ~SetVars(cmdline).enabled
    BY <2>1 DEF NotEnabled
  <2>6. NotEnabled = [enabled |-> root.kind = "soci", name |-> Read("name"), dev |-> Read("dev"),
                      path |-> Read("path"), repo |-> Read("repo")]
    BY <2>2, <2>3, <2>4, Zenon DEF NotEnabled
  <2> QED
    BY <1>2, <2>1, <2>5, <2>6, Zenon DEF ComputesSetVars
<1>3. CASE pc = "done" /\ root.kind = "soci"
  <2>1. /\ IsSoci(root) /\ root = RootArg(cmdline) /\ var["name"] \notin {Unset, Empty}
        /\ \A k \in Keys : \E v : /\ IsValue(root.args, k, v)
                                  /\ var[k] = IF k = "path" /\ v = Unset THEN "oci" ELSE v
    BY <1>1, <1>3 DEF Inv, EndInv
  <2>2. ASSUME NEW k \in Keys, k # "path" PROVE Read(k) = Value(root.args, k, Empty)
    BY <2>1, <2>2, ReadIs
  <2>3. Read("path") = Value(root.args, "path", "oci")
    <3>1. PICK v : /\ IsValue(root.args, "path", v)
                   /\ var["path"] = IF v = Unset THEN "oci" ELSE v
      BY <2>1 DEF Keys
    <3>2. Value(root.args, "path", "oci") = IF v = Unset THEN "oci" ELSE v
      BY <2>1, <3>1, ValueIs
    <3> QED
      BY <3>1, <3>2, CmdlineAssumption DEF Read
  <2>4. /\ Read("name") = Value(root.args, "name", Empty)
        /\ Read("dev") = Value(root.args, "dev", Empty)
        /\ Read("repo") = Value(root.args, "repo", Empty)
    BY <2>2 DEF Keys
  <2>5. Read("name") # Empty
    BY <2>1 DEF Read
  <2>6. (root.kind = "soci") = TRUE
    BY <1>3
  <2>7. SetVars(cmdline) = [enabled |-> TRUE, name |-> Read("name"), dev |-> Read("dev"),
                            path |-> Read("path"), repo |-> Read("repo")]
    BY <1>3, <2>1, <2>3, <2>4, Zenon DEF SetVars
  <2>8. SetVars(cmdline).name # Empty
    BY <2>5, <2>7
  <2> QED
    BY <1>3, <2>6, <2>7, <2>8, Zenon DEF ComputesSetVars
<1>4. CASE pc = "dead"
  <2>1. /\ IsSoci(root) /\ root = RootArg(cmdline) /\ var["name"] \in {Unset, Empty}
        /\ "name" \in Keys /\ IsValue(root.args, "name", var["name"])
    BY <1>1, <1>4 DEF Inv, EndInv, Keys
  <2>2. Value(root.args, "name", Empty) = Empty
    BY <2>1, ReadIs DEF Read
  <2> QED
    BY <1>4, <2>1, <2>2 DEF ComputesSetVars, SetVars, IsSoci
<1> QED
  BY <1>2, <1>3, <1>4 DEF ComputesSetVars

\* The loop that assigns the SOCI_ variables ends with what SetVars says of the
\* whole command line, and dies exactly when an soci root has no name
\* (soci-lib.sh:100-131).
THEOREM LoopsCompute == Spec => []ComputesSetVars
<1> QED
  BY Invariance, InvComputes, PTL

LEMMA InvAnyOrder == Inv => OrderIsNotImportant
<1> SUFFICES ASSUME Inv, pc = "done", root.kind = "soci", Documented(root.args) PROVE OrderIsNotImportant
  BY DEF OrderIsNotImportant
<1> DEFINE given == {root.args[k] : k \in 1 .. Len(root.args)}
<1>1. /\ IsSoci(root)
      /\ \A k \in Keys : \E v : /\ IsValue(root.args, k, v)
                                /\ var[k] = IF k = "path" /\ v = Unset THEN "oci" ELSE v
  BY DEF Inv, EndInv
<1>2. \A key : Settings(root.args, key) = {j \in 1 .. Len(root.args) : root.args[j].key = key}
  <2>1. \A j \in 1 .. Len(root.args) : root.args[j].key \notin UnsafeKeys
    BY CmdlineAssumption DEF Documented
  <2>2. Reached(root.args) = 1 .. Len(root.args)
    BY <1>1, <2>1 DEF Reached, IsSoci
  <2> QED
    BY <2>2 DEF Settings
<1>3. ASSUME NEW key \in Keys, NEW t \in given, t.key = key PROVE var[key] = t.val
  <2>1. PICK k \in 1 .. Len(root.args) : t = root.args[k]
    OBVIOUS
  <2>2. k \in Settings(root.args, key) /\ root.args[k].key = key
    BY <1>2, <1>3, <2>1
  <2>3. PICK v : IsValue(root.args, key, v) /\ var[key] = IF key = "path" /\ v = Unset THEN "oci" ELSE v
    BY <1>1
  <2>4. PICK m \in Settings(root.args, key) : v = root.args[m].val
    BY <2>2, <2>3 DEF IsValue
  <2>5. m \in 1 .. Len(root.args) /\ root.args[m].key = key
    BY <1>2
  <2>6. m = k
    BY <2>2, <2>5 DEF Documented
  <2>7. v # Unset
    BY <1>1, <2>4, <2>5 DEF IsSoci
  <2> QED
    BY <2>1, <2>3, <2>4, <2>6, <2>7
<1>4. ASSUME NEW key \in Keys, \A t \in given : t.key # key
      PROVE  var[key] = IF key = "path" THEN "oci" ELSE Unset
  <2>1. Settings(root.args, key) = {}
    BY <1>2, <1>4
  <2> QED
    BY <1>1, <2>1 DEF IsValue
<1> QED
  BY <1>3, <1>4 DEF OrderIsNotImportant

\* However the documented key=value pairs are ordered, each variable has the
\* value of its own pair, and a key that is not given is left alone
\* (soci/README.md:5-6, soci-lib.sh:64-131).
THEOREM AnyOrder == Spec => []OrderIsNotImportant
<1> QED
  BY Invariance, InvAnyOrder, PTL
=============================================================================
