------------------------------- MODULE Pkgtool -------------------------------
(***************************************************************************)
(* layers/minbase/pkgtool: packages are installed from lists that apt-get  *)
(* fetches for the files that name its sources.  A marker is to save a     *)
(* fetch: it is meant to be valid while no such file is newer.             *)
(***************************************************************************)
EXTENDS Naturals, Sequences

CONSTANTS
    Sources,     \* files that apt reads
    Commands,    \* sequences of commands: see Do
    MaxEdits     \* of the sources, between commands

VARIABLES
    commands, at, phase,
    edits,
    present,     \* the sources that there are
    unlisted,    \* those that changed after the lists were fetched, or all without lists
    marker,      \* it is there
    newer,       \* sources that changed after the marker was touched
    verdict      \* "none" yet, "error" when a command failed, else "ok" at the end
pkgVars == <<commands, at, phase, edits, present, unlisted, marker, newer, verdict>>

command == commands[at]

\* What is done, whether without a clean, and whether VERBOSITY is 2 or more.
Do(op, noClean, verbose) == [op |-> op, noClean |-> noClean, verbose |-> verbose]

PkgInit ==
    /\ commands \in Commands /\ at = 1 /\ phase = "begin" /\ edits = 0
    /\ present \in SUBSET Sources /\ unlisted = Sources
    /\ marker = FALSE /\ newer = {} /\ verdict = "none"

-----------------------------------------------------------------------------
GotoPhase(p) == phase' = p /\ UNCHANGED <<commands, at, edits, present, verdict>>
Returns == phase' = "begin" /\ at' = at + 1 /\ UNCHANGED <<commands, edits, present, verdict>>

\* Between commands somebody writes a source.
EditSource ==
    /\ phase = "begin" /\ edits < MaxEdits
    /\ \E s \in Sources : /\ present' = present \cup {s}
                          /\ unlisted' = unlisted \cup {s} /\ newer' = newer \cup {s}
    /\ edits' = edits + 1
    /\ UNCHANGED <<commands, at, phase, marker, verdict>>

\* The second pattern names a directory that is never there: sources.listd.
Found == present \cap {"sources.list"}

\* A plausible bug, and what was meant: [ f -ot marker ].
MarkerIsValidMeant == marker /\ Found \cap newer = {}

\* "test [ f -ot marker ]" is an error for every file that there is.
MarkerIsValid == marker /\ Found = {}

PkgBegin ==
    /\ phase = "begin" /\ at <= Len(commands)
    /\ GotoPhase(IF command.op \in {"clean", "remove"} THEN command.op ELSE "update")
    /\ UNCHANGED <<unlisted, marker, newer>>

\* Error-Mode=any makes apt-get fail when a list cannot be fetched.  The options of
\* -v -v take its place: then what could not be fetched is only warned of.
Update ==
    /\ phase = "update"
    /\ Found # {}
    /\ IF MarkerIsValid
         THEN GotoPhase("install") /\ UNCHANGED <<unlisted, marker, newer>>
         ELSE /\ unlisted' \in IF command.verbose THEN SUBSET unlisted ELSE {{}}
              /\ GotoPhase("touch") /\ UNCHANGED <<marker, newer>>

Touch ==
    /\ phase = "touch"
    /\ marker' = TRUE /\ newer' = {}
    /\ GotoPhase("install")
    /\ UNCHANGED unlisted

\* apt-get install or dist-upgrade.
Install ==
    /\ phase = "install"
    /\ IF command.noClean THEN Returns ELSE GotoPhase("clean")
    /\ UNCHANGED <<unlisted, marker, newer>>

\* remove and remove-force: apt-get or dpkg, which need no lists.
RemovePackages ==
    /\ phase = "remove"
    /\ Returns
    /\ UNCHANGED <<unlisted, marker, newer>>

\* The lists are removed, or that fails and nobody notices; then the marker goes.
Clean ==
    /\ phase = "clean"
    /\ unlisted' \in {unlisted, Sources}
    /\ marker' = FALSE
    /\ Returns
    /\ UNCHANGED newer

\* apt-get or touch fails, or nothing names a source; a clean may have removed
\* the lists but not the marker.  What an update has fetched it keeps.  Who ran
\* the command may go on.
PkgFails ==
    /\ phase \notin {"begin", "end"}
    /\ unlisted' \in CASE phase = "update" -> SUBSET unlisted
                       [] phase = "clean"  -> {unlisted, Sources}
                       [] OTHER            -> {unlisted}
    /\ \/ phase' = "begin" /\ at' = at + 1
       \/ phase' = "end" /\ UNCHANGED at
    /\ verdict' = "error"
    /\ UNCHANGED <<commands, edits, present, marker, newer>>

PkgsDone ==
    /\ phase = "begin" /\ at > Len(commands)
    /\ phase' = "end" /\ verdict' = IF verdict = "none" THEN "ok" ELSE verdict
    /\ UNCHANGED <<commands, at, edits, present, unlisted, marker, newer>>

PkgNext == \/ EditSource \/ PkgBegin \/ Update \/ Touch \/ Install \/ RemovePackages \/ Clean
           \/ PkgFails \/ PkgsDone

-----------------------------------------------------------------------------
(* Properties.                                                             *)

\* Packages are only installed from lists that were fetched after the last
\* change to any file that names a source, whatever cleans, failures and edits
\* came before (pkgtool:51-98), and whether or not earlier commands were verbose.
\* Only an install or upgrade with -v -v itself may use what an update left as it
\* was: it is the one whose apt-get does not fail for that (83-87).
ListsAreFresh == phase = "install" /\ ~command.verbose => unlisted \cap present = {}
=============================================================================
