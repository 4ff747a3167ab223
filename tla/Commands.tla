------------------------------ MODULE Commands ------------------------------
(***************************************************************************)
(* What a script of bkcust and custbk commands promises: a command either  *)
(* does what it says, at once, or fails, and then only the file it was     *)
(* writing is not what it was.  A failure ends the script, and the end of  *)
(* the script removes its temporary directories.                           *)
(***************************************************************************)
EXTENDS Artifacts

CONSTANT Jobs      \* as in Bkcust: a script, its store, what its exit removes

VARIABLES job, line, store, verdict
vars == <<job, line, store, verdict>>

Init == job \in Jobs /\ line = 1 /\ store = job.files /\ verdict = "none"

Run ==
    /\ verdict = "none" /\ line <= Len(job.script)
    /\ line' = line + 1
    /\ store' = Effect(job.script[line], store)
    /\ UNCHANGED <<job, verdict>>

Break ==
    /\ verdict = "none" /\ line <= Len(job.script)
    /\ \A p \in DOMAIN store \cup DOMAIN store' :
          p # Target(job.script[line]) => /\ p \in DOMAIN store /\ p \in DOMAIN store'
                                          /\ store'[p] = store[p]
    /\ verdict' = "error"
    /\ UNCHANGED <<job, line>>

Finish ==
    /\ verdict = "none" /\ line > Len(job.script)
    /\ verdict' = "ok"
    /\ UNCHANGED <<job, line, store>>

Exit ==
    /\ verdict # "none"
    /\ store' = Without(store, job.trap)
    /\ UNCHANGED <<job, line, verdict>>

Next == Run \/ Break \/ Finish \/ Exit

Spec == Init /\ [][Next]_vars
=============================================================================
