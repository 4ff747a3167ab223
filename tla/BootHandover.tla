---------------------------- MODULE BootHandover ----------------------------
(***************************************************************************)
(* What the soci dracut module promises the rest of the boot: the root is  *)
(* handed over only when it is mounted and complete, PCR 7 is extended at  *)
(* most once and only with the root in place, and once the hand-over is    *)
(* ready nothing the module does takes it back.                            *)
(***************************************************************************)
EXTENDS Naturals

VARIABLES rootMounted,  \* the target root is mounted at $NEWROOT
          pcr7,         \* how many times this boot has extended PCR 7
          outcome       \* what the rest of the boot can see
vars == <<rootMounted, pcr7, outcome>>

Outcomes == {"pending", "ready", "booted", "skipped", "failed", "timeout"}

Init == rootMounted = FALSE /\ pcr7 = 0 /\ outcome = "pending"

MountRoot ==
    /\ outcome = "pending"
    /\ ~rootMounted
    /\ rootMounted' = TRUE
    /\ UNCHANGED <<pcr7, outcome>>

ExtendPcr7 ==
    /\ outcome = "pending"
    /\ rootMounted
    /\ pcr7 = 0
    /\ pcr7' = 1
    /\ UNCHANGED <<rootMounted, outcome>>

Ready ==
    /\ outcome = "pending"
    /\ rootMounted
    /\ outcome' = "ready"
    /\ UNCHANGED <<rootMounted, pcr7>>

Boot ==
    /\ outcome = "ready"
    /\ outcome' = "booted"
    /\ UNCHANGED <<rootMounted, pcr7>>

\* root= is not an soci root: the boot goes on without this module.
Skip ==
    /\ outcome = "pending"
    /\ ~rootMounted
    /\ outcome' = "skipped"
    /\ UNCHANGED <<rootMounted, pcr7>>

Fail ==
    /\ outcome = "pending"
    /\ outcome' = "failed"
    /\ UNCHANGED <<rootMounted, pcr7>>

\* dracut gives up waiting: never in the middle of the hand-over.
GiveUp ==
    /\ outcome \in {"ready", "pending"}
    /\ outcome = "pending" => ~rootMounted
    /\ outcome' = "timeout"
    /\ UNCHANGED <<rootMounted, pcr7>>

Next == MountRoot \/ ExtendPcr7 \/ Ready \/ Boot \/ Skip \/ Fail \/ GiveUp

Spec == Init /\ [][Next]_vars
=============================================================================
