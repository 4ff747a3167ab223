------------------------------ MODULE Publish ------------------------------
(***************************************************************************)
(* What a tool that makes an image promises of its output file: it is left *)
(* alone, spoilt, or replaced by a whole new image, and the tool reports   *)
(* success exactly when the new image is whole.  After the verdict nothing *)
(* changes.                                                                *)
(***************************************************************************)
VARIABLES output,   \* "old": as it was before; "partial"; "whole"
          verdict   \* "none" yet, "ok" or "failed"

vars == <<output, verdict>>

Init == output = "old" /\ verdict = "none"

\* The output is opened for writing.
Spoil == verdict = "none" /\ output = "old" /\ output' = "partial" /\ UNCHANGED verdict

\* The last byte of the image is written.
Complete == verdict = "none" /\ output # "whole" /\ output' = "whole" /\ UNCHANGED verdict

Succeed == verdict = "none" /\ output = "whole" /\ verdict' = "ok" /\ UNCHANGED output

GiveUp == verdict = "none" /\ output # "whole" /\ verdict' = "failed" /\ UNCHANGED output

Next == Spoil \/ Complete \/ Succeed \/ GiveUp

Spec == Init /\ [][Next]_vars
=============================================================================
