----------------------------- MODULE MCEspSize -----------------------------
(* Sizes around cluster and block boundaries, below and above 1 MiB.        *)
EXTENDS EspSize

MCSizes == {[f \in File |-> CASE f = "kernel.efi" -> k + d
                              [] f = "shim.efi" -> s
                              [] OTHER -> n] :
    k \in {0, 1024, 400000, 560000, 580000, 600000, 640000, 1048576, 5000000},
    d \in {0, 1, 511}, s \in {0, 1, 513}, n \in {0, 60}}
=============================================================================
