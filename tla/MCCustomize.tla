---------------------------- MODULE MCCustomize ----------------------------
(* The customized layer, from a whole bootkit and keyset, and from ones with *)
(* something missing, unreadable or of another key.                          *)
EXTENDS Customize

KitNames == {"ovmf-code.fd", "ovmf-vars.fd", "shim.efi", "firmware.cpio.gz", "core.cpio.gz",
             "initrd-modules.cpio.gz", "initrd-mos.cpio.gz", "stubby.efi", "vmlinuz"}
KeyNames == {"uefi-pk", "uefi-kek", "uefi-db", "uki-limited", "uki-production", "uki-tpm", "manifest-ca"}

All == {Kit(n) : n \in KitNames} \cup {CertOf(k) : k \in KeyNames} \cup {KeyOf(k) : k \in KeyNames}
       \cup {Path("keys", "pcr7data")}

MCGzNames == Archives

\* The files of a bootkit are named for themselves, a key for its directory.
Whole == [p \in All |-> IF p.name \in {"cert.pem", "privkey.pem"} THEN Plain(p.dir)
                        ELSE IF p.name \in MCGzNames THEN Gz(Plain(p.name)) ELSE Plain(p.name)]

Vendor(name) == Sign(Plain(name), "vendor", "vendor")

MCInputs == {Whole, [Whole EXCEPT ![Kit("shim.efi")]   = Vendor("shim.efi"),
                                  ![Kit("stubby.efi")] = Vendor("stubby.efi")]}
    \cup {[p \in All \ {q} |-> Whole[p]] : q \in All}
    \cup {[Whole EXCEPT ![q] = Blank] : q \in All}
    \cup {[Whole EXCEPT ![Kit(n)] = Plain("uncompressed")] : n \in MCGzNames}
    \cup {[Whole EXCEPT ![KeyOf(k)] = Plain("other")] : k \in KeyNames}
    \cup {[p \in {q \in All : q.dir # d} |-> Whole[p]] : d \in {"bootkit", "uefi-db"}}

MCJobs == {[script |-> Script, files |-> s, trap |-> Trap] : s \in MCInputs}
=============================================================================
