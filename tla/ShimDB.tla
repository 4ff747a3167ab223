------------------------------- MODULE ShimDB -------------------------------
(***************************************************************************)
(* The .vendor_cert section of a shim: what bkcust shim set-db (go/pkg/    *)
(* cert, shim, obj, run) and custbk build-esl with shim-set-db write for a *)
(* list of certificates, and what shim finds there.  A section is a header *)
(* of four words and, behind it, one signature list for each certificate,  *)
(* each at its offset.                                                     *)
(***************************************************************************)
EXTENDS Integers, Sequences

CONSTANTS
    W,       \* a word of the header holds a number below W: 2^32
    Jobs     \* a writer, and the certificates it is given

\* form: how a certificate is given, by a key directory, a guid and a path, or a
\* path alone;  hasGuid: the directory has a guid file of the right form;
\* isPem: the file is there and holds a certificate, of some size
Forms == {"keydir", "guid", "pem"}
ASSUME ShimDBAssumption ==
    /\ W \in Nat \ {0}
    /\ \A j \in Jobs : /\ j.writer \in {"bkcust", "custbk"} /\ Len(j.certs) \in Nat
                       /\ \A i \in 1 .. Len(j.certs) :
                             j.certs[i].size \in Nat \ {0} /\ j.certs[i].form \in Forms

VARIABLES
    job,
    next,      \* the certificate that is read next
    step,
    db,        \* the signature lists, as one file
    section,   \* the temporary file that becomes the section
    vendor,    \* the section of the shim
    lost,      \* history: a list was not written whole, and nobody noticed
    result     \* "none" yet, "ok" or "error"
vars == <<job, next, step, db, section, vendor, lost, result>>

-----------------------------------------------------------------------------
(* Lists, each behind the one before it.                                   *)

HeaderSize == 16
ListSize(c) == 28 + 16 + c.size     \* the list's own header, the owner, the certificate

End(lists) == IF lists = << >> THEN 0 ELSE lists[Len(lists)].at + lists[Len(lists)].size

ListOf(kind, size, owner, cert) == [kind |-> kind, size |-> size, owner |-> owner, cert |-> cert]
Placed(list, at) ==
    [at |-> at, kind |-> list.kind, size |-> list.size, owner |-> list.owner, cert |-> list.cert]

\* A plausible bug: > instead of >>.
AddedAfresh(lists, list) == <<Placed(list, 0)>>

Added(lists, list) == Append(lists, Placed(list, End(lists)))

Shifted(lists) == [i \in 1 .. Len(lists) |-> Placed(lists[i], lists[i].at + HeaderSize)]

\* A plausible bug: the two sizes are in each other's place, and an offset forgets
\* what is before it.
HeaderSwapped(size) ==
    [AuthSize |-> 0, DeAuthSize |-> size % W, AuthOffset |-> HeaderSize, DeAuthOffset |-> HeaderSize]

\* The lists to trust start behind the header, the ones to revoke behind those;
\* of these there are none.  A size is converted to a word.
Header(size) ==
    [AuthSize |-> size % W, DeAuthSize |-> 0,
     AuthOffset |-> HeaderSize, DeAuthOffset |-> (size + HeaderSize) % W]

\* What shim finds at an offset: lists that lie between there and the size.
Found(sec, offset, size) ==
    {i \in 1 .. Len(sec.lists) : /\ sec.lists[i].at >= offset /\ sec.lists[i].size > 0
                                 /\ sec.lists[i].at + sec.lists[i].size <= offset + size}
Trusted(sec) == Found(sec, sec.header.AuthOffset, sec.header.AuthSize)
Revoked(sec) == Found(sec, sec.header.DeAuthOffset, sec.header.DeAuthSize)

Nothing == [header |-> Header(0), lists |-> << >>]

Init ==
    /\ job \in Jobs
    /\ next = 1 /\ step = "load" /\ lost = FALSE /\ result = "none"
    /\ db = << >> /\ section = Nothing /\ vendor = Nothing

-----------------------------------------------------------------------------
(* The lists.                                                              *)

Cert == job.certs[next]
Reads(writer) == step = "load" /\ job.writer = writer /\ next <= Len(job.certs)

\* bkcust only reads key directories (a path alone is refused, of a pair the path
\* is never set), and leaves the owner zero.
LoadDir ==
    /\ Reads("bkcust")
    /\ Cert.form = "keydir" /\ Cert.isPem
    /\ db' = Added(db, ListOf("whole", ListSize(Cert), "zero", Cert.cert))
    /\ next' = next + 1
    /\ UNCHANGED <<job, step, section, vendor, lost, result>>

\* get_guid_cert wants a guid file, cert-to-efi-sig-list makes a list of a
\* certificate; without a guid its owner is zero.
Owner(c) == IF c.form = "pem" THEN "zero" ELSE c.guid
CanMakeList(c) == c.isPem /\ (c.form = "keydir" => c.hasGuid)

\* custbk appends a list to those before it, and nothing asks whether that
\* worked: of a list, nothing or all but the end may be missing.
AddPem ==
    /\ Reads("custbk")
    /\ Len(job.certs) >= 2     \* "at least one pem"
    /\ CanMakeList(Cert)
    /\ \/ /\ db' = Added(db, ListOf("whole", ListSize(Cert), Owner(Cert), Cert.cert))
          /\ UNCHANGED lost
       \/ /\ \E size \in {0, ListSize(Cert) - 1} :
                db' = Added(db, ListOf("torn", size, Owner(Cert), Cert.cert))
          /\ lost' = TRUE
    /\ next' = next + 1
    /\ UNCHANGED <<job, step, section, vendor, result>>

ListsDone ==
    /\ step = "load" /\ next > Len(job.certs)
    /\ job.writer = "custbk" => Len(job.certs) >= 2
    /\ step' = "header"
    /\ UNCHANGED <<job, next, db, section, vendor, lost, result>>

-----------------------------------------------------------------------------
(* The section.                                                            *)

\* Go converts a number to a word, python's pack refuses one that does not fit.
WriteHeader ==
    /\ step = "header"
    /\ job.writer = "custbk" => End(db) + HeaderSize < W
    /\ section' = [header |-> Header(End(db)), lists |-> << >>]
    /\ step' = "lists"
    /\ UNCHANGED <<job, next, db, vendor, lost, result>>

WriteLists ==
    /\ step = "lists"
    /\ section' = [section EXCEPT !.lists = Shifted(db)]
    /\ step' = "objcopy"
    /\ UNCHANGED <<job, next, db, vendor, lost, result>>

\* How a command can end, and the code that Capture has for it.
Ends == {"well", "badly", "killed", "not started"}

\* A plausible bug: the code of a command that could not be started is 0.
RCOfZero(end) == IF end = "badly" THEN 1 ELSE IF end = "killed" THEN -1 ELSE 0

RC(end) == IF end = "well" THEN 0 ELSE IF end = "badly" THEN 1 ELSE -1

\* objcopy replaces the section of the shim: only a code of 0 is no error.  One
\* that fails may leave a shim that no section can be found in.
SetSections ==
    /\ step = "objcopy"
    /\ \E end \in Ends :
          /\ result' = IF RC(end) = 0 THEN "ok" ELSE "error"
          /\ vendor' = IF end = "well" THEN section ELSE Nothing
    /\ step' = "done"
    /\ UNCHANGED <<job, next, db, section, lost>>

\* Every other step is checked: the first that fails ends the program.
StepFails ==
    /\ step # "done"
    /\ step' = "done" /\ result' = "error"
    /\ UNCHANGED <<job, next, db, section, vendor, lost>>

Terminated == step = "done" /\ UNCHANGED vars

Next == \/ LoadDir \/ AddPem \/ ListsDone
        \/ WriteHeader \/ WriteLists \/ SetSections \/ StepFails \/ Terminated

Spec == Init /\ [][Next]_vars

-----------------------------------------------------------------------------
(* Properties.                                                             *)

\* The type invariant: certificates are read one by one, one list for each.
TypeOK ==
    /\ job \in Jobs /\ lost \in BOOLEAN /\ result \in {"none", "ok", "error"}
    /\ step \in {"load", "header", "lists", "objcopy", "done"}
    /\ next \in 1 .. Len(job.certs) + 1 /\ Len(db) = next - 1

\* Whatever fails, wraps around or gets lost, shim trusts nothing that was not
\* asked for: a whole list that it finds is of the certificate that was given at
\* its place.  And it revokes nothing (shim.go:31-58, custbk:218-346).
TrustsNoOther ==
    /\ Revoked(vendor) = {}
    /\ \A i \in Trusted(vendor) : vendor.lists[i].kind = "whole" =>
          i <= Len(job.certs) /\ vendor.lists[i].cert = job.certs[i].cert

\* A program that says it has set the vendor db has set all of it: shim finds
\* every certificate, in the order they were given, and those of custbk with
\* their owner.  Unless an append to the list file was lost, or the lists are
\* too long for the words of the header (bkcust does not ask).
TrustsAll ==
    result = "ok" /\ ~lost /\ End(db) + HeaderSize < W =>
        /\ Trusted(vendor) = 1 .. Len(job.certs)
        /\ \A i \in 1 .. Len(job.certs) :
              /\ vendor.lists[i].cert = job.certs[i].cert
              /\ vendor.lists[i].owner = IF job.writer = "bkcust" THEN "zero" ELSE Owner(job.certs[i])
=============================================================================
