---------------------------- MODULE ShimDBProofs ----------------------------
(* What shim finds is what was asked for, whatever the certificates and      *)
(* however many bytes a word holds.  The invariant: each list ends where the *)
(* next begins, and is of the certificate at its place.                      *)
EXTENDS ShimDB, TLAPS

Certs  == UNION {{j.certs[i].cert : i \in 1 .. Len(j.certs)} : j \in Jobs}
Owners == {"zero"} \cup UNION {{Owner(j.certs[i]) : i \in 1 .. Len(j.certs)} : j \in Jobs}
List   == [at : Nat, kind : {"whole", "torn"}, size : Nat, owner : Owners, cert : Certs]

\* A list lies before the end of all of them.
Contiguous(lists) == \A i \in 1 .. Len(lists) : lists[i].at + lists[i].size <= End(lists)

\* The list at a place is of the certificate at that place.
Right(list, c, writer, torn) ==
    /\ list.cert = c.cert
    /\ list.owner = IF writer = "bkcust" THEN "zero" ELSE Owner(c)
    /\ ~torn => list.size > 0

AllRight(lists) == \A i \in 1 .. Len(lists) : Right(lists[i], job.certs[i], job.writer, lost)

\* The section of a program that has come so far.
IsMade(sec) == sec.header = Header(End(db)) /\ sec.lists = Shifted(db)

IInv ==
    /\ TypeOK
    /\ db \in Seq(List) /\ Contiguous(db) /\ AllRight(db)
    /\ step \in {"header", "lists", "objcopy"} => next = Len(job.certs) + 1
    /\ step = "lists" => section.header = Header(End(db))
    /\ step = "objcopy" => IsMade(section)
    /\ vendor # Nothing => IsMade(vendor)
    /\ step # "done" => result = "none" /\ vendor = Nothing
    /\ result = "ok" => next = Len(job.certs) + 1 /\ IsMade(vendor)

-----------------------------------------------------------------------------
(* Lists.                                                                  *)

LEMMA EndIsNat == ASSUME NEW lists \in Seq(List) PROVE End(lists) \in Nat
<1>1. CASE lists = << >>
  BY <1>1 DEF End
<1>2. CASE lists # << >>
  <2>1. lists[Len(lists)] \in List
    BY <1>2
  <2> QED
    BY <1>2, <2>1 DEF End, List
<1> QED
  BY <1>1, <1>2

\* What adding one does.
AddedTo(lists, all, size, owner, cert) ==
    /\ all \in Seq(List) /\ Contiguous(all)
    /\ Len(all) = Len(lists) + 1
    /\ \A i \in 1 .. Len(lists) : all[i] = lists[i]
    /\ all[Len(all)].cert = cert /\ all[Len(all)].owner = owner /\ all[Len(all)].size = size

LEMMA AddedIsContiguous ==
    ASSUME NEW lists \in Seq(List), Contiguous(lists), NEW kind \in {"whole", "torn"},
           NEW size \in Nat, NEW owner \in Owners, NEW cert \in Certs,
           NEW all, all = Added(lists, ListOf(kind, size, owner, cert))
    PROVE  AddedTo(lists, all, size, owner, cert)
<1> DEFINE new == Placed(ListOf(kind, size, owner, cert), End(lists))
<1>6. all = Append(lists, new)
  BY DEF Added
<1>1. /\ new \in List /\ new.cert = cert /\ new.owner = owner
      /\ new.size = size /\ new.at = End(lists)
  BY EndIsNat DEF Placed, ListOf, List
<1> HIDE DEF new
<1>2. /\ all \in Seq(List) /\ Len(all) = Len(lists) + 1 /\ all[Len(lists) + 1] = new
      /\ \A i \in 1 .. Len(lists) : all[i] = lists[i]
  BY <1>1, <1>6
<1>3. all # << >>
  BY <1>2
<1>4. End(all) = End(lists) + size
  BY <1>1, <1>2, <1>3 DEF End
<1>5. ASSUME NEW i \in 1 .. Len(all) PROVE all[i].at + all[i].size <= End(all)
  <2>1. CASE i = Len(lists) + 1
    BY <1>1, <1>2, <1>4, <2>1, EndIsNat
  <2>2. CASE i # Len(lists) + 1
    <3>1. i \in 1 .. Len(lists)
      BY <1>2, <2>2
    <3>2. all[i] = lists[i] /\ lists[i].at + lists[i].size <= End(lists) /\ lists[i] \in List
      BY <1>2, <3>1 DEF Contiguous
    <3>3. End(lists) \in Nat /\ lists[i].at \in Nat /\ lists[i].size \in Nat
      BY <3>2, EndIsNat DEF List
    <3>4. all[i].at = lists[i].at /\ all[i].size = lists[i].size
      BY <3>2
    <3>5. lists[i].at + lists[i].size <= End(lists) + size
      BY <3>2, <3>3
    <3> QED
      BY <1>4, <3>4, <3>5
  <2> QED
    BY <2>1, <2>2
<1> QED
  BY <1>1, <1>2, <1>5 DEF Contiguous, AddedTo

LEMMA ShiftedLists ==
    ASSUME NEW lists \in Seq(List)
    PROVE  /\ Len(Shifted(lists)) = Len(lists)
           /\ \A i \in 1 .. Len(lists) :
                 /\ Shifted(lists)[i].at = lists[i].at + HeaderSize
                 /\ Shifted(lists)[i].size = lists[i].size
                 /\ Shifted(lists)[i].kind = lists[i].kind
                 /\ Shifted(lists)[i].owner = lists[i].owner
                 /\ Shifted(lists)[i].cert = lists[i].cert
<1>1. Len(lists) \in Nat
  OBVIOUS
<1>2. Len(Shifted(lists)) = Len(lists)
  BY <1>1 DEF Shifted
<1> QED
  BY <1>2 DEF Shifted, Placed

-----------------------------------------------------------------------------
(* The invariant.                                                          *)

LEMMA InitIInv == Init => IInv
<1> SUFFICES ASSUME Init PROVE IInv
  OBVIOUS
<1>1. job \in Jobs /\ Len(job.certs) \in Nat
  BY ShimDBAssumption DEF Init
<1>2. next = 1 /\ Len(db) = 0 /\ next \in 1 .. Len(job.certs) + 1
  BY <1>1 DEF Init
<1>5. lost \in BOOLEAN
  BY DEF Init
<1>4. TypeOK
  BY <1>1, <1>2, <1>5 DEF Init, TypeOK
<1>3. db \in Seq(List) /\ Contiguous(db) /\ AllRight(db)
  BY DEF Init, Contiguous, AllRight
<1> QED
  BY <1>3, <1>4 DEF Init, IInv

\* A certificate of the job is one of all of them, and so is its owner.
LEMMA CertsOfJob ==
    ASSUME TypeOK, NEW i \in 1 .. Len(job.certs)
    PROVE  /\ job.certs[i].cert \in Certs /\ Owner(job.certs[i]) \in Owners /\ "zero" \in Owners
           /\ ListSize(job.certs[i]) \in Nat /\ ListSize(job.certs[i]) > 1
           /\ job.writer \in {"bkcust", "custbk"}
<1>1. job \in Jobs
  BY DEF TypeOK
<1>2. job.certs[i].size \in Nat
  BY <1>1, ShimDBAssumption
<1>3. ListSize(job.certs[i]) \in Nat /\ ListSize(job.certs[i]) > 1
  BY <1>2 DEF ListSize
<1>4. job.certs[i].cert \in Certs
  BY <1>1 DEF Certs
<1>5. Owner(job.certs[i]) \in Owners /\ "zero" \in Owners
  BY <1>1 DEF Owners
<1> QED
  BY <1>1, <1>3, <1>4, <1>5, ShimDBAssumption

\* One more list, for the certificate that is read.
LEMMA StepAdds ==
    ASSUME IInv, step = "load", next <= Len(job.certs),
           NEW kind \in {"whole", "torn"}, NEW size \in Nat, NEW owner \in Owners,
           owner = IF job.writer = "bkcust" THEN "zero" ELSE Owner(Cert),
           db' = Added(db, ListOf(kind, size, owner, Cert.cert)),
           lost' \in BOOLEAN, lost => lost', ~lost' => size > 0, next' = next + 1,
           UNCHANGED <<job, step, section, vendor, result>>
    PROVE  IInv'
<1>1. /\ next \in 1 .. Len(job.certs) /\ Len(db) = next - 1 /\ Len(job.certs) \in Nat
      /\ db \in Seq(List) /\ Contiguous(db) /\ AllRight(db) /\ TypeOK
  BY ShimDBAssumption DEF IInv, TypeOK
<1>2. Cert.cert \in Certs
  BY <1>1, CertsOfJob DEF Cert
<1>3. /\ db' \in Seq(List) /\ Contiguous(db') /\ Len(db') = next
      /\ \A i \in 1 .. Len(db) : db'[i] = db[i]
      /\ db'[next].cert = Cert.cert /\ db'[next].owner = owner /\ db'[next].size = size
  <2>1. /\ db' \in Seq(List) /\ Contiguous(db') /\ Len(db') = Len(db) + 1
        /\ \A i \in 1 .. Len(db) : db'[i] = db[i]
        /\ db'[Len(db')].cert = Cert.cert /\ db'[Len(db')].owner = owner /\ db'[Len(db')].size = size
    <3>1. AddedTo(db, db', size, owner, Cert.cert)
      BY <1>1, <1>2, AddedIsContiguous
    <3> QED
      BY <3>1 DEF AddedTo
  <2>2. Len(db') = next
    BY <1>1, <2>1
  <2> QED
    BY <2>1, <2>2
<1>4. ASSUME NEW i \in 1 .. Len(db') PROVE Right(db'[i], job.certs[i], job.writer, lost')
  <2>1. CASE i = next
    BY <1>3, <2>1 DEF Right, Cert
  <2>2. CASE i # next
    <3>1. i \in 1 .. Len(db) /\ db'[i] = db[i]
      BY <1>1, <1>3, <2>2
    <3>2. Right(db[i], job.certs[i], job.writer, lost)
      BY <1>1, <3>1 DEF AllRight
    <3> QED
      BY <3>1, <3>2 DEF Right
  <2> QED
    BY <2>1, <2>2
<1>5. AllRight(db)'
  BY <1>4 DEF AllRight
<1>6. TypeOK'
  BY <1>1, <1>3 DEF TypeOK
<1>7. vendor = Nothing /\ result = "none"
  BY DEF IInv
<1>8. Nothing' = Nothing
  BY DEF Nothing, Header
<1> QED
  BY <1>3, <1>5, <1>6, <1>7, <1>8 DEF IInv, Contiguous

LEMMA StepLoadDir == ASSUME IInv, LoadDir PROVE IInv'
<1>1. TypeOK /\ next \in 1 .. Len(job.certs) /\ step = "load" /\ job.writer = "bkcust"
  BY ShimDBAssumption DEF IInv, TypeOK, LoadDir, Reads
<1>2. ListSize(Cert) \in Nat /\ ListSize(Cert) > 1 /\ "zero" \in Owners
  BY <1>1, CertsOfJob DEF Cert
<1> QED
  BY <1>1, <1>2, StepAdds DEF LoadDir, TypeOK

LEMMA StepAddPem == ASSUME IInv, AddPem PROVE IInv'
<1>1. TypeOK /\ next \in 1 .. Len(job.certs) /\ step = "load" /\ job.writer = "custbk"
  BY ShimDBAssumption DEF IInv, TypeOK, AddPem, Reads
<1>2. ListSize(Cert) \in Nat /\ ListSize(Cert) > 1 /\ Owner(Cert) \in Owners
  BY <1>1, CertsOfJob DEF Cert
<1>3. CASE db' = Added(db, ListOf("whole", ListSize(Cert), Owner(Cert), Cert.cert)) /\ lost' = lost
  BY <1>1, <1>2, <1>3, StepAdds DEF AddPem, TypeOK
<1>4. CASE /\ lost' = TRUE
           /\ \E size \in {0, ListSize(Cert) - 1} :
                  db' = Added(db, ListOf("torn", size, Owner(Cert), Cert.cert))
  <2>1. PICK size \in {0, ListSize(Cert) - 1} :
             db' = Added(db, ListOf("torn", size, Owner(Cert), Cert.cert))
    BY <1>4
  <2>2. size \in Nat
    BY <1>2
  <2> QED
    BY <1>1, <1>2, <1>4, <2>1, <2>2, StepAdds DEF AddPem, TypeOK
<1> QED
  BY <1>3, <1>4 DEF AddPem

\* The lists are as they were; the section and the shim change.
LEMMA ListsSame ==
    ASSUME IInv, UNCHANGED <<job, next, db, lost>>,
           step' \in {"header", "lists", "objcopy", "done"}, result' \in {"none", "ok", "error"}
    PROVE  /\ TypeOK' /\ db' \in Seq(List) /\ Contiguous(db)' /\ AllRight(db)'
           /\ Nothing' = Nothing /\ Header(End(db))' = Header(End(db))
           /\ \A sec : IsMade(sec) => sec.header = Header(End(db')) /\ sec.lists = Shifted(db')
<1>1. TypeOK'
  BY DEF IInv, TypeOK
<1>2. db' \in Seq(List) /\ Contiguous(db)'
  BY DEF IInv, Contiguous
<1>3. AllRight(db)'
  BY DEF IInv, AllRight
<1>4. Nothing' = Nothing /\ Header(End(db))' = Header(End(db))
  BY DEF Nothing, Header
<1> QED
  BY <1>1, <1>2, <1>3, <1>4 DEF IsMade

LEMMA StepRest ==
    ASSUME IInv, ListsDone \/ WriteHeader \/ WriteLists \/ SetSections \/ StepFails
    PROVE  IInv'
<1>1. CASE ListsDone
  <2>1. next = Len(job.certs) + 1
    BY <1>1, ShimDBAssumption DEF IInv, TypeOK, ListsDone
  <2> QED
    BY <1>1, <2>1, ListsSame DEF IInv, TypeOK, ListsDone
<1>2. CASE WriteHeader
  <2>1. section'.header = Header(End(db))
    BY <1>2 DEF WriteHeader
  <2> QED
    BY <1>2, <2>1, ListsSame DEF IInv, TypeOK, WriteHeader
<1>3. CASE WriteLists
  <2>1. step = "lists" /\ section.header = Header(End(db))
    BY <1>3 DEF IInv, WriteLists
  <2>2. section'.header = Header(End(db)) /\ section'.lists = Shifted(db)
    BY <1>3, <2>1 DEF WriteLists
  <2> QED
    BY <1>3, <2>2, ListsSame DEF IInv, TypeOK, WriteLists, IsMade
<1>4. CASE SetSections
  <2>1. PICK end \in Ends : /\ result' = IF RC(end) = 0 THEN "ok" ELSE "error"
                            /\ vendor' = IF end = "well" THEN section ELSE Nothing
    BY <1>4 DEF SetSections
  <2>2. result' = "ok" => end = "well"
    <3>1. end # "well" => RC(end) # 0
      BY DEF RC
    <3> QED
      BY <2>1, <3>1
  <2>3. IsMade(section) /\ next = Len(job.certs) + 1
    BY <1>4 DEF IInv, SetSections
  <2>4. step' = "done" /\ UNCHANGED <<job, next, db, section, lost>>
    BY <1>4 DEF SetSections
  <2>5. vendor' # Nothing => IsMade(vendor')
    BY <2>1, <2>3
  <2>6. result' = "ok" => IsMade(vendor')
    BY <2>1, <2>2, <2>3
  <2>7. result' \in {"ok", "error"}
    BY <2>1
  <2> QED
    BY <2>3, <2>4, <2>5, <2>6, <2>7, ListsSame DEF IInv, IsMade
<1>5. CASE StepFails
  <2>1. vendor' = Nothing /\ step' = "done" /\ result' = "error"
    BY <1>5 DEF IInv, StepFails
  <2> QED
    BY <1>5, <2>1, ListsSame DEF StepFails, IInv
<1> QED
  BY <1>1, <1>2, <1>3, <1>4, <1>5

LEMMA NextIInv == IInv /\ [Next]_vars => IInv'
<1> SUFFICES ASSUME IInv, [Next]_vars PROVE IInv'
  OBVIOUS
<1>1. CASE UNCHANGED vars
  <2>1. Nothing' = Nothing
    BY DEF Nothing, Header
  <2> QED
    BY <1>1, <2>1 DEF vars, IInv, TypeOK, Contiguous, AllRight, IsMade, Header
<1>2. CASE Next
  BY <1>1, <1>2, StepLoadDir, StepAddPem, StepRest DEF Next, Terminated
<1> QED
  BY <1>1, <1>2

-----------------------------------------------------------------------------
(* The theorems.                                                           *)

\* The inductive invariant: list by list, the file of custbk, the buffer of
\* bkcust and the section made of either are those of the certificates read.
THEOREM Invariance == Spec => []IInv
<1> QED
  BY InitIInv, NextIInv, PTL DEF Spec

\* Certificates are read one by one, one list for each (build_esl, doSetDB).
THEOREM TypeCorrect == Spec => []TypeOK
<1>1. IInv => TypeOK
  BY DEF IInv
<1> QED
  BY <1>1, Invariance, PTL

\* The lists of a section that was made.
LEMMA MadeLists ==
    ASSUME IInv, NEW sec, IsMade(sec)
    PROVE  /\ Len(sec.lists) = next - 1 /\ next - 1 \in 0 .. Len(job.certs)
           /\ \A i \in 1 .. Len(sec.lists) :
                 /\ Right(sec.lists[i], job.certs[i], job.writer, lost)
                 /\ sec.lists[i].at \in Nat /\ sec.lists[i].at >= HeaderSize /\ sec.lists[i].size \in Nat
                 /\ sec.lists[i].at + sec.lists[i].size <= End(db) + HeaderSize
<1>1. db \in Seq(List) /\ Contiguous(db) /\ AllRight(db) /\ TypeOK /\ sec.lists = Shifted(db)
  BY DEF IInv, IsMade
<1>2. Len(db) = next - 1 /\ next \in 1 .. Len(job.certs) + 1 /\ Len(job.certs) \in Nat
  BY <1>1, ShimDBAssumption DEF TypeOK
<1>3. Len(sec.lists) = Len(db)
  BY <1>1, ShiftedLists
<1>4. ASSUME NEW i \in 1 .. Len(sec.lists)
      PROVE  /\ Right(sec.lists[i], job.certs[i], job.writer, lost)
             /\ sec.lists[i].at \in Nat /\ sec.lists[i].at >= HeaderSize /\ sec.lists[i].size \in Nat
             /\ sec.lists[i].at + sec.lists[i].size <= End(db) + HeaderSize
  <2>1. /\ sec.lists[i].at = db[i].at + HeaderSize /\ sec.lists[i].size = db[i].size
        /\ sec.lists[i].owner = db[i].owner /\ sec.lists[i].cert = db[i].cert
    BY <1>1, <1>3, ShiftedLists
  <2>2. db[i] \in List
    BY <1>1, <1>3
  <2>3. db[i].at \in Nat /\ db[i].size \in Nat /\ End(db) \in Nat /\ HeaderSize \in Nat
    BY <1>1, <2>2, EndIsNat DEF List, HeaderSize
  <2>4. Right(db[i], job.certs[i], job.writer, lost) /\ db[i].at + db[i].size <= End(db)
    BY <1>1, <1>3 DEF AllRight, Contiguous
  <2>5. Right(sec.lists[i], job.certs[i], job.writer, lost)
    BY <2>1, <2>4 DEF Right
  <2> QED
    BY <2>1, <2>3, <2>4, <2>5
<1> QED
  BY <1>2, <1>3, <1>4

\* Whatever fails, wraps around or gets lost, shim trusts no certificate that
\* was not given, and revokes none (shim.go:31-58, custbk:218-346).
THEOREM OnlyWhatWasAsked == Spec => []TrustsNoOther
<1>1. ASSUME IInv PROVE TrustsNoOther
  <2>1. CASE vendor = Nothing
    BY <2>1 DEF Nothing, TrustsNoOther, Revoked, Trusted, Found
  <2>2. CASE vendor # Nothing
    <3>1. IsMade(vendor)
      BY <1>1, <2>2 DEF IInv
    <3>2. vendor.header = Header(End(db))
      BY <3>1 DEF IsMade
    <3>3. (End(db) + HeaderSize) % W \in Nat
      BY <1>1, EndIsNat, ShimDBAssumption DEF IInv, HeaderSize
    <3>4. Revoked(vendor) = {}
      BY <1>1, <3>1, <3>2, <3>3, MadeLists DEF Revoked, Found, Header
    <3>5. ASSUME NEW i \in Trusted(vendor)
          PROVE  i <= Len(job.certs) /\ vendor.lists[i].cert = job.certs[i].cert
      <4>1. i \in 1 .. Len(vendor.lists)
        BY DEF Trusted, Found
      <4> QED
        BY <1>1, <3>1, <4>1, MadeLists DEF Right
    <3> QED
      BY <3>4, <3>5 DEF TrustsNoOther
  <2> QED
    BY <2>1, <2>2
<1> QED
  BY <1>1, Invariance, PTL

LEMMA Fits == ASSUME NEW n \in Nat, NEW w \in Nat, n < w PROVE n % w = n
  OBVIOUS

\* A program that says it has set the vendor db has set all of it, for any
\* number of certificates of any sizes that fit (shim.go:31-93, custbk:218-346).
THEOREM AllThatWasAsked == Spec => []TrustsAll
<1>1. ASSUME IInv PROVE TrustsAll
  <2> SUFFICES ASSUME result = "ok", ~lost, End(db) + HeaderSize < W
               PROVE  /\ Trusted(vendor) = 1 .. Len(job.certs)
                      /\ \A i \in 1 .. Len(job.certs) :
                            /\ vendor.lists[i].cert = job.certs[i].cert
                            /\ vendor.lists[i].owner =
                                  IF job.writer = "bkcust" THEN "zero" ELSE Owner(job.certs[i])
    BY DEF TrustsAll
  <2>1. IsMade(vendor) /\ next = Len(job.certs) + 1 /\ Len(job.certs) \in Nat
    BY <1>1, ShimDBAssumption DEF IInv, TypeOK
  <2>2. Len(vendor.lists) = Len(job.certs)
    BY <1>1, <2>1, MadeLists
  <2>3. End(db) \in Nat /\ W \in Nat
    BY <1>1, EndIsNat, ShimDBAssumption DEF IInv
  <2>4. End(db) % W = End(db)
    <3>1. End(db) < W
      BY <2>3 DEF HeaderSize
    <3> QED
      BY <2>3, <3>1, Fits
  <2>5. vendor.header.AuthSize = End(db) /\ vendor.header.AuthOffset = HeaderSize
    BY <2>1, <2>4 DEF IsMade, Header
  <2>6. \A i \in 1 .. Len(vendor.lists) :
           /\ Right(vendor.lists[i], job.certs[i], job.writer, lost)
           /\ vendor.lists[i].at >= HeaderSize /\ vendor.lists[i].size \in Nat
           /\ vendor.lists[i].at + vendor.lists[i].size <= HeaderSize + End(db)
    BY <1>1, <2>1, <2>3, MadeLists DEF HeaderSize
  <2>7. \A i \in 1 .. Len(vendor.lists) : vendor.lists[i].size > 0
    BY <2>6 DEF Right
  <2>8. Trusted(vendor) = 1 .. Len(vendor.lists)
    BY <2>5, <2>6, <2>7 DEF Trusted, Found
  <2> QED
    BY <2>2, <2>6, <2>8 DEF Right
<1> QED
  BY <1>1, Invariance, PTL
=============================================================================
