------------------------- MODULE KernelLayerProofs -------------------------
(* The kernel layers hand on what is of one kernel and whole, and a try of   *)
(* build-initrd that went well is new: for any number of tries, of kernels   *)
(* and of packages.                                                          *)
EXTENDS KernelLayer, FiniteSetTheorems, TLAPS

-----------------------------------------------------------------------------
(* The invariant of build-initrd.                                          *)

Files  == [name : Names, gz : BOOLEAN]

\* Made by this try, compressed or not yet.
IsMade(name) ==
    \/ Cpio(name) \in DOMAIN out /\ out[Cpio(name)] = Archive(TRUE)
    \/ CpioGz(name) \in DOMAIN out /\ out[CpioGz(name)] = Archive(TRUE)

\* The try wrote it itself, whole or not.
IsOwn(name) ==
    \/ Cpio(name) \in DOMAIN out /\ out[Cpio(name)].try = try
    \/ CpioGz(name) \in DOMAIN out /\ out[CpioGz(name)].try = try

\* The modules are behind, and the firmware, and the core.
PastModules == \/ step \in {"firmware", "compress"}
               \/ step = "next" /\ mode = "modules"
               \/ step \in {"rm", "dracut", "check", "mv", "next"} /\ mode = "core"
PastFirmware == PastModules /\ step # "firmware"
PastCore    == step = "compress" \/ (step = "next" /\ mode = "core")

BuildTypes ==
    /\ job \in Jobs /\ try \in 1 .. job.tries
    /\ step \in {"begin", "rm", "dracut", "check", "modules", "firmware", "mv", "next", "compress",
                 "done"}
    /\ mode \in {"none", "modules", "core"} /\ result \in {"none", "ok", "error"}
    /\ DOMAIN boot = {"initrd", "initramfs"} /\ boot = [f \in DOMAIN boot |-> boot[f]]
    /\ \A f \in DOMAIN out : f \in Files /\ f.name \in Asked /\ out[f].try \in 1 .. try

\* Only an image of this try is taken, and it is taken away.
TakesOwn ==
    /\ step = "dracut" => boot = NoBoot
    /\ step = "check"  => \A f \in DOMAIN boot : boot[f] = NoImage \/ boot[f].try = try
    /\ step \in {"modules", "firmware", "mv", "next"} => boot = NoBoot
    /\ step = "compress" => boot = NoBoot \/ mode = "none"
    /\ step \in {"modules", "firmware", "mv"} => img.try = try

Modes ==
    /\ step \in {"modules", "firmware"} => mode = "modules"
    /\ step = "mv" => mode = "core"
    /\ step \in {"rm", "dracut", "check", "next"} => mode # "none"
    /\ step \notin {"begin", "done"} =>
          /\ mode = "none" <=> ~Wants("modules") /\ ~Wants("core")
          /\ mode = "modules" => Wants("modules")
          /\ mode = "core" => Wants("core")
          /\ step = "compress" /\ mode = "modules" => ~Wants("core")

\* A result is only there at the end of a try, and a good one says what it says.
MakesAll ==
    /\ result # "none" <=> step = "done"
    /\ PastModules /\ Wants("modules") => IsOwn("modules") /\ (IsMade("modules") \/ "modules" \in missed)
    /\ PastFirmware /\ Wants("modules") => IsMade("firmware") \/ "firmware" \in missed
    /\ PastCore /\ Wants("core") => IsMade("core") \/ "core" \in missed
    /\ result = "ok" => BuiltIsNew
    /\ step # "begin" /\ result # "error" /\ Wants("modules") => Cardinality(job.kernels) = 1

\* The first try finds an empty directory: whatever is torn in it is what it missed.
FirstIsWhole ==
    try = 1 => /\ step = "begin" => DOMAIN out = {}
               /\ result # "error" => \A f \in DOMAIN out : out[f].whole = TRUE \/ f.name \in missed

BInv == BuildTypes /\ TakesOwn /\ Modes /\ MakesAll /\ FirstIsWhole

LEMMA InitBInv == BuildInit => BInv
<1> SUFFICES ASSUME BuildInit PROVE BInv
  OBVIOUS
<1>1. job.tries \in Nat \ {0}
  BY KernelLayerAssumption DEF BuildInit
<1>2. DOMAIN boot = {"initrd", "initramfs"} /\ boot = [f \in DOMAIN boot |-> boot[f]]
  BY DEF BuildInit, NoBoot
<1>3. BuildTypes
  BY <1>1, <1>2 DEF BuildInit, BuildTypes
<1>4. TakesOwn /\ Modes /\ MakesAll /\ FirstIsWhole
  BY DEF BuildInit, TakesOwn, Modes, MakesAll, FirstIsWhole, PastModules, PastFirmware, PastCore
<1> QED
  BY <1>3, <1>4 DEF BInv

LEMMA PutKeeps ==
    ASSUME NEW s, NEW f, NEW a, NEW g \in DOMAIN s, g # f
    PROVE  g \in DOMAIN Put(s, f, a) /\ Put(s, f, a)[g] = s[g]
  BY DEF Put

LEMMA PutGets == ASSUME NEW s, NEW f, NEW a PROVE f \in DOMAIN Put(s, f, a) /\ Put(s, f, a)[f] = a
  BY DEF Put

\* Writing one archive leaves the others made.
LEMMA MadeStays ==
    ASSUME NEW name, IsMade(name), NEW n, n # name, NEW a,
           out' = Put(out, Cpio(n), a), try' = try
    PROVE  IsMade(name)'
<1>1. Cpio(name) # Cpio(n) /\ CpioGz(name) # Cpio(n)
  BY DEF Cpio, CpioGz
<1> QED
  BY <1>1, PutKeeps DEF IsMade, Archive

LEMMA OwnStays ==
    ASSUME NEW name, IsOwn(name), NEW n, n # name, NEW a,
           out' = Put(out, Cpio(n), a), try' = try
    PROVE  IsOwn(name)'
<1>1. Cpio(name) # Cpio(n) /\ CpioGz(name) # Cpio(n)
  BY DEF Cpio, CpioGz
<1> QED
  BY <1>1, PutKeeps DEF IsOwn

LEMMA MadeNow ==
    ASSUME NEW name, out' = Put(out, Cpio(name), Archive(TRUE)), try' = try
    PROVE  IsMade(name)'
  BY PutGets DEF IsMade, Archive

\* An archive of the current try is written: types and wholeness stay.
LEMMA PutTypes ==
    ASSUME BuildTypes, NEW name \in Names \cap Asked, NEW whole \in BOOLEAN,
           out' = Put(out, Cpio(name), Archive(whole)), try' = try
    PROVE  \A f \in DOMAIN out' : f \in Files /\ f.name \in Asked /\ out'[f].try \in 1 .. try
<1>1. Cpio(name) \in Files /\ Cpio(name).name = name /\ Archive(whole).try = try
  BY DEF Files, Cpio, Archive
<1>2. try \in 1 .. try
  BY KernelLayerAssumption DEF BuildTypes
<1> QED
  BY <1>1, <1>2 DEF BuildTypes, Put

-----------------------------------------------------------------------------
(* The steps of build-initrd.                                              *)

LEMMA StepBuildBegin == ASSUME BInv, BuildBegin PROVE BInv'
<1> USE DEF BInv, BuildBegin, Goto
<1>1. BuildTypes'
  BY DEF BuildTypes, Asked, Wants
<1>2. TakesOwn'
  BY DEF TakesOwn, Modes, BuildTypes
<1>3. Modes'
  BY DEF Modes, Wants
<1>4. MakesAll'
  BY DEF MakesAll, PastModules, PastFirmware, PastCore, Wants
<1>5. FirstIsWhole'
  BY DEF FirstIsWhole
<1> QED
  BY <1>1, <1>2, <1>3, <1>4, <1>5

LEMMA StepRemoveOld == ASSUME BInv, RemoveOld PROVE BInv'
<1> USE DEF BInv, RemoveOld, Goto
<1>1. BuildTypes'
  BY DEF BuildTypes, Asked, Wants, NoBoot
<1>2. TakesOwn'
  BY DEF TakesOwn
<1>3. Modes'
  BY DEF Modes, Wants
<1>4. MakesAll'
  BY DEF MakesAll, PastModules, PastFirmware, PastCore, Wants, IsMade, IsOwn, Archive
<1>5. FirstIsWhole'
  BY DEF FirstIsWhole
<1> QED
  BY <1>1, <1>2, <1>3, <1>4, <1>5

LEMMA StepRunDracut == ASSUME BInv, RunDracut PROVE BInv'
<1> USE DEF BInv, RunDracut, Goto
<1>1. BuildTypes'
  BY DEF BuildTypes, Asked, Wants
<1>2. TakesOwn'
  BY DEF TakesOwn, NoBoot, Image
<1>3. Modes'
  BY DEF Modes, Wants
<1>4. MakesAll'
  BY DEF MakesAll, PastModules, PastFirmware, PastCore, Wants, IsMade, IsOwn, Archive
<1>5. FirstIsWhole'
  BY DEF FirstIsWhole
<1> QED
  BY <1>1, <1>2, <1>3, <1>4, <1>5

LEMMA StepCheckImage == ASSUME BInv, CheckImage PROVE BInv'
<1> USE DEF BInv, CheckImage, Goto
<1>1. BuildTypes'
  BY DEF BuildTypes, Asked, Wants, NoBoot
<1>2. TakesOwn'
  BY DEF TakesOwn, BuildTypes
<1>3. Modes'
  BY DEF Modes, Wants, BuildTypes
<1>4. MakesAll'
  BY DEF MakesAll, PastModules, PastFirmware, PastCore, Wants, IsMade, IsOwn, Archive, Modes, BuildTypes
<1>5. FirstIsWhole'
  BY DEF FirstIsWhole
<1> QED
  BY <1>1, <1>2, <1>3, <1>4, <1>5

LEMMA WrittenIsOwn ==
    ASSUME img.try = try, NEW whole PROVE [Archive(whole) EXCEPT !.try = img.try] = Archive(whole)
<1> DEFINE a == Archive(whole)
<1>1. a = [f \in DOMAIN a |-> a[f]] /\ DOMAIN a = {"try", "whole"} /\ a.try = try
  BY DEF Archive
<1> HIDE DEF a
<1>2. [a EXCEPT !.try = img.try] = a
  BY <1>1
<1> QED
  BY <1>2 DEF a

LEMMA StepWriteModules == ASSUME BInv, WriteModules PROVE BInv'
<1> USE DEF BInv, Goto
<1>1. step = "modules" /\ mode = "modules" /\ try' = try /\ job' = job /\ Wants("modules")
      /\ result = "none" /\ result' = "none" /\ mode' = mode /\ boot' = boot /\ img' = img
      /\ step' \in {"firmware", "next"} /\ (step' = "next" <=> img.parts # 2)
  BY DEF WriteModules, Modes, MakesAll
<1>2. PICK whole \in BOOLEAN :
          /\ whole \/ img.parts = 2
          /\ out' = Put(out, Cpio("modules"), Archive(whole))
          /\ missed' = missed \cup (IF whole THEN {} ELSE {"modules"})
                              \cup (IF img.parts = 1 THEN {"firmware"} ELSE {})
  BY WrittenIsOwn DEF WriteModules, TakesOwn
<1>3. img.parts = 1 \/ img.parts = 2
  BY DEF WriteModules
<1>4. BuildTypes'
  <2>1. \A f \in DOMAIN out' : f \in Files /\ f.name \in Asked /\ out'[f].try \in 1 .. try
    BY <1>1, <1>2, PutTypes DEF Names, Asked
  <2> QED
    BY <1>1, <2>1 DEF BuildTypes, Files, Asked, Wants
<1>5. TakesOwn'
  BY <1>1 DEF TakesOwn
<1>6. Modes'
  BY <1>1 DEF Modes, Wants
<1>7. MakesAll'
  <2>1. IsMade("modules")' \/ "modules" \in missed'
    BY <1>1, <1>2, MadeNow
  <2>2. IsOwn("modules")'
    BY <1>1, <1>2, PutGets DEF IsOwn, Archive
  <2>3. PastFirmware' => "firmware" \in missed'
    BY <1>1, <1>2, <1>3 DEF PastFirmware
  <2>4. Cardinality(job.kernels) = 1
    BY <1>1 DEF MakesAll
  <2> QED
    BY <1>1, <2>1, <2>2, <2>3, <2>4 DEF MakesAll, PastCore, Wants
<1>8. FirstIsWhole'
  <2>1. Cpio("modules").name = "modules" /\ Archive(whole).whole = whole
    BY DEF Cpio, Archive
  <2>2. \A f \in DOMAIN out' : \/ f \in DOMAIN out /\ out'[f] = out[f]
                               \/ f = Cpio("modules") /\ out'[f] = Archive(whole)
    BY <1>2 DEF Put
  <2> QED
    BY <1>1, <1>2, <2>1, <2>2 DEF FirstIsWhole
<1> QED
  BY <1>4, <1>5, <1>6, <1>7, <1>8

LEMMA StepWriteFirmware == ASSUME BInv, WriteFirmware PROVE BInv'
<1> USE DEF BInv, Goto
<1>1. step = "firmware" /\ mode = "modules" /\ try' = try /\ job' = job /\ Wants("modules")
      /\ result = "none" /\ result' = "none" /\ mode' = mode /\ boot' = boot /\ img' = img
      /\ step' = "next" /\ missed' = missed
      /\ out' = Put(out, Cpio("firmware"), Archive(TRUE))
  BY WrittenIsOwn DEF WriteFirmware, Modes, MakesAll, TakesOwn
<1>2. BuildTypes'
  <2>1. \A f \in DOMAIN out' : f \in Files /\ f.name \in Asked /\ out'[f].try \in 1 .. try
    BY <1>1, PutTypes DEF Names, Asked
  <2> QED
    BY <1>1, <2>1 DEF BuildTypes, Files, Asked, Wants
<1>3. TakesOwn'
  BY <1>1 DEF TakesOwn
<1>4. Modes'
  BY <1>1 DEF Modes, Wants
<1>5. MakesAll'
  <2>1. IsOwn("modules")' /\ (IsMade("modules")' \/ "modules" \in missed')
    BY <1>1, MadeStays, OwnStays DEF MakesAll, PastModules
  <2>2. IsMade("firmware")'
    BY <1>1, MadeNow
  <2>3. Cardinality(job.kernels) = 1
    BY <1>1 DEF MakesAll
  <2> QED
    BY <1>1, <2>1, <2>2, <2>3 DEF MakesAll, PastCore, Wants
<1>6. FirstIsWhole'
  BY <1>1 DEF FirstIsWhole, Put, Archive
<1> QED
  BY <1>2, <1>3, <1>4, <1>5, <1>6

LEMMA StepMoveCore == ASSUME BInv, MoveCore PROVE BInv'
<1> USE DEF BInv, Goto
<1>1. step = "mv" /\ mode = "core" /\ try' = try /\ job' = job /\ Wants("core")
      /\ result = "none" /\ result' = "none" /\ mode' = mode /\ boot' = boot /\ img' = img
      /\ step' = "next"
  BY DEF MoveCore, Modes, MakesAll, Wants, BuildTypes
<1>2. /\ missed \subseteq missed'
      /\ \/ out' = Put(out, Cpio("core"), Archive(TRUE))
         \/ out' = out /\ "core" \in missed'
         \/ out' = Put(out, Cpio("core"), Archive(FALSE)) /\ "core" \in missed'
  BY WrittenIsOwn DEF MoveCore, TakesOwn
<1>3. BuildTypes'
  <2>1. \A f \in DOMAIN out' : f \in Files /\ f.name \in Asked /\ out'[f].try \in 1 .. try
    <3>1. CASE out' = out
      BY <3>1 DEF BuildTypes
    <3>2. ASSUME NEW whole \in BOOLEAN, out' = Put(out, Cpio("core"), Archive(whole))
          PROVE  \A f \in DOMAIN out' : f \in Files /\ f.name \in Asked /\ out'[f].try \in 1 .. try
      BY <1>1, <3>2, PutTypes DEF Names, Asked
    <3> QED
      BY <1>2, <3>1, <3>2
  <2> QED
    BY <1>1, <2>1 DEF BuildTypes, Files, Asked, Wants
<1>4. TakesOwn'
  BY <1>1 DEF TakesOwn
<1>5. Modes'
  BY <1>1 DEF Modes, Wants
<1>6. MakesAll'
  <2>1. ASSUME NEW name, name # "core", IsMade(name) PROVE IsMade(name)'
    <3>1. CASE out' = out
      BY <1>1, <2>1, <3>1 DEF IsMade, Archive
    <3> QED
      BY <1>1, <1>2, <2>1, <3>1, MadeStays
  <2>2. ASSUME IsOwn("modules") PROVE IsOwn("modules")'
    <3>1. CASE out' = out
      BY <1>1, <2>2, <3>1 DEF IsOwn
    <3> QED
      BY <1>1, <1>2, <2>2, <3>1, OwnStays
  <2>3. IsMade("core")' \/ "core" \in missed'
    BY <1>1, <1>2, MadeNow
  <2>4. Wants("modules") => /\ IsOwn("modules") /\ (IsMade("modules") \/ "modules" \in missed)
                            /\ IsMade("firmware") \/ "firmware" \in missed
                            /\ Cardinality(job.kernels) = 1
    BY <1>1 DEF MakesAll, PastModules, PastFirmware
  <2>5. Wants("modules") => /\ IsOwn("modules")' /\ (IsMade("modules")' \/ "modules" \in missed')
                            /\ IsMade("firmware")' \/ "firmware" \in missed'
    BY <1>2, <2>1, <2>2, <2>4
  <2> QED
    BY <1>1, <2>3, <2>4, <2>5 DEF MakesAll, Wants
<1>7. FirstIsWhole'
  <2>1. Cpio("core").name = "core" /\ Archive(TRUE).whole = TRUE
    BY DEF Cpio, Archive
  <2>2. \A f \in DOMAIN out' : \/ f \in DOMAIN out /\ out'[f] = out[f]
                               \/ f = Cpio("core") /\ (out'[f] = Archive(TRUE) \/ "core" \in missed')
    BY <1>2 DEF Put
  <2> QED
    BY <1>1, <1>2, <2>1, <2>2 DEF FirstIsWhole
<1> QED
  BY <1>3, <1>4, <1>5, <1>6, <1>7

LEMMA StepNextMode == ASSUME BInv, NextMode PROVE BInv'
<1> USE DEF BInv, NextMode, Goto
<1>1. BuildTypes'
  BY DEF BuildTypes, Asked, Wants
<1>2. TakesOwn'
  BY DEF TakesOwn
<1>3. Modes'
  BY DEF Modes, Wants, BuildTypes
<1>4. MakesAll'
  BY DEF MakesAll, PastModules, PastFirmware, PastCore, Wants, IsMade, IsOwn, Archive, Modes, BuildTypes
<1>5. FirstIsWhole'
  BY DEF FirstIsWhole
<1> QED
  BY <1>1, <1>2, <1>3, <1>4, <1>5

LEMMA StepCompress == ASSUME BInv, Compress PROVE BInv'
<1> USE DEF BInv
<1>1. PICK f \in DOMAIN out :
          /\ ~f.gz /\ CpioGz(f.name) \notin DOMAIN out
          /\ out' = [g \in (DOMAIN out \ {f}) \cup {CpioGz(f.name)} |->
                        IF g = CpioGz(f.name) THEN out[f] ELSE out[g]]
  BY DEF Compress
<1>2. UNCHANGED <<job, try, mode, boot, img, missed, result, step>> /\ step = "compress"
  BY DEF Compress, Goto
<1>3. f \in Files /\ f = Cpio(f.name) /\ f.name \in Names
  BY <1>1 DEF BuildTypes, Files, Cpio
<1>4. \A g \in DOMAIN out' :
          \/ g = CpioGz(f.name) /\ out'[g] = out[f]
          \/ g \in DOMAIN out /\ out'[g] = out[g]
  BY <1>1
<1>5. BuildTypes'
  <2>1. CpioGz(f.name) \in Files /\ CpioGz(f.name).name = f.name
    BY <1>3 DEF CpioGz, Files
  <2>2. \A g \in DOMAIN out' : g \in Files /\ g.name \in Asked /\ out'[g].try \in 1 .. try
    BY <1>4, <2>1 DEF BuildTypes
  <2> QED
    BY <1>2, <2>2 DEF BuildTypes, Files, Asked, Wants
<1>6. TakesOwn' /\ Modes'
  BY <1>2 DEF TakesOwn, Modes, Wants
<1>7. ASSUME NEW name, IsMade(name) PROVE IsMade(name)'
  <2>1. CASE f.name = name
    <3>1. out[f] = Archive(TRUE)
      BY <1>1, <1>3, <1>7, <2>1 DEF IsMade
    <3>2. CpioGz(name) \in DOMAIN out' /\ out'[CpioGz(name)] = out[f]
      BY <1>1, <2>1
    <3> QED
      BY <1>2, <3>1, <3>2 DEF IsMade, Archive
  <2>2. CASE f.name # name
    <3>1. CpioGz(f.name) # CpioGz(name) /\ CpioGz(f.name) # Cpio(name) /\ f # Cpio(name) /\ f # CpioGz(name)
      BY <1>1, <2>2 DEF Cpio, CpioGz
    <3>2. \A g \in DOMAIN out : g # f /\ g # CpioGz(f.name) => g \in DOMAIN out' /\ out'[g] = out[g]
      BY <1>1
    <3> QED
      BY <1>2, <1>7, <3>1, <3>2 DEF IsMade, Archive
  <2> QED
    BY <2>1, <2>2
<1>8. ASSUME NEW name, IsOwn(name) PROVE IsOwn(name)'
  <2>1. CASE f.name = name
    <3>1. out[f].try = try
      BY <1>1, <1>3, <1>8, <2>1 DEF IsOwn
    <3>2. CpioGz(name) \in DOMAIN out' /\ out'[CpioGz(name)] = out[f]
      BY <1>1, <2>1
    <3> QED
      BY <1>2, <3>1, <3>2 DEF IsOwn
  <2>2. CASE f.name # name
    <3>1. CpioGz(f.name) # CpioGz(name) /\ CpioGz(f.name) # Cpio(name) /\ f # Cpio(name) /\ f # CpioGz(name)
      BY <1>1, <2>2 DEF Cpio, CpioGz
    <3>2. \A g \in DOMAIN out : g # f /\ g # CpioGz(f.name) => g \in DOMAIN out' /\ out'[g] = out[g]
      BY <1>1
    <3> QED
      BY <1>2, <1>8, <3>1, <3>2 DEF IsOwn
  <2> QED
    BY <2>1, <2>2
<1>9. MakesAll'
  BY <1>2, <1>7, <1>8 DEF MakesAll, PastModules, PastFirmware, PastCore, Wants
<1>10. FirstIsWhole'
  BY <1>2, <1>4 DEF FirstIsWhole, CpioGz
<1> QED
  BY <1>5, <1>6, <1>9, <1>10

LEMMA StepFinish == ASSUME BInv, Finish PROVE BInv'
<1> USE DEF BInv, Finish
<1>1. BuildTypes' /\ TakesOwn' /\ Modes' /\ FirstIsWhole'
  BY DEF BuildTypes, TakesOwn, Modes, FirstIsWhole, MakesAll, Asked, Wants
<1>2. \A name : Cpio(name) \notin DOMAIN out
  BY DEF Cpio
<1>3. ASSUME NEW name, IsMade(name) PROVE IsBuilt(name)'
  BY <1>2, <1>3 DEF IsMade, IsBuilt, Archive
<1>4. \A name \in Asked : IsMade(name) \/ name \in missed
  <2>1. PastModules /\ PastFirmware /\ PastCore
    BY DEF PastModules, PastFirmware, PastCore
  <2> QED
    BY <2>1 DEF MakesAll, Asked
<1>5. Wants("modules") => CpioGz("modules") \in DOMAIN out /\ out[CpioGz("modules")].try = try
  BY <1>2 DEF MakesAll, PastModules, IsOwn
<1>6. ASSUME NEW f \in DOMAIN out PROVE f.gz /\ (out[f] = Archive(TRUE) \/ f.name \in missed)
  <2>1. f = CpioGz(f.name) /\ f.name \in Asked
    BY DEF BuildTypes, Files, CpioGz
  <2> QED
    BY <1>2, <1>4, <2>1 DEF IsMade
<1>7. BuiltIsNew'
  BY <1>3, <1>4, <1>5, <1>6 DEF BuiltIsNew, Asked, Wants, Archive
<1>8. MakesAll'
  BY <1>7 DEF MakesAll, PastModules, PastFirmware, PastCore, Wants
<1> QED
  BY <1>1, <1>8

LEMMA StepBuildFails == ASSUME BInv, BuildFails PROVE BInv'
<1> USE DEF BInv, BuildFails
<1>1. out' = out \/ \E name \in Names \cap Asked : out' = Put(out, Cpio(name), Archive(FALSE))
  BY DEF Writes, Names, Asked, Modes, MakesAll
<1>2. BuildTypes'
  <2>1. \A f \in DOMAIN out' : f \in Files /\ f.name \in Asked /\ out'[f].try \in 1 .. try
    BY <1>1, PutTypes DEF BuildTypes
  <2> QED
    BY <2>1 DEF BuildTypes, Files, Asked, Wants
<1>3. TakesOwn' /\ Modes' /\ FirstIsWhole'
  BY DEF TakesOwn, Modes, FirstIsWhole
<1>4. MakesAll'
  BY DEF MakesAll, PastModules, PastFirmware, PastCore
<1> QED
  BY <1>2, <1>3, <1>4

LEMMA StepBuildRetry == ASSUME BInv, BuildRetry PROVE BInv'
<1> USE DEF BInv, BuildRetry
<1>1. try \in Nat /\ job.tries \in Nat /\ try + 1 \in 1 .. job.tries /\ try + 1 # 1
  BY KernelLayerAssumption DEF BuildTypes
<1>2. BuildTypes'
  <2>1. \A f \in DOMAIN out : out[f].try \in 1 .. try + 1
    BY <1>1 DEF BuildTypes
  <2> QED
    BY <1>1, <2>1 DEF BuildTypes, Files, Asked, Wants
<1>3. TakesOwn' /\ Modes' /\ FirstIsWhole'
  BY <1>1 DEF TakesOwn, Modes, FirstIsWhole
<1>4. MakesAll'
  BY DEF MakesAll, PastModules, PastFirmware, PastCore
<1> QED
  BY <1>2, <1>3, <1>4

LEMMA BuildUnchanged == ASSUME BInv, UNCHANGED buildVars PROVE BInv'
<1> USE DEF BInv, buildVars
<1>1. BuildTypes'
  BY DEF BuildTypes, Files, Asked, Wants
<1>2. TakesOwn' /\ Modes' /\ FirstIsWhole'
  BY DEF TakesOwn, Modes, FirstIsWhole, Wants
<1>3. BuiltIsNew <=> BuiltIsNew'
  BY DEF BuiltIsNew, IsBuilt, Archive, Asked, Wants
<1>4. MakesAll'
  BY <1>3 DEF MakesAll, PastModules, PastFirmware, PastCore, Wants, IsMade, IsOwn, Archive
<1> QED
  BY <1>1, <1>2, <1>4

-----------------------------------------------------------------------------
(* The invariant of pkgtool: the marker saves no fetch.                    *)

PInv == phase \in {"touch", "install"} /\ ~command.verbose => unlisted = {}

LEMMA PkgStep == ASSUME PInv, PkgNext PROVE PInv'
<1> USE DEF PInv, command
<1>1. CASE EditSource
  BY <1>1 DEF EditSource
<1>2. CASE PkgBegin
  BY <1>2 DEF PkgBegin, GotoPhase
<1>3. CASE Update
  BY <1>3 DEF Update, GotoPhase, MarkerIsValid
<1>4. CASE Touch \/ Install
  BY <1>4 DEF Touch, Install, GotoPhase, Returns
<1>5. CASE RemovePackages \/ Clean
  BY <1>5 DEF RemovePackages, Clean, Returns
<1>6. CASE PkgFails \/ PkgsDone
  BY <1>6 DEF PkgFails, PkgsDone
<1> QED
  BY <1>1, <1>2, <1>3, <1>4, <1>5, <1>6 DEF PkgNext

-----------------------------------------------------------------------------
(* The layer.                                                              *)

LayerInv ==
    /\ InLayer => layer \in {"pkgs", "find", "build", "ok", "failed"}
    /\ layer \in {"build", "ok"} /\ InLayer => ver = job.deps /\ Cardinality(ver) = 1
    /\ layer = "ok" => InLayer /\ step = "done" /\ result = "ok"
    /\ KitIsOfOneKernel

Inv == BInv /\ PInv /\ LayerInv

LEMMA OneKernel ==
    ASSUME NEW j \in Jobs, Cardinality(j.kernels) = 1, Cardinality(j.deps) = 1
    PROVE  j.kernels = j.deps
<1>1. IsFiniteSet(j.kernels) /\ j.deps \subseteq j.kernels
  BY KernelLayerAssumption
<1>2. IsFiniteSet(j.deps)
  BY <1>1, FS_Subset
<1>3. (\E x : j.kernels = {x}) /\ (\E x : j.deps = {x})
  BY <1>1, <1>2, FS_Singleton
<1> QED
  BY <1>1, <1>3

\* What is collected is of one kernel, and whole.
LEMMA StepCollect == ASSUME Inv, Collect PROVE Inv'
<1>1. UNCHANGED <<buildVars, pkgVars, ver>> /\ InLayer /\ step = "done" /\ result = "ok" /\ layer' = "ok"
  BY DEF Collect
<1>2. BInv'
  BY <1>1, BuildUnchanged DEF Inv
<1>3. PInv'
  BY <1>1 DEF Inv, PInv, command, pkgVars
<1>4. job \in Jobs /\ job.opts = {"modules", "core"} /\ try = 1
  BY <1>1, KernelLayerAssumption DEF Inv, BInv, BuildTypes, InLayer
<1>5. Wants("modules") /\ Wants("core")
  BY <1>4 DEF Wants
<1>6. job.kernels = ver /\ ver = job.deps /\ Cardinality(ver) = 1
  <2>1. Cardinality(job.kernels) = 1
    BY <1>1, <1>5 DEF Inv, BInv, MakesAll
  <2>2. ver = job.deps /\ Cardinality(ver) = 1
    BY <1>1 DEF Inv, LayerInv, Collect
  <2> QED
    BY <1>4, <2>1, <2>2, OneKernel
<1>7. BuiltIsNew /\ \A f \in DOMAIN out : f \in Files /\ (out[f].whole = TRUE \/ f.name \in missed)
  BY <1>1, <1>4 DEF Inv, BInv, MakesAll, FirstIsWhole, BuildTypes
<1>8. exports'.modulesOf = exports'.squashOf
  BY <1>6 DEF Collect
<1>9. exports'.initrd = {[name |-> f.name, whole |-> out[f].whole] :
                            f \in DOMAIN out \ {CpioGz("modules")}}
  BY DEF Collect
<1>10. [name |-> "core", whole |-> TRUE] \in exports'.initrd \/ "core" \in missed
  <2> SUFFICES ASSUME "core" \notin missed PROVE [name |-> "core", whole |-> TRUE] \in exports'.initrd
    OBVIOUS
  <2>1. CpioGz("core") \in DOMAIN out /\ out[CpioGz("core")].whole = TRUE
    BY <1>1, <1>5, <1>7 DEF BuiltIsNew, IsBuilt, Archive, Asked
  <2>2. CpioGz("core").name = "core" /\ CpioGz("core") # CpioGz("modules")
    BY DEF CpioGz
  <2> QED
    BY <1>9, <2>1, <2>2
<1>11. \A a \in exports'.initrd : a.name \in {"core", "firmware"} /\ (a.whole \/ a.name \in missed)
  <2> SUFFICES ASSUME NEW f \in DOMAIN out \ {CpioGz("modules")}
               PROVE  f.name \in {"core", "firmware"} /\ (out[f].whole \/ f.name \in missed)
    BY <1>9
  <2>1. f \in Files /\ f.gz /\ (out[f].whole = TRUE \/ f.name \in missed)
    BY <1>1, <1>7 DEF BuiltIsNew
  <2>2. f.name # "modules"
    BY <2>1 DEF CpioGz, Files
  <2> QED
    BY <2>1, <2>2 DEF Files, Names
<1>12. missed' = missed /\ result' = result /\ step' = step /\ job' = job /\ ver' = ver
  BY <1>1 DEF buildVars
<1>13. exports'.modulesWhole \/ "modules" \in missed
  <2>1. CpioGz("modules") \in DOMAIN out /\ CpioGz("modules").name = "modules"
    BY DEF Collect, CpioGz
  <2>2. exports'.modulesWhole = out[CpioGz("modules")].whole
    BY DEF Collect
  <2> QED
    BY <1>7, <2>1, <2>2
<1>14. KitIsOfOneKernel'
  BY <1>8, <1>10, <1>11, <1>12, <1>13 DEF KitIsOfOneKernel
<1>15. LayerInv'
  BY <1>1, <1>6, <1>12, <1>14 DEF LayerInv, InLayer
<1> QED
  BY <1>2, <1>3, <1>15 DEF Inv

LEMMA NextInv == ASSUME Inv, [Next]_vars PROVE Inv'
<1>1. CASE InstallKernel
  <2>1. BInv' /\ PInv'
    BY <1>1, BuildUnchanged, PkgStep DEF InstallKernel, Inv
  <2>2. LayerInv'
    BY <1>1 DEF InstallKernel, Inv, LayerInv, KitIsOfOneKernel, buildVars, InLayer
  <2> QED
    BY <2>1, <2>2 DEF Inv
<1>2. CASE FindVersion
  <2>1. BInv' /\ PInv'
    BY <1>2, BuildUnchanged DEF FindVersion, Inv, PInv, command, pkgVars
  <2>2. LayerInv'
    BY <1>2 DEF FindVersion, Inv, LayerInv, KitIsOfOneKernel, buildVars, InLayer
  <2> QED
    BY <2>1, <2>2 DEF Inv
<1>3. CASE Build
  <2>1. BInv'
    <3>1. CASE BuildFails \/ BuildRetry
      BY <3>1, StepBuildFails, StepBuildRetry DEF Inv
    <3>2. CASE BuildStep
      BY <3>2, StepBuildBegin, StepRemoveOld, StepRunDracut, StepCheckImage, StepWriteModules,
         StepWriteFirmware, StepMoveCore, StepNextMode, StepCompress, StepFinish DEF Inv, BuildStep
    <3> QED
      BY <1>3, <3>1, <3>2 DEF Build
  <2>2. PInv'
    BY <1>3 DEF Build, Inv, PInv, command, pkgVars
  <2>3. job' = job
    BY <1>3 DEF Build, BuildStep, BuildFails, BuildRetry, BuildBegin, RemoveOld, RunDracut, CheckImage,
       WriteModules, WriteFirmware, MoveCore, NextMode, Compress, Finish, Goto
  <2>4. LayerInv'
    BY <1>3, <2>3 DEF Build, Inv, LayerInv, KitIsOfOneKernel, InLayer
  <2> QED
    BY <2>1, <2>2, <2>4 DEF Inv
<1>4. CASE Collect
  BY <1>4, StepCollect
<1>5. CASE LayerFails \/ UNCHANGED vars
  <2>1. BInv' /\ PInv'
    BY <1>5, BuildUnchanged DEF LayerFails, vars, Inv, PInv, command, pkgVars
  <2>2. LayerInv'
    BY <1>5 DEF LayerFails, vars, Inv, LayerInv, KitIsOfOneKernel, buildVars, InLayer
  <2> QED
    BY <2>1, <2>2 DEF Inv
<1> QED
  BY <1>1, <1>2, <1>3, <1>4, <1>5 DEF Next, Terminated

LEMMA InitInv == Init => Inv
  BY InitBInv DEF Init, PkgInit, Inv, PInv, LayerInv, KitIsOfOneKernel, InLayer

-----------------------------------------------------------------------------
(* The theorems.                                                           *)

\* The invariant of the layer and its tools.
THEOREM LayerInvariance == Spec => []Inv
<1>1. Inv /\ [Next]_vars => Inv'
  BY NextInv
<1> QED
  BY <1>1, InitInv, PTL DEF Spec

\* No image of dracut is left in /boot once it was taken, and every archive is of
\* a try so far: in every number of tries.
THEOREM BuildTypeCorrect == Spec => []BuildTypeOK
<1>1. Inv => BuildTypeOK
  BY DEF Inv, BInv, BuildTypes, TakesOwn, BuildTypeOK, Files
<1> QED
  BY <1>1, LayerInvariance, PTL

\* A try of build-initrd that says it went well leaves nothing but its own whole
\* archives, and all that Usage names, save those that it missed without noticing;
\* the modules are its own even then.  So it is whatever was left by the tries and
\* the dracut before it (build-initrd:164-250, 355-366).
THEOREM SuccessIsNew == Spec => []BuiltIsNew
<1>1. Inv => BuiltIsNew
  BY DEF Inv, BInv, MakesAll, BuiltIsNew
<1> QED
  BY <1>1, LayerInvariance, PTL

\* pkgtool never installs from lists older than a source, unless it is told to be
\* verbose twice (pkgtool:51-98).
THEOREM ListsFresh == Spec => []ListsAreFresh
<1>1. Inv => ListsAreFresh
  BY DEF Inv, PInv, ListsAreFresh
<1> QED
  BY <1>1, LayerInvariance, PTL

\* The kernel layer hands on modules, image and kernel of one version, and no
\* archive that is torn but what build-initrd missed (kernel/stacker.yaml:20-45).
THEOREM OneKernelIsHandedOn == Spec => []KitIsOfOneKernel
<1>1. Inv => KitIsOfOneKernel
  BY DEF Inv, LayerInv
<1> QED
  BY <1>1, LayerInvariance, PTL

\* No step of any try changes an archive that is compressed.
THEOREM ArchivesStay == Spec => ArchivesAreFinal
<1> DEFINE Final == \A f \in DOMAIN out : f.gz => f \in DOMAIN out' /\ out'[f] = out[f]
<1>1. ASSUME Inv, [Next]_vars PROVE Final \/ UNCHANGED buildVars
  <2>1. CASE out' = out
    BY <2>1
  <2>2. ASSUME NEW name, NEW a, out' = Put(out, Cpio(name), a) PROVE Final
    <3>1. \A f \in DOMAIN out : f.gz => f # Cpio(name)
      BY DEF Cpio
    <3> QED
      BY <2>2, <3>1, PutKeeps
  <2>3. CASE Compress
    <3>1. PICK f \in DOMAIN out :
              /\ ~f.gz /\ CpioGz(f.name) \notin DOMAIN out
              /\ out' = [g \in (DOMAIN out \ {f}) \cup {CpioGz(f.name)} |->
                            IF g = CpioGz(f.name) THEN out[f] ELSE out[g]]
      BY <2>3 DEF Compress
    <3> QED
      BY <3>1
  <2>4. CASE WriteModules \/ WriteFirmware \/ MoveCore \/ BuildFails
    BY <2>1, <2>2, <2>4 DEF WriteModules, WriteFirmware, MoveCore, BuildFails, Writes
  <2>5. CASE BuildBegin \/ RemoveOld \/ RunDracut \/ CheckImage \/ NextMode \/ Finish \/ BuildRetry
    BY <2>1, <2>5 DEF BuildBegin, RemoveOld, RunDracut, CheckImage, NextMode, Finish, BuildRetry
  <2>6. CASE ~Build
    BY <1>1, <2>6 DEF Next, vars, InstallKernel, FindVersion, Collect, LayerFails, Terminated
  <2> QED
    BY <2>3, <2>4, <2>5, <2>6 DEF Build, BuildStep
<1>2. Inv /\ [Next]_vars => [Final]_buildVars
  BY <1>1
<1> QED
  BY <1>2, LayerInvariance, PTL DEF Spec, ArchivesAreFinal
=============================================================================
