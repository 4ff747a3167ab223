-------------------------- MODULE CustomizeProofs --------------------------
(* The chain of trust of the customized layer, for every bootkit and every   *)
(* set of keys.  The commands are atomic and succeed only when they found    *)
(* what they read (BkcustProofs); so the invariant only says what each line  *)
(* of the script has made when the next one begins.                          *)
EXTENDS Customize, BkcustProofs, SequenceTheorems

-----------------------------------------------------------------------------
(* The lines of the script.                                                *)


LEMMA ScriptLines ==
    /\ Len(Script) = 12
    /\ Script[1] = TestDirs({"bootkit", "uefi-db"})
    /\ Script[2] = Cp(Kit("ovmf-code.fd"), Out("ovmf-code.fd"))
    /\ Script[3] = SecureBoot(Kit("ovmf-vars.fd"), Out("ovmf-vars.fd"),
                              <<Dir("uefi-pk")>>, <<Dir("uefi-kek")>>, <<Dir("uefi-db")>>, << >>)
    /\ Script[4] = SetDB(Kit("shim.efi"), Out("shim.efi"),
                         <<Dir("uki-limited"), Dir("uki-production"), Dir("uki-tpm")>>)
    /\ Script[5] = SignEfi(Out("shim.efi"), NoPath, CertOf("uefi-db"), KeyOf("uefi-db"))
    /\ Script[6] = Cp(CertOf("manifest-ca"), Extra("manifestCA.pem"))
    /\ Script[7] = Cp(Path("keys", "pcr7data"), Extra("pcr7data"))
    /\ Script[8] = InitrdJoin(Work("initrd.img"), Kit("firmware.cpio.gz"),
               <<Kit("core.cpio.gz"), Kit("initrd-modules.cpio.gz"), Kit("initrd-mos.cpio.gz"),
                 Path("initrd-extra", Empty)>>)
    /\ Script[9] = Rm("initrd-extra")
    /\ Script[10] = Smoosh(Out("kernel.efi"), Kit("stubby.efi"), Kit("vmlinuz"), Work("initrd.img"), Empty)
    /\ Script[11] = SignEfi(Out("kernel.efi"), NoPath, CertOf("uki-production"), KeyOf("uki-production"))
    /\ Script[12] = Tar("customized", Export)
  BY DEF Script

\* What each line does to a store, and what it has read.
LEMMA Effects ==
    ASSUME NEW s
    PROVE  /\ Effect(Script[1], s) = s
           /\ Effect(Script[2], s) = Put(s, Out("ovmf-code.fd"), s[Kit("ovmf-code.fd")])
           /\ Effect(Script[3], s) = Put(s, Out("ovmf-vars.fd"),
                    SetParts(s[Kit("ovmf-vars.fd")], Variables(s, Script[3])))
           /\ Effect(Script[4], s) = Put(s, Out("shim.efi"),
                    SetParts(s[Kit("shim.efi")], VendorDB(s, Script[4])))
           /\ Effect(Script[5], s) = Put(s, Out("shim.efi"),
                    Sign(s[Out("shim.efi")], s[CertOf("uefi-db")].base, s[KeyOf("uefi-db")].base))
           /\ Effect(Script[6], s) = Put(s, Extra("manifestCA.pem"), s[CertOf("manifest-ca")])
           /\ Effect(Script[7], s) = Put(s, Extra("pcr7data"), s[Path("keys", "pcr7data")])
           /\ Effect(Script[8], s) = Put(s, Work("initrd.img"),
                    Extended(Early(Script[8], s), Cpios(s, Script[8].cpios)))
           /\ Effect(Script[9], s) = Without(s, {"initrd-extra"})
           /\ Effect(Script[10], s) = Put(s, Out("kernel.efi"),
                    SetParts(s[Kit("stubby.efi")], Sections(s, Script[10])))
           /\ Effect(Script[11], s) = Put(s, Out("kernel.efi"),
                    Sign(s[Out("kernel.efi")], s[CertOf("uki-production")].base,
                         s[KeyOf("uki-production")].base))
           /\ Effect(Script[12], s) = Put(s, Export, Archive("tar", s, "customized"))
<1> USE ScriptLines
<1> USE DEF Effect, Meaning, Target, NoPath, Path, Empty, Out, Kit, Extra, Work, Export
<1>1. Effect(Script[1], s) = s
  BY DEF TestDirs
<1>2. Effect(Script[2], s) = Put(s, Out("ovmf-code.fd"), s[Kit("ovmf-code.fd")])
  BY DEF Cp
<1>3. Effect(Script[3], s) = Put(s, Out("ovmf-vars.fd"),
                    SetParts(s[Kit("ovmf-vars.fd")], Variables(s, Script[3])))
  BY DEF SecureBoot
<1>4. Effect(Script[4], s) = Put(s, Out("shim.efi"),
                    SetParts(s[Kit("shim.efi")], VendorDB(s, Script[4])))
  BY DEF SetDB
<1>5. Effect(Script[5], s) = Put(s, Out("shim.efi"),
                    Sign(s[Out("shim.efi")], s[CertOf("uefi-db")].base, s[KeyOf("uefi-db")].base))
  BY DEF SignEfi
<1>6. Effect(Script[6], s) = Put(s, Extra("manifestCA.pem"), s[CertOf("manifest-ca")])
  BY DEF Cp
<1>7. Effect(Script[7], s) = Put(s, Extra("pcr7data"), s[Path("keys", "pcr7data")])
  BY DEF Cp
<1>8. Effect(Script[8], s) = Put(s, Work("initrd.img"),
                    Extended(Early(Script[8], s), Cpios(s, Script[8].cpios)))
  BY DEF InitrdJoin
<1>9. Effect(Script[9], s) = Without(s, {"initrd-extra"})
  BY DEF Rm
<1>10. Effect(Script[10], s) = Put(s, Out("kernel.efi"),
                    SetParts(s[Kit("stubby.efi")], Sections(s, Script[10])))
  BY DEF Smoosh
<1>11. Effect(Script[11], s) = Put(s, Out("kernel.efi"),
                    Sign(s[Out("kernel.efi")], s[CertOf("uki-production")].base,
                         s[KeyOf("uki-production")].base))
  BY DEF SignEfi
<1>12. Effect(Script[12], s) = Put(s, Export, Archive("tar", s, "customized"))
  BY DEF Tar
<1> QED
  BY <1>1, <1>2, <1>3, <1>4, <1>5, <1>6, <1>7, <1>8, <1>9, <1>10, <1>11, <1>12

-----------------------------------------------------------------------------
(* What the build has made of the files f that it found, when line l of the  *)
(* script begins with the store s.                                           *)

Has(s, p, x) == p \in DOMAIN s /\ s[p] = x

\* Nothing that was found is lost, and nothing is made elsewhere.
Kept(f, s) ==
    /\ \A p \in DOMAIN f : Has(s, p, f[p])
    /\ \A p \in DOMAIN s : p \in DOMAIN f \/ p = Export \/ p.dir \in Trap

IsInput(f) == In(f, "export") = {} /\ (\A d \in Trap : In(f, d) = {}) /\ NoPath \notin DOMAIN f

VarsOf(f)     == SetParts(f[Kit("ovmf-vars.fd")], Variables(f, Script[3]))
ShimOf(f)     == SetParts(f[Kit("shim.efi")], VendorDB(f, Script[4]))
SignedWith(f, dir, x) == Sign(x, f[CertOf(dir)].base, f[KeyOf(dir)].base)

IsInitrd(f, x) ==
    /\ x.parts["early"] = <<Content(f[Kit("firmware.cpio.gz")])>>
    /\ Len(x.parts["rest"]) = 4
    /\ x.parts["rest"][1] = Content(f[Kit("core.cpio.gz")])
    /\ x.parts["rest"][2] = Content(f[Kit("initrd-modules.cpio.gz")])
    /\ x.parts["rest"][3] = Content(f[Kit("initrd-mos.cpio.gz")])
    /\ x.parts["rest"][4].parts[Extra("manifestCA.pem")] = f[CertOf("manifest-ca")]
    /\ x.sigs = {}

IsKernel(f, x) ==
    /\ x = File(x.base, x.parts)
    /\ x.parts[".linux"] = f[Kit("vmlinuz")] /\ x.parts[".cmdline"] = Empty
    /\ IsInitrd(f, x.parts[".initrd"])

IsTar(f, x) ==
    /\ x # Blank /\ x.sigs = {}
    /\ x.parts[Out("ovmf-code.fd")] = f[Kit("ovmf-code.fd")]
    /\ x.parts[Out("ovmf-vars.fd")] = VarsOf(f)
    /\ x.parts[Out("shim.efi")] = SignedWith(f, "uefi-db", ShimOf(f))
    /\ \E k : IsKernel(f, k) /\ x.parts[Out("kernel.efi")] = SignedWith(f, "uki-production", k)

Made(f, l, s) ==
    /\ l \in 3 .. 13 => Has(s, Out("ovmf-code.fd"), f[Kit("ovmf-code.fd")])
    /\ l \in 4 .. 13 => Has(s, Out("ovmf-vars.fd"), VarsOf(f))
    /\ l = 5 => Has(s, Out("shim.efi"), ShimOf(f))
    /\ l \in 6 .. 13 => Has(s, Out("shim.efi"), SignedWith(f, "uefi-db", ShimOf(f)))
    /\ l \in 7 .. 8  => Has(s, Extra("manifestCA.pem"), f[CertOf("manifest-ca")])
    /\ l \in 9 .. 13 => \E x : IsInitrd(f, x) /\ Has(s, Work("initrd.img"), x)
    /\ l = 11 => \E k : IsKernel(f, k) /\ Has(s, Out("kernel.efi"), k)
    /\ l \in 12 .. 13 =>
          \E k : IsKernel(f, k) /\ Has(s, Out("kernel.efi"), SignedWith(f, "uki-production", k))
    /\ l \in 1 .. 12 => Export \notin DOMAIN s
    /\ l = 13 => \E x : IsTar(f, x) /\ Has(s, Export, x)

-----------------------------------------------------------------------------
(* Each line makes what the next one needs.                                *)

LEMMA PutHas == ASSUME NEW s, NEW p, NEW x PROVE Has(Put(s, p, x), p, x)
  BY DEF Has, Put

LEMMA PutKeepsHas ==
    ASSUME NEW s, NEW p, NEW x, NEW q, q # p, NEW y, Has(s, q, y)
    PROVE  Has(Put(s, p, x), q, y)
  BY DEF Has, Put

LEMMA PutKept ==
    ASSUME NEW f, IsInput(f), NEW s, Kept(f, s), NEW p, p = Export \/ p.dir \in Trap, NEW x
    PROVE  Kept(f, Put(s, p, x))
<1>1. p \notin DOMAIN f
  BY DEF IsInput, In, Export, Path
<1>2. \A q \in DOMAIN f : Has(Put(s, p, x), q, f[q])
  BY <1>1 DEF Kept, Has, Put
<1> QED
  BY <1>2 DEF Kept, Put

\* What is not made by the build was found by it.
LEMMA Found ==
    ASSUME NEW f, NEW s, Kept(f, s), NEW p \in DOMAIN s, p.dir \notin Trap, p.dir # "export"
    PROVE  p \in DOMAIN f /\ s[p] = f[p]
<1>1. p # Export
  BY DEF Export, Path
<1> QED
  BY <1>1 DEF Kept, Has

LEMMA FoundCerts ==
    ASSUME NEW f, NEW s, Kept(f, s), NEW args, CanLoad(s, args),
           \A i \in 1 .. Len(args) : args[i].dir \notin Trap \cup {"export"}
    PROVE  Load(s, args) = Load(f, args)
<1>1. ASSUME NEW i \in 1 .. Len(args) PROVE s[CertOf(args[i].dir)] = f[CertOf(args[i].dir)]
  BY Found DEF CanLoad, IsReadable, CertOf, Path
<1> QED
  BY <1>1 DEF Load

LEMMA Line1 ==
    ASSUME NEW f, IsInput(f), NEW s, Kept(f, s), Made(f, 1, s), Finds(Script[1], s)
    PROVE  Kept(f, Effect(Script[1], s)) /\ Made(f, 2, Effect(Script[1], s))
<1>1. Effect(Script[1], s) = s
  BY Effects
<1> QED
  BY <1>1 DEF Made

LEMMA Line2 ==
    ASSUME NEW f, IsInput(f), NEW s, Kept(f, s), Made(f, 2, s), Finds(Script[2], s)
    PROVE  Kept(f, Effect(Script[2], s)) /\ Made(f, 3, Effect(Script[2], s))
<1> DEFINE t == Effect(Script[2], s)
           p == Out("ovmf-code.fd")
<1>1. t = Put(s, p, s[Kit("ovmf-code.fd")])
  BY Effects
<1>2. Kit("ovmf-code.fd") \in DOMAIN s
  BY ScriptLines DEF Finds, Cp
<1>3. s[Kit("ovmf-code.fd")] = f[Kit("ovmf-code.fd")]
  BY <1>2, Found DEF Kit, Path, Trap
<1>4. Kept(f, t)
  BY <1>1, PutKept DEF Out, Path, Trap
<1>5. Has(t, p, f[Kit("ovmf-code.fd")])
  BY <1>1, <1>3, PutHas
<1>6. Export \notin DOMAIN t
  BY <1>1 DEF Made, Put, Export, Out, Path
<1> HIDE DEF t, p
<1>7. Made(f, 3, t)
  BY <1>5, <1>6 DEF Made, p
<1> QED
  BY <1>4, <1>7 DEF t

LEMMA Line3 ==
    ASSUME NEW f, IsInput(f), NEW s, Kept(f, s), Made(f, 3, s), Finds(Script[3], s)
    PROVE  Kept(f, Effect(Script[3], s)) /\ Made(f, 4, Effect(Script[3], s))
<1> DEFINE c == Script[3]
           t == Effect(c, s)
           p == Out("ovmf-vars.fd")
<1>1. t = Put(s, p, SetParts(s[Kit("ovmf-vars.fd")], Variables(s, c)))
  BY Effects
<1>2. /\ c.op = "secure-boot" /\ c.in = Kit("ovmf-vars.fd")
      /\ c.pk = <<Dir("uefi-pk")>> /\ c.kek = <<Dir("uefi-kek")>> /\ c.db = <<Dir("uefi-db")>>
      /\ c.mok = << >>
  BY ScriptLines DEF SecureBoot
<1>3. Kit("ovmf-vars.fd") \in DOMAIN s /\ \A args \in Lists(c) : CanLoad(s, args)
  BY <1>2 DEF Finds
<1>4. s[Kit("ovmf-vars.fd")] = f[Kit("ovmf-vars.fd")]
  BY <1>3, Found DEF Kit, Path, Trap
<1>5. \A args \in Lists(c) : \A i \in 1 .. Len(args) : args[i].dir \notin Trap \cup {"export"}
  BY <1>2 DEF Lists, Dir, Trap
<1>6. \A args \in Lists(c) : Load(s, args) = Load(f, args)
  BY <1>3, <1>5, FoundCerts
<1>7. Variables(s, c) = Variables(f, c)
  BY <1>2, <1>6 DEF Variables, Lists
<1>8. Kept(f, t)
  BY <1>1, PutKept DEF Out, Path, Trap
<1>9. Has(t, p, VarsOf(f))
  BY <1>1, <1>4, <1>7, PutHas DEF VarsOf
<1>10. Has(t, Out("ovmf-code.fd"), f[Kit("ovmf-code.fd")])
  BY <1>1, PutKeepsHas DEF Made, Out, Path
<1>11. Export \notin DOMAIN t
  BY <1>1 DEF Made, Put, Export, Out, Path
<1> HIDE DEF t, p
<1>12. Made(f, 4, t)
  BY <1>9, <1>10, <1>11 DEF Made, p
<1> QED
  BY <1>8, <1>12 DEF t

LEMMA Line4 ==
    ASSUME NEW f, IsInput(f), NEW s, Kept(f, s), Made(f, 4, s), Finds(Script[4], s)
    PROVE  Kept(f, Effect(Script[4], s)) /\ Made(f, 5, Effect(Script[4], s))
<1> DEFINE c == Script[4]
           t == Effect(c, s)
           p == Out("shim.efi")
<1>1. t = Put(s, p, SetParts(s[Kit("shim.efi")], VendorDB(s, c)))
  BY Effects
<1>2. /\ c.op = "set-db" /\ c.in = Kit("shim.efi")
      /\ c.certs = <<Dir("uki-limited"), Dir("uki-production"), Dir("uki-tpm")>>
  BY ScriptLines DEF SetDB
<1>3. Kit("shim.efi") \in DOMAIN s /\ CanLoad(s, c.certs)
  BY <1>2 DEF Finds
<1>4. s[Kit("shim.efi")] = f[Kit("shim.efi")]
  BY <1>3, Found DEF Kit, Path, Trap
<1>5. \A i \in 1 .. Len(c.certs) : c.certs[i].dir \notin Trap \cup {"export"}
  BY <1>2 DEF Dir, Trap
<1>6. VendorDB(s, c) = VendorDB(f, c)
  BY <1>3, <1>5, FoundCerts DEF VendorDB
<1>7. Kept(f, t)
  BY <1>1, PutKept DEF Out, Path, Trap
<1>8. Has(t, p, ShimOf(f))
  BY <1>1, <1>4, <1>6, PutHas DEF ShimOf
<1>9. Has(t, Out("ovmf-code.fd"), f[Kit("ovmf-code.fd")])
  BY <1>1, PutKeepsHas DEF Made, Out, Path
<1>10. Has(t, Out("ovmf-vars.fd"), VarsOf(f))
  BY <1>1, PutKeepsHas DEF Made, Out, Path
<1>11. Export \notin DOMAIN t
  BY <1>1 DEF Made, Put, Export, Out, Path
<1> HIDE DEF t, p
<1>12. Made(f, 5, t)
  BY <1>8, <1>9, <1>10, <1>11 DEF Made, p
<1> QED
  BY <1>7, <1>12 DEF t

\* A key pair that sign-efi has found is one of the input.
LEMMA FoundKeys ==
    ASSUME NEW f, NEW s, Kept(f, s), NEW dir, {CertOf(dir), KeyOf(dir)} \subseteq DOMAIN s,
           dir \notin Trap \cup {"export"}, NEW x
    PROVE  Sign(x, s[CertOf(dir)].base, s[KeyOf(dir)].base) = SignedWith(f, dir, x)
<1>1. s[CertOf(dir)] = f[CertOf(dir)] /\ s[KeyOf(dir)] = f[KeyOf(dir)]
  BY Found DEF CertOf, KeyOf, Path
<1> QED
  BY <1>1 DEF SignedWith

LEMMA Line5 ==
    ASSUME NEW f, IsInput(f), NEW s, Kept(f, s), Made(f, 5, s), Finds(Script[5], s)
    PROVE  Kept(f, Effect(Script[5], s)) /\ Made(f, 6, Effect(Script[5], s))
<1> DEFINE c == Script[5]
           t == Effect(c, s)
           p == Out("shim.efi")
           x == SignedWith(f, "uefi-db", ShimOf(f))
<1>1. t = Put(s, p, Sign(s[p], s[CertOf("uefi-db")].base, s[KeyOf("uefi-db")].base))
  BY Effects
<1>2. c.op = "sign-efi" /\ c.cert = CertOf("uefi-db") /\ c.key = KeyOf("uefi-db")
  BY ScriptLines DEF SignEfi
<1>3. {CertOf("uefi-db"), KeyOf("uefi-db")} \subseteq DOMAIN s
  BY <1>2 DEF Finds
<1>4. s[p] = ShimOf(f)
  BY DEF Made, Has
<1>5. t = Put(s, p, x)
  BY <1>1, <1>3, <1>4, FoundKeys DEF Trap
<1>6. Kept(f, t)
  BY <1>5, PutKept DEF Out, Path, Trap
<1>7. Has(t, p, x)
  BY <1>5, PutHas
<1>8. Has(t, Out("ovmf-code.fd"), f[Kit("ovmf-code.fd")])
  BY <1>5, PutKeepsHas DEF Made, Out, Path
<1>9. Has(t, Out("ovmf-vars.fd"), VarsOf(f))
  BY <1>5, PutKeepsHas DEF Made, Out, Path
<1>10. Export \notin DOMAIN t
  BY <1>5 DEF Made, Put, Export, Out, Path
<1> HIDE DEF t, p, x
<1>11. Made(f, 6, t)
  BY <1>7, <1>8, <1>9, <1>10 DEF Made, p, x
<1> QED
  BY <1>6, <1>11 DEF t

\* What lines 2 to 5 have made.
Booted(f, s) ==
    /\ Has(s, Out("ovmf-code.fd"), f[Kit("ovmf-code.fd")])
    /\ Has(s, Out("ovmf-vars.fd"), VarsOf(f))
    /\ Has(s, Out("shim.efi"), SignedWith(f, "uefi-db", ShimOf(f)))

LEMMA PutBooted ==
    ASSUME NEW f, NEW s, Booted(f, s), NEW p, p.dir # "customized" \/ p = Out("kernel.efi"), NEW x
    PROVE  Booted(f, Put(s, p, x))
<1>1. p \notin {Out("ovmf-code.fd"), Out("ovmf-vars.fd"), Out("shim.efi")}
  BY DEF Out, Path
<1> QED
  BY <1>1, PutKeepsHas DEF Booted

LEMMA MadeBooted ==
    ASSUME NEW f, NEW s, NEW l \in 6 .. 12
    PROVE  Made(f, l, s) <=>
              /\ Booted(f, s) /\ Export \notin DOMAIN s
              /\ l \in 7 .. 8 => Has(s, Extra("manifestCA.pem"), f[CertOf("manifest-ca")])
              /\ l \in 9 .. 12 => \E x : IsInitrd(f, x) /\ Has(s, Work("initrd.img"), x)
              /\ l = 11 => \E k : IsKernel(f, k) /\ Has(s, Out("kernel.efi"), k)
              /\ l = 12 =>
                    \E k : IsKernel(f, k) /\ Has(s, Out("kernel.efi"), SignedWith(f, "uki-production", k))
  BY DEF Made, Booted

LEMMA Line6 ==
    ASSUME NEW f, IsInput(f), NEW s, Kept(f, s), Made(f, 6, s), Finds(Script[6], s)
    PROVE  Kept(f, Effect(Script[6], s)) /\ Made(f, 7, Effect(Script[6], s))
<1> DEFINE t == Effect(Script[6], s)
           p == Extra("manifestCA.pem")
<1>1. t = Put(s, p, s[CertOf("manifest-ca")])
  BY Effects
<1>2. CertOf("manifest-ca") \in DOMAIN s
  BY ScriptLines DEF Finds, Cp
<1>3. s[CertOf("manifest-ca")] = f[CertOf("manifest-ca")]
  BY <1>2, Found DEF CertOf, Path, Trap
<1>4. Kept(f, t)
  BY <1>1, PutKept DEF Extra, Path, Trap
<1>5. Has(t, p, f[CertOf("manifest-ca")])
  BY <1>1, <1>3, PutHas
<1>6. Booted(f, t)
  BY <1>1, MadeBooted, PutBooted DEF Extra, Path
<1>7. Export \notin DOMAIN t
  BY <1>1 DEF Made, Put, Export, Extra, Path
<1> HIDE DEF t, p
<1>8. Made(f, 7, t)
  BY <1>5, <1>6, <1>7, MadeBooted DEF p
<1> QED
  BY <1>4, <1>8 DEF t

LEMMA Line7 ==
    ASSUME NEW f, IsInput(f), NEW s, Kept(f, s), Made(f, 7, s), Finds(Script[7], s)
    PROVE  Kept(f, Effect(Script[7], s)) /\ Made(f, 8, Effect(Script[7], s))
<1> DEFINE t == Effect(Script[7], s)
           p == Extra("pcr7data")
<1>1. t = Put(s, p, s[Path("keys", "pcr7data")])
  BY Effects
<1>2. Kept(f, t)
  BY <1>1, PutKept DEF Extra, Path, Trap
<1>3. Has(t, Extra("manifestCA.pem"), f[CertOf("manifest-ca")])
  BY <1>1, MadeBooted, PutKeepsHas DEF Extra, Path
<1>4. Booted(f, t)
  BY <1>1, MadeBooted, PutBooted DEF Extra, Path
<1>5. Export \notin DOMAIN t
  BY <1>1 DEF Made, Put, Export, Extra, Path
<1> HIDE DEF t, p
<1>6. Made(f, 8, t)
  BY <1>3, <1>4, <1>5, MadeBooted
<1> QED
  BY <1>2, <1>6 DEF t

\* The initrd of microcode, archives and the directory of the manifest.
LEMMA Line8Initrd ==
    ASSUME NEW f, NEW s, Kept(f, s), Finds(Script[8], s),
           Has(s, Extra("manifestCA.pem"), f[CertOf("manifest-ca")])
    PROVE  IsInitrd(f, Extended(Early(Script[8], s), Cpios(s, Script[8].cpios)))
<1> DEFINE c == Script[8]
           extra == Path("initrd-extra", Empty)
           rest  == Cpios(s, c.cpios)
<1>1. /\ c.op = "initrd-join" /\ c.in = Kit("firmware.cpio.gz")
      /\ c.cpios = <<Kit("core.cpio.gz"), Kit("initrd-modules.cpio.gz"), Kit("initrd-mos.cpio.gz"), extra>>
  BY ScriptLines DEF InitrdJoin
<1>2. Len(c.cpios) = 4 /\ c.in # NoPath
  BY <1>1 DEF Kit, Path, NoPath, Empty
<1>3. CanRead(s, c.in) /\ \A i \in 1 .. 4 : CanRead(s, c.cpios[i])
  BY <1>1, <1>2 DEF Finds, HasEarly
<1>4. ASSUME NEW name \in Archives, CanRead(s, Kit(name))
      PROVE  Cpio(s, Kit(name)) = Content(f[Kit(name)])
  <2>1. ~IsDirCpio(Kit(name)) /\ Kit(name).name \in GzNames /\ Kit(name).dir = "bootkit"
    BY GzNamesAssumption DEF Archives, IsDirCpio, Kit, Path, Empty
  <2>2. Kit(name) \in DOMAIN s /\ IsGz(s[Kit(name)])
    BY <1>4, <2>1 DEF CanRead
  <2>3. s[Kit(name)] = f[Kit(name)]
    BY <2>1, <2>2, Found DEF Trap
  <2> QED
    BY <2>1, <2>2, <2>3 DEF Cpio, Content
<1>5. Early(c, s) = Initrd(<<Content(f[Kit("firmware.cpio.gz")])>>, << >>)
  BY <1>1, <1>2, <1>3, <1>4 DEF Early, Archives
<1>6. rest = [i \in 1 .. 4 |-> Cpio(s, c.cpios[i])]
  BY <1>2 DEF Cpios
<1>7. /\ rest[1] = Content(f[Kit("core.cpio.gz")])
      /\ rest[2] = Content(f[Kit("initrd-modules.cpio.gz")])
      /\ rest[3] = Content(f[Kit("initrd-mos.cpio.gz")])
  BY <1>1, <1>3, <1>4, <1>6 DEF Archives
<1>8. rest[4].parts[Extra("manifestCA.pem")] = f[CertOf("manifest-ca")]
  <2>1. rest[4] = Archive("cpio", s, "initrd-extra")
    BY <1>1, <1>6 DEF Cpio, IsDirCpio, Path
  <2>2. Extra("manifestCA.pem") \in In(s, "initrd-extra")
    BY DEF Has, In, Extra, Path
  <2> QED
    BY <2>1, <2>2 DEF Archive, File, Has
<1>9. << >> \o rest = rest /\ Len(rest) = 4
  <2> DEFINE S == {rest[i] : i \in 1 .. 4}
  <2> HIDE DEF rest
  <2>1. rest \in [1 .. 4 -> S]
    BY <1>6
  <2>2. rest \in Seq(S)
    BY <2>1, SeqDef
  <2>3. << >> \o rest = rest
    BY <2>2, ConcatEmptySeq
  <2>4. Len(rest) = 4
    BY <2>1
  <2> QED
    BY <2>3, <2>4
<1> HIDE DEF rest
<1>10. Extended(Early(c, s), rest) = Initrd(<<Content(f[Kit("firmware.cpio.gz")])>>, rest)
  BY <1>5, <1>9 DEF Extended, Initrd, File
<1>11. IsInitrd(f, Initrd(<<Content(f[Kit("firmware.cpio.gz")])>>, rest))
  BY <1>7, <1>8, <1>9 DEF IsInitrd, Initrd, File
<1> QED
  BY <1>10, <1>11 DEF rest

LEMMA Line8 ==
    ASSUME NEW f, IsInput(f), NEW s, Kept(f, s), Made(f, 8, s), Finds(Script[8], s)
    PROVE  Kept(f, Effect(Script[8], s)) /\ Made(f, 9, Effect(Script[8], s))
<1> DEFINE t == Effect(Script[8], s)
           p == Work("initrd.img")
           x == Extended(Early(Script[8], s), Cpios(s, Script[8].cpios))
<1>1. t = Put(s, p, x)
  BY Effects
<1>2. Kept(f, t)
  BY <1>1, PutKept DEF Work, Path, Trap
<1>3. IsInitrd(f, x)
  BY MadeBooted, Line8Initrd
<1>4. Has(t, p, x)
  BY <1>1, PutHas
<1>5. Booted(f, t)
  BY <1>1, MadeBooted, PutBooted DEF Work, Path
<1>6. Export \notin DOMAIN t
  BY <1>1 DEF Made, Put, Export, Work, Path
<1> HIDE DEF t, x
<1>7. Made(f, 9, t)
  BY <1>3, <1>4, <1>5, <1>6, MadeBooted
<1> QED
  BY <1>2, <1>7 DEF t

LEMMA Line9 ==
    ASSUME NEW f, IsInput(f), NEW s, Kept(f, s), Made(f, 9, s), Finds(Script[9], s)
    PROVE  Kept(f, Effect(Script[9], s)) /\ Made(f, 10, Effect(Script[9], s))
<1> DEFINE t == Effect(Script[9], s)
<1>1. t = Without(s, {"initrd-extra"})
  BY Effects
<1>2. \A p, x : p.dir # "initrd-extra" /\ Has(s, p, x) => Has(t, p, x)
  BY <1>1 DEF Has, Without
<1>3. DOMAIN t \subseteq DOMAIN s
  BY <1>1 DEF Without
<1> HIDE DEF t
<1>4. Kept(f, t)
  <2>1. \A p \in DOMAIN f : p.dir # "initrd-extra"
    BY DEF IsInput, In, Trap
  <2> QED
    BY <1>2, <1>3, <2>1 DEF Kept
<1>5. Booted(f, t)
  BY <1>2, MadeBooted DEF Booted, Out, Path
<1>6. \E x : IsInitrd(f, x) /\ Has(t, Work("initrd.img"), x)
  <2>1. Work("initrd.img").dir # "initrd-extra"
    BY DEF Work, Path
  <2> QED
    BY <1>2, <2>1, MadeBooted
<1>7. Export \notin DOMAIN t
  BY <1>3 DEF Made
<1>8. Made(f, 10, t)
  BY <1>5, <1>6, <1>7, MadeBooted
<1> QED
  BY <1>4, <1>8 DEF t

LEMMA Line10 ==
    ASSUME NEW f, IsInput(f), NEW s, Kept(f, s), Made(f, 10, s), Finds(Script[10], s)
    PROVE  Kept(f, Effect(Script[10], s)) /\ Made(f, 11, Effect(Script[10], s))
<1> DEFINE c == Script[10]
           t == Effect(c, s)
           p == Out("kernel.efi")
           k == SetParts(s[Kit("stubby.efi")], Sections(s, c))
<1>1. t = Put(s, p, k)
  BY Effects
<1>2. /\ c.op = "smoosh" /\ c.in = Kit("stubby.efi") /\ c.kernel = Kit("vmlinuz")
      /\ c.initrd = Work("initrd.img") /\ c.cmdline = Empty
  BY ScriptLines DEF Smoosh
<1>3. Kit("vmlinuz") \in DOMAIN s
  BY <1>2 DEF Finds
<1>4. s[Kit("vmlinuz")] = f[Kit("vmlinuz")]
  BY <1>3, Found DEF Kit, Path, Trap
<1>5. IsInitrd(f, s[Work("initrd.img")])
  BY MadeBooted DEF Has
<1>6. /\ k.parts[".linux"] = s[Kit("vmlinuz")] /\ k.parts[".cmdline"] = Empty
      /\ k.parts[".initrd"] = s[Work("initrd.img")]
  BY <1>2 DEF SetParts, File, Sections
<1>7. k = File(k.base, k.parts)
  BY DEF SetParts, File
<1>8. IsKernel(f, k)
  BY <1>4, <1>5, <1>6, <1>7 DEF IsKernel
<1>9. Kept(f, t)
  BY <1>1, PutKept DEF Out, Path, Trap
<1>10. Has(t, p, k)
  BY <1>1, PutHas
<1>11. Booted(f, t)
  BY <1>1, MadeBooted, PutBooted
<1>12. \E x : IsInitrd(f, x) /\ Has(t, Work("initrd.img"), x)
  BY <1>1, MadeBooted, PutKeepsHas DEF Out, Work, Path
<1>13. Export \notin DOMAIN t
  BY <1>1 DEF Made, Put, Export, Out, Path
<1> HIDE DEF t, k, p
<1>14. Made(f, 11, t)
  BY <1>8, <1>10, <1>11, <1>12, <1>13, MadeBooted DEF p
<1> QED
  BY <1>9, <1>14 DEF t

LEMMA Line11 ==
    ASSUME NEW f, IsInput(f), NEW s, Kept(f, s), Made(f, 11, s), Finds(Script[11], s)
    PROVE  Kept(f, Effect(Script[11], s)) /\ Made(f, 12, Effect(Script[11], s))
<1> DEFINE c == Script[11]
           t == Effect(c, s)
           p == Out("kernel.efi")
<1>1. t = Put(s, p, Sign(s[p], s[CertOf("uki-production")].base, s[KeyOf("uki-production")].base))
  BY Effects
<1>2. c.op = "sign-efi" /\ c.cert = CertOf("uki-production") /\ c.key = KeyOf("uki-production")
  BY ScriptLines DEF SignEfi
<1>3. {CertOf("uki-production"), KeyOf("uki-production")} \subseteq DOMAIN s
  BY <1>2 DEF Finds
<1>4. IsKernel(f, s[p])
  BY MadeBooted DEF Has
<1>5. t = Put(s, p, SignedWith(f, "uki-production", s[p]))
  BY <1>1, <1>3, FoundKeys DEF Trap
<1>6. Kept(f, t)
  BY <1>5, PutKept DEF Out, Path, Trap
<1>7. Has(t, p, SignedWith(f, "uki-production", s[p]))
  BY <1>5, PutHas
<1>8. Booted(f, t)
  BY <1>1, MadeBooted, PutBooted
<1>9. \E x : IsInitrd(f, x) /\ Has(t, Work("initrd.img"), x)
  BY <1>1, MadeBooted, PutKeepsHas DEF Out, Work, Path
<1>10. Export \notin DOMAIN t
  BY <1>1 DEF Made, Put, Export, Out, Path
<1> HIDE DEF t, p
<1>11. Made(f, 12, t)
  BY <1>4, <1>7, <1>8, <1>9, <1>10, MadeBooted DEF p
<1> QED
  BY <1>6, <1>11 DEF t

LEMMA Line12 ==
    ASSUME NEW f, IsInput(f), NEW s, Kept(f, s), Made(f, 12, s), Finds(Script[12], s)
    PROVE  Kept(f, Effect(Script[12], s)) /\ Made(f, 13, Effect(Script[12], s))
<1> DEFINE t == Effect(Script[12], s)
           x == Archive("tar", s, "customized")
<1>1. t = Put(s, Export, x)
  BY Effects
<1>2. Kept(f, t)
  BY <1>1, PutKept
<1>3. \A n, y : Has(s, Out(n), y) => x.parts[Out(n)] = y
  BY DEF Has, Archive, File, In, Out, Path
<1>4. x # Blank /\ x.sigs = {}
  BY DEF Archive, Blank, Plain, File
<1>5. Booted(f, s)
  BY MadeBooted
<1>6. PICK k : IsKernel(f, k) /\ Has(s, Out("kernel.efi"), SignedWith(f, "uki-production", k))
  BY MadeBooted
<1>7. IsTar(f, x)
  BY <1>3, <1>4, <1>5, <1>6 DEF IsTar, Booted
<1>8. Has(t, Export, x)
  BY <1>1, PutHas
<1>9. Booted(f, t)
  BY <1>1, <1>5, PutBooted DEF Export, Path
<1>10. Has(t, Out("kernel.efi"), SignedWith(f, "uki-production", k))
  BY <1>1, <1>6, PutKeepsHas DEF Out, Export, Path
<1>11. \E y : IsInitrd(f, y) /\ Has(t, Work("initrd.img"), y)
  BY <1>1, MadeBooted, PutKeepsHas DEF Work, Export, Path
<1> HIDE DEF t, x
<1>12. Made(f, 13, t)
  BY <1>6, <1>7, <1>8, <1>9, <1>10, <1>11 DEF Made, Booted
<1> QED
  BY <1>2, <1>12 DEF t

-----------------------------------------------------------------------------
(* The invariant of the build.                                             *)

BuildInv ==
    /\ job.script = Script /\ job.trap = Trap /\ IsInput(job.files)
    /\ Kept(job.files, before)
    /\ result = "none" => Made(job.files, line, before)
    /\ result = "ok" => \E x : IsTar(job.files, x) /\ Has(before, Export, x)
    /\ step = "done" => \A d \in Trap : In(before, d) = {}

LEMMA InitBuild == Init => BuildInv
<1> SUFFICES ASSUME Init PROVE BuildInv
  OBVIOUS
<1>1. job.script = Script /\ job.trap = Trap /\ job.files \in Inputs
  BY InputsAssumption DEF Init
<1>2. IsInput(job.files)
  BY <1>1, InputsAssumption DEF IsInput
<1>3. Kept(job.files, before)
  BY DEF Init, Kept, Has
<1>4. Made(job.files, line, before)
  <2>1. Export \notin DOMAIN job.files
    BY <1>2 DEF IsInput, In, Export, Path
  <2> QED
    BY <2>1 DEF Init, Made
<1> QED
  BY <1>1, <1>2, <1>3, <1>4 DEF Init, BuildInv

\* Every line but the two that only test or remove writes where nothing was
\* found.
LEMMA Targets ==
    ASSUME NEW l \in 1 .. 12
    PROVE  \/ Target(Script[l]) = Export
           \/ Target(Script[l]).dir \in Trap
           \/ l \in {1, 9} /\ Target(Script[l]) = NoPath /\ Script[l].op \in {"test", "rm"}
<1> USE ScriptLines DEF Target, Path, NoPath, Empty, Out, Work, Extra, Trap
<1>1. CASE l \in {1, 9}
  BY <1>1 DEF TestDirs, Rm
<1>2. CASE l \in {2, 6, 7}
  BY <1>2 DEF Cp
<1>3. CASE l = 3
  BY <1>3 DEF SecureBoot
<1>4. CASE l = 4
  BY <1>4 DEF SetDB
<1>5. CASE l \in {5, 11}
  BY <1>5 DEF SignEfi
<1>6. CASE l = 8
  BY <1>6 DEF InitrdJoin
<1>7. CASE l = 10
  BY <1>7 DEF Smoosh
<1>8. CASE l = 12
  BY <1>8 DEF Tar, Export
<1> QED
  BY <1>1, <1>2, <1>3, <1>4, <1>5, <1>6, <1>7, <1>8

LEMMA Lines ==
    ASSUME IInv, BuildInv
    PROVE  /\ line \in 1 .. 13 /\ cmd = Script[line]
           /\ line <= Len(job.script) => line \in 1 .. 12
  BY ScriptLines DEF IInv, TypeOK, BuildInv, cmd

LEMMA RunBuild ==
    ASSUME IInv, BuildInv, Atomic!Run, Finds(cmd, before)
    PROVE  /\ Kept(job.files, before') /\ Made(job.files, line', before')
           /\ job' = job /\ result' = "none" /\ result = "none"
<1> DEFINE f == job.files
<1>1. /\ before' = Effect(Script[line], before) /\ line' = line + 1 /\ job' = job
      /\ result = "none" /\ result' = result /\ line \in 1 .. 12
  BY Lines, SameEffect DEF Atomic!Run, cmd
<1>2. IsInput(f) /\ Kept(f, before) /\ Made(f, line, before) /\ Finds(Script[line], before)
  BY <1>1, Lines DEF BuildInv
<1> HIDE DEF f
<1>3. Kept(f, before') /\ Made(f, line + 1, before')
  <2>1. CASE line \in {1, 2, 3, 4}
    BY <1>1, <1>2, <2>1, Line1, Line2, Line3, Line4
  <2>2. CASE line \in {5, 6, 7, 8}
    BY <1>1, <1>2, <2>2, Line5, Line6, Line7, Line8
  <2>3. CASE line \in {9, 10, 11, 12}
    BY <1>1, <1>2, <2>3, Line9, Line10, Line11, Line12
  <2> QED
    BY <1>1, <2>1, <2>2, <2>3
<1> QED
  BY <1>1, <1>3 DEF f

\* A command that only tests or removes fails before it has done anything.
LEMMA NothingSpoilt ==
    ASSUME IInv, StepFails, cmd.op \in {"test", "rm"}
    PROVE  before' = before
<1>1. files = before /\ step \notin {"fill", "objcopy", "append", "vars"}
  BY DEF StepFails, IInv, TypeOK, Steps, StepInv, Resting, MayWrite, Writers
<1>2. before' = Without(before, {"tmp"})
  BY <1>1 DEF StepFails
<1> QED
  BY <1>2, WithoutTmp DEF IInv

LEMMA FailKept ==
    ASSUME IInv, BuildInv, StepFails
    PROVE  Kept(job.files, before') /\ job' = job /\ result' = "error"
<1> DEFINE f == job.files
           p == Target(cmd)
<1>1. line \in 1 .. 12 /\ cmd = Script[line] /\ Kept(f, before) /\ IsInput(f)
  BY Lines DEF StepFails, BuildInv
<1>2. CASE cmd.op \in {"test", "rm"}
  BY <1>1, <1>2, NothingSpoilt DEF StepFails
<1>3. CASE p = Export \/ p.dir \in Trap
  <2>1. AlikeOff({p}, before, before')
    <3>1. Atomic!Break
      BY StepStepFails
    <3>2. Atomic!Target(cmd) = Target(cmd)
      BY DEF Atomic!Target, Target, Atomic!NoPath, NoPath, Atomic!Path, Path, Atomic!Empty, Empty
    <3> QED
      BY <3>1, <3>2 DEF Atomic!Break, AlikeOff, cmd
  <2>2. p \notin DOMAIN f
    BY <1>1, <1>3 DEF IsInput, In, Export, Path
  <2>3. \A q \in DOMAIN f : Has(before', q, f[q])
    BY <1>1, <2>1, <2>2 DEF Kept, Has, AlikeOff
  <2>4. \A q \in DOMAIN before' : q = p \/ q \in DOMAIN before
    BY <2>1 DEF AlikeOff
  <2> HIDE DEF p, f
  <2>5. Kept(f, before')
    BY <1>1, <1>3, <2>3, <2>4 DEF Kept
  <2> QED
    BY <2>5 DEF StepFails, f
<1> QED
  BY <1>1, <1>2, <1>3, Targets

LEMMA ExitKept ==
    ASSUME IInv, BuildInv, Exit
    PROVE  BuildInv'
<1> DEFINE f == job.files
<1>1. /\ before' = Without(before, Trap) /\ UNCHANGED <<job, result>> /\ result # "none"
      /\ Kept(f, before) /\ IsInput(f)
  BY DEF Exit, IInv, StepInv, Resting, BuildInv
<1>2. \A p, x : p.dir \notin Trap /\ Has(before, p, x) => Has(before', p, x)
  BY <1>1 DEF Has, Without
<1>3. DOMAIN before' = {p \in DOMAIN before : p.dir \notin Trap}
  BY <1>1 DEF Without
<1>4. \A p \in DOMAIN f : p.dir \notin Trap
  BY <1>1 DEF IsInput, In
<1>5. Export.dir \notin Trap
  BY DEF Export, Path, Trap
<1>6. Kept(f, before')
  BY <1>1, <1>2, <1>3, <1>4 DEF Kept
<1>7. \A d \in Trap : In(before', d) = {}
  BY <1>3 DEF In
<1> QED
  BY <1>1, <1>2, <1>5, <1>6, <1>7 DEF BuildInv

LEMMA NextBuild ==
    ASSUME IInv, ReadInv, BuildInv, [Next]_vars
    PROVE  BuildInv'
<1>1. line' # line => Finds(cmd, before)
  BY NextFinds
<1>2. CASE CommandStep
  <2>1. step' # "done"
    BY <1>2 DEF CommandStep, Begin, TestDir, RemoveDir, Truncate, Fill, LoadCerts, SetSections,
                MakeVars, SignImage, AppendCpios, Returns, Goto, FirstStep, AfterFill
  <2>2. CASE Atomic!Run
    <3>1. line' # line
      BY <2>2, Lines DEF Atomic!Run
    <3>2. Finds(cmd, before)
      BY <1>1, <3>1
    <3> QED
      BY <2>1, <2>2, <3>2, RunBuild DEF BuildInv
  <2>3. CASE UNCHANGED Abstract
    BY <2>1, <2>3 DEF Abstract, BuildInv
  <2>4. Atomic!Run \/ UNCHANGED Abstract
    BY <1>2, StepBegin, StepTruncate, StepLoadCerts, StepSignImage, StepTestDir, StepRemoveDir,
       StepFill, StepSetSections, StepMakeVars, StepAppendCpios DEF CommandStep
  <2> QED
    BY <2>2, <2>3, <2>4
<1>3. CASE StepFails
  BY <1>3, FailKept DEF BuildInv, StepFails
<1>4. CASE ScriptEnds
  <2>1. line = 13 /\ result = "none"
    BY <1>4, Lines, ScriptLines DEF ScriptEnds, IInv, BuildInv
  <2>2. Made(job.files, 13, before)
    BY <2>1 DEF BuildInv
  <2>3. \E x : IsTar(job.files, x) /\ Has(before, Export, x)
    BY <2>2 DEF Made
  <2> QED
    BY <1>4, <2>3 DEF ScriptEnds, BuildInv
<1>5. CASE Exit
  BY <1>5, ExitKept
<1>6. CASE UNCHANGED vars
  BY <1>6 DEF vars, BuildInv
<1> QED
  BY <1>2, <1>3, <1>4, <1>5, <1>6 DEF Next, Terminated

-----------------------------------------------------------------------------
(* What the build has signed.                                              *)

\* Other signatures are those that came with a file.
Signed(f, x) == ~(x.sigs \subseteq UNION {f[p].sigs : p \in DOMAIN f})

SignedOnly(f, l, s) ==
    \A p \in DOMAIN s : Signed(f, s[p]) => \/ l > 5 /\ p = Out("shim.efi")
                                           \/ l > 11 /\ p = Out("kernel.efi")

SignedInv == result = "none" => SignedOnly(job.files, line, before)

LEMMA NoSignature == ASSUME NEW f, NEW x, x.sigs = {} PROVE ~Signed(f, x)
  BY DEF Signed

LEMMA CameSigned == ASSUME NEW f, NEW p \in DOMAIN f PROVE ~Signed(f, f[p])
  BY DEF Signed

LEMMA PutSigned ==
    ASSUME NEW f, NEW l \in 1 .. 12, NEW s, SignedOnly(f, l, s), NEW p, NEW x,
           ~Signed(f, x) \/ (l > 4 /\ p = Out("shim.efi")) \/ (l > 10 /\ p = Out("kernel.efi"))
    PROVE  SignedOnly(f, l + 1, Put(s, p, x))
<1> SUFFICES ASSUME NEW q \in DOMAIN Put(s, p, x), Signed(f, Put(s, p, x)[q])
             PROVE  \/ l + 1 > 5 /\ q = Out("shim.efi")
                    \/ l + 1 > 11 /\ q = Out("kernel.efi")
  BY DEF SignedOnly
<1>1. CASE q = p
  <2>1. Put(s, p, x)[q] = x
    BY <1>1 DEF Put
  <2> QED
    BY <1>1, <2>1
<1>2. CASE q # p
  <2>1. q \in DOMAIN s /\ Put(s, p, x)[q] = s[q]
    BY <1>2 DEF Put
  <2> QED
    BY <2>1 DEF SignedOnly
<1> QED
  BY <1>1, <1>2

LEMMA RunSigned ==
    ASSUME NEW f, NEW l \in 1 .. 12, NEW s, Kept(f, s), SignedOnly(f, l, s), Finds(Script[l], s)
    PROVE  SignedOnly(f, l + 1, Effect(Script[l], s))
<1> DEFINE t == Effect(Script[l], s)
<1>1. ASSUME NEW p, NEW x, t = Put(s, p, x), x.sigs = {} PROVE SignedOnly(f, l + 1, t)
  BY <1>1, NoSignature, PutSigned
<1>2. ASSUME NEW p, NEW q, t = Put(s, p, s[q]), q \in DOMAIN s, q.dir \notin Trap \cup {"export"}
      PROVE  SignedOnly(f, l + 1, t)
  <2>1. q \in DOMAIN f /\ s[q] = f[q]
    BY <1>2, Found
  <2>2. ~Signed(f, s[q])
    BY <2>1, CameSigned
  <2> QED
    BY <1>2, <2>2, PutSigned
<1>3. CASE l = 1
  BY <1>3, Effects DEF SignedOnly
<1>4. CASE l = 2
  <2>1. t = Put(s, Out("ovmf-code.fd"), s[Kit("ovmf-code.fd")])
    BY <1>4, Effects
  <2>2. Kit("ovmf-code.fd") \in DOMAIN s
    BY <1>4, ScriptLines DEF Finds, Cp
  <2> QED
    BY <1>2, <2>1, <2>2 DEF Kit, Path, Trap
<1>5. CASE l = 3
  <2> DEFINE x == SetParts(s[Kit("ovmf-vars.fd")], Variables(s, Script[3]))
  <2>1. t = Put(s, Out("ovmf-vars.fd"), x) /\ x.sigs = {}
    BY <1>5, Effects DEF SetParts, File
  <2> QED
    BY <1>1, <2>1
<1>6. CASE l = 4
  <2> DEFINE x == SetParts(s[Kit("shim.efi")], VendorDB(s, Script[4]))
  <2>1. t = Put(s, Out("shim.efi"), x) /\ x.sigs = {}
    BY <1>6, Effects DEF SetParts, File
  <2> QED
    BY <1>1, <2>1
<1>7. CASE l = 5
  <2> DEFINE x == Sign(s[Out("shim.efi")], s[CertOf("uefi-db")].base, s[KeyOf("uefi-db")].base)
  <2>1. t = Put(s, Out("shim.efi"), x)
    BY <1>7, Effects
  <2> QED
    BY <1>7, <2>1, PutSigned
<1>8. CASE l = 6
  <2>1. t = Put(s, Extra("manifestCA.pem"), s[CertOf("manifest-ca")])
    BY <1>8, Effects
  <2>2. CertOf("manifest-ca") \in DOMAIN s
    BY <1>8, ScriptLines DEF Finds, Cp
  <2> QED
    BY <1>2, <2>1, <2>2 DEF CertOf, Path, Trap
<1>9. CASE l = 7
  <2>1. t = Put(s, Extra("pcr7data"), s[Path("keys", "pcr7data")])
    BY <1>9, Effects
  <2>2. Path("keys", "pcr7data") \in DOMAIN s
    BY <1>9, ScriptLines DEF Finds, Cp
  <2> QED
    BY <1>2, <2>1, <2>2 DEF Path, Trap
<1>10. CASE l = 8
  <2> DEFINE x == Extended(Early(Script[8], s), Cpios(s, Script[8].cpios))
  <2>1. t = Put(s, Work("initrd.img"), x) /\ x.sigs = {}
    BY <1>10, Effects DEF Extended, Initrd, File
  <2> QED
    BY <1>1, <2>1
<1>11. CASE l = 9
  <2>1. t = Without(s, {"initrd-extra"})
    BY <1>11, Effects
  <2>2. \A p \in DOMAIN t : p \in DOMAIN s /\ t[p] = s[p]
    BY <2>1 DEF Without
  <2> HIDE DEF t
  <2>3. SignedOnly(f, l + 1, t)
    BY <1>11, <2>2 DEF SignedOnly
  <2> QED
    BY <2>3 DEF t
<1>12. CASE l = 10
  <2> DEFINE x == SetParts(s[Kit("stubby.efi")], Sections(s, Script[10]))
  <2>1. t = Put(s, Out("kernel.efi"), x) /\ x.sigs = {}
    BY <1>12, Effects DEF SetParts, File
  <2> QED
    BY <1>1, <2>1
<1>13. CASE l = 11
  <2> DEFINE x == Sign(s[Out("kernel.efi")], s[CertOf("uki-production")].base,
                       s[KeyOf("uki-production")].base)
  <2>1. t = Put(s, Out("kernel.efi"), x)
    BY <1>13, Effects
  <2> QED
    BY <1>13, <2>1, PutSigned
<1>14. CASE l = 12
  <2> DEFINE x == Archive("tar", s, "customized")
  <2>1. t = Put(s, Export, x) /\ x.sigs = {}
    BY <1>14, Effects DEF Archive, File
  <2> QED
    BY <1>1, <2>1
<1> QED
  BY <1>3, <1>4, <1>5, <1>6, <1>7, <1>8, <1>9, <1>10, <1>11, <1>12, <1>13, <1>14

\* Where the lines after the first signature write.
LEMMA LaterTargets ==
    /\ Target(Script[6]) = Extra("manifestCA.pem") /\ Target(Script[7]) = Extra("pcr7data")
    /\ Target(Script[8]) = Work("initrd.img") /\ Target(Script[9]) = NoPath
    /\ Target(Script[10]) = Out("kernel.efi") /\ Target(Script[11]) = Out("kernel.efi")
    /\ Target(Script[12]) = Export
<1> USE ScriptLines DEF Target, Path, NoPath, Empty, Out, Work, Extra, Export
<1>1. Target(Script[6]) = Extra("manifestCA.pem") /\ Target(Script[7]) = Extra("pcr7data")
  BY DEF Cp
<1>2. Target(Script[8]) = Work("initrd.img")
  BY DEF InitrdJoin
<1>3. Target(Script[9]) = NoPath
  BY DEF Rm
<1>4. Target(Script[10]) = Out("kernel.efi")
  BY DEF Smoosh
<1>5. Target(Script[11]) = Out("kernel.efi")
  BY DEF SignEfi
<1>6. Target(Script[12]) = Export
  BY DEF Tar
<1> QED
  BY <1>1, <1>2, <1>3, <1>4, <1>5, <1>6

\* What is signed is no target of a command that is still to come.
LEMMA SignedNoTarget ==
    ASSUME NEW f, NEW l \in 1 .. 12, NEW s, SignedOnly(f, l, s), NEW p \in DOMAIN s, Signed(f, s[p])
    PROVE  p # Target(Script[l]) /\ p # Tmp /\ p.dir = "customized"
<1>1. \/ l > 5 /\ p = Out("shim.efi")
      \/ l > 11 /\ p = Out("kernel.efi")
  BY DEF SignedOnly
<1>2. p # Tmp /\ p.dir = "customized"
  BY <1>1 DEF Tmp, Out, Path
<1>3. CASE l \in 6 .. 11
  <2>1. p = Out("shim.efi")
    BY <1>1, <1>3
  <2>2. Target(Script[l]) \in {Extra("manifestCA.pem"), Extra("pcr7data"), Work("initrd.img"), NoPath,
                               Out("kernel.efi")}
    BY <1>3, LaterTargets
  <2> QED
    BY <1>2, <2>1, <2>2 DEF Out, Extra, Work, NoPath, Path, Empty
<1>4. CASE l = 12
  <2>1. Target(Script[l]) = Export
    BY <1>4, LaterTargets
  <2> QED
    BY <1>2, <2>1 DEF Export, Path
<1> QED
  BY <1>1, <1>3, <1>4

\* The inputs of the two commands that copy before they change the copy.
LEMMA CopiedFromKit ==
    ASSUME NEW l \in 1 .. 12, Script[l].op \in {"set-db", "smoosh"}
    PROVE  Script[l].in \in {Kit("shim.efi"), Kit("stubby.efi")}
<1> USE ScriptLines
<1>1. l \in {4, 10}
  BY DEF TestDirs, Cp, SecureBoot, SignEfi, InitrdJoin, Rm, Tar
<1> QED
  BY <1>1 DEF SetDB, Smoosh

LEMMA NoTemp == ASSUME NEW l \in 1 .. 12, Script[l].op = "secure-boot" PROVE Script[l].out # NoPath
<1> USE ScriptLines
<1>1. l = 3
  BY DEF TestDirs, Cp, SetDB, Smoosh, SignEfi, InitrdJoin, Rm, Tar
<1> QED
  BY <1>1 DEF SecureBoot, Out, NoPath, Path, Empty

\* What is signed in the middle of a command was signed before it.
LEMMA FilesSigned ==
    ASSUME IInv, ReadInv, BuildInv, SignedInv, line \in 1 .. 12, result = "none",
           NEW p \in DOMAIN files, Signed(job.files, files[p])
    PROVE  Has(before, p, files[p]) /\ p # Target(cmd) /\ p # Tmp /\ p.dir = "customized"
<1> DEFINE f == job.files
<1>1. cmd = Script[line] /\ SignedOnly(f, line, before) /\ Kept(f, before)
  BY Lines DEF SignedInv, BuildInv
<1>2. ~Signed(f, Blank)
  BY NoSignature DEF Blank, Plain, File
<1>3. cmd.op \in {"set-db", "smoosh"} /\ cmd.in \in DOMAIN before => ~Signed(f, before[cmd.in])
  <2> SUFFICES ASSUME cmd.op \in {"set-db", "smoosh"}, cmd.in \in DOMAIN before
               PROVE  ~Signed(f, before[cmd.in])
    OBVIOUS
  <2>1. cmd.in.dir = "bootkit"
    BY <1>1, CopiedFromKit DEF Kit, Path
  <2> QED
    BY <1>1, <2>1, Found, CameSigned DEF Trap
<1>4. cmd.op = "secure-boot" => cmd.out # NoPath
  BY <1>1, NoTemp
<1>5. files = before \/ \E x : files = Put(before, Target(cmd), x) /\ ~Signed(f, x)
  <2>1. CASE step \in Resting \cup {"test", "rm", "sign"}
    BY <2>1 DEF IInv, StepInv
  <2>2. CASE step \in {"certs", "objcopy"}
    <3>1. cmd.op \in {"set-db", "smoosh"} => cmd.in \in DOMAIN before
      BY <2>2 DEF ReadInv
    <3> QED
      BY <1>2, <1>3, <1>4, <2>2, <3>1 DEF IInv, StepInv, ForDB, ForVars, Copied
  <2>3. CASE step = "vars"
    BY <1>4, <2>3 DEF IInv, StepInv, ForVars
  <2>4. CASE step = "append"
    <3>1. ~Signed(f, Early(cmd, before))
      BY NoSignature DEF Early, Initrd, File
    <3> QED
      BY <2>4, <3>1 DEF IInv, StepInv, Begun
  <2>5. CASE step = "truncate"
    BY <1>4, <2>5 DEF IInv, StepInv, MayWrite, Whole
  <2>6. CASE step = "fill"
    BY <1>2, <1>4, <2>6 DEF IInv, StepInv, MayWrite, Whole
  <2> QED
    BY <2>1, <2>2, <2>3, <2>4, <2>5, <2>6 DEF IInv, TypeOK, Steps, Resting
<1>6. Has(before, p, files[p])
  <2>1. ASSUME NEW x, files = Put(before, Target(cmd), x), ~Signed(f, x) PROVE Has(before, p, files[p])
    BY <2>1 DEF Put, Has
  <2> QED
    BY <1>5, <2>1 DEF Has
<1> QED
  BY <1>1, <1>6, SignedNoTarget DEF Has

LEMMA NextSigned ==
    ASSUME IInv, ReadInv, BuildInv, SignedInv, [Next]_vars
    PROVE  SignedInv'
<1> SUFFICES ASSUME result' = "none" PROVE SignedOnly(job'.files, line', before')
  BY DEF SignedInv
<1>1. line' # line => Finds(cmd, before)
  BY NextFinds
<1>2. CASE Atomic!Run
  <2>1. /\ before' = Effect(cmd, before) /\ line' = line + 1 /\ job' = job /\ result = "none"
        /\ line \in 1 .. 12 /\ cmd = Script[line]
    BY <1>2, Lines, SameEffect DEF Atomic!Run, cmd
  <2>2. Finds(Script[line], before)
    BY <1>1, <2>1
  <2> QED
    BY <2>1, <2>2, RunSigned DEF BuildInv, SignedInv
<1>3. CASE UNCHANGED Abstract
  BY <1>3 DEF Abstract, SignedInv
<1>4. ~Atomic!Break /\ ~Atomic!Finish /\ ~Atomic!Exit
  BY DEF Atomic!Break, Atomic!Finish, Atomic!Exit
<1> QED
  BY <1>2, <1>3, <1>4, NextStep DEF Atomic!Next

-----------------------------------------------------------------------------
(* The tar is written by the last line, at once when it is filled.         *)

Output(s) == IF Export \notin DOMAIN s THEN "old" ELSE IF s[Export] = Blank THEN "partial" ELSE "whole"

LEMMA WithoutOutput == ASSUME NEW s, NEW dirs, "export" \notin dirs PROVE Output(Without(s, dirs)) = Output(s)
<1>1. Export.dir \notin dirs
  BY DEF Export, Path
<1>2. Export \in DOMAIN Without(s, dirs) <=> Export \in DOMAIN s
  BY <1>1 DEF Without
<1>3. Export \in DOMAIN s => Without(s, dirs)[Export] = s[Export]
  BY <1>1 DEF Without
<1> QED
  BY <1>2, <1>3 DEF Output

\* Before its last line the build has no tar, not even an empty one.
LEMMA NoOutput ==
    ASSUME IInv, BuildInv, line \in 1 .. 11, result = "none"
    PROVE  Export \notin DOMAIN files /\ Export \notin DOMAIN before /\ Target(cmd) # Export
<1>1. cmd = Script[line] /\ Export \notin DOMAIN before
  BY Lines DEF BuildInv, Made
<1>2. Target(cmd) # Export
  <2> USE ScriptLines DEF Target, Path, NoPath, Empty, Out, Work, Extra, Export
  <2>1. CASE line \in {1, 9}
    BY <1>1, <2>1 DEF TestDirs, Rm
  <2>2. CASE line = 2
    BY <1>1, <2>2 DEF Cp
  <2>3. CASE line = 3
    BY <1>1, <2>3 DEF SecureBoot
  <2>4. CASE line = 4
    BY <1>1, <2>4 DEF SetDB
  <2>5. CASE line = 5
    BY <1>1, <2>5 DEF SignEfi
  <2>6. CASE line \in {6, 7, 8, 10, 11}
    BY <1>1, <2>6, LaterTargets
  <2> QED
    BY <2>1, <2>2, <2>3, <2>4, <2>5, <2>6
<1>3. line <= Len(job.script) /\ step \notin {"exit", "done"}
  BY ScriptLines DEF BuildInv, IInv
<1>4. AlikeOff({Target(cmd), Tmp}, files, before)
  BY <1>3, FilesAlike
<1>5. Export # Tmp
  BY DEF Export, Tmp, Path
<1> QED
  BY <1>1, <1>2, <1>4, <1>5 DEF AlikeOff

\* The steps of the tar: the target is there from its truncation on.
LEMMA TarSteps ==
    ASSUME IInv, BuildInv, line = 12, result = "none"
    PROVE  /\ cmd.op = "tar" /\ Target(cmd) = Export /\ cmd.dir = "customized"
           /\ step \in {"begin", "truncate"} => Output(files) = "old"
           /\ step = "fill" => Output(files) = "partial"
           /\ step \in {"begin", "truncate", "fill"}
<1>1. cmd = Tar("customized", Export) /\ Export \notin DOMAIN before
  BY Lines, ScriptLines DEF BuildInv, Made
<1>2. cmd.op = "tar" /\ Target(cmd) = Export /\ cmd.dir = "customized"
  BY <1>1, LaterTargets, ScriptLines DEF Tar
<1>3. step \notin {"exit", "done"}
  BY DEF IInv
<1>4. step \in {"begin", "truncate", "fill"}
  BY <1>2, <1>3 DEF IInv, TypeOK, Steps, StepInv
<1>5. step \in {"begin", "truncate"} => files = before
  BY <1>2 DEF IInv, StepInv, Resting, Whole
<1>6. step = "fill" => files = Put(before, Export, Blank)
  BY <1>2 DEF IInv, StepInv, Whole
<1> QED
  BY <1>1, <1>2, <1>4, <1>5, <1>6 DEF Output, Put

LEMMA OutputStep ==
    ASSUME IInv, ReadInv, BuildInv, [Next]_vars, IInv', BuildInv'
    PROVE  \/ Output(files') = Output(files) /\ result' = result
           \/ result = "none" /\ result' = "none" /\ Output(files) = "old" /\ Output(files') = "partial"
           \/ result = "none" /\ result' = "none" /\ Output(files) # "whole" /\ Output(files') = "whole"
           \/ result = "none" /\ result' = "ok" /\ Output(files) = "whole" /\ Output(files') = "whole"
           \/ result = "none" /\ result' = "error" /\ Output(files) # "whole"
              /\ Output(files') = Output(files)
<1>1. CASE UNCHANGED vars
  BY <1>1 DEF vars
<1>2. CASE Exit
  <2>1. files' = Without(files, Trap) /\ result' = result
    BY <1>2 DEF Exit, BuildInv
  <2> QED
    BY <2>1, WithoutOutput DEF Trap
<1>3. CASE ScriptEnds
  <2>1. result = "none" /\ result' = "ok" /\ files' = files /\ files = before
    BY <1>3 DEF ScriptEnds, IInv, StepInv, Resting
  <2>2. line = 13
    BY <1>3, Lines, ScriptLines DEF ScriptEnds, BuildInv
  <2>3. \E x : IsTar(job.files, x) /\ Has(before, Export, x)
    BY <2>1, <2>2 DEF BuildInv, Made
  <2>4. Output(files) = "whole"
    BY <2>1, <2>3 DEF Output, Has, IsTar
  <2> QED
    BY <2>1, <2>4
<1>4. CASE StepFails
  <2>1. result = "none" /\ result' = "error" /\ line \in 1 .. 12 /\ job' = job /\ files' = before'
    BY <1>4, Lines DEF StepFails, IInv
  <2>2. CASE line \in 1 .. 11
    <3>1. Export \notin DOMAIN files /\ Target(cmd) # Export
      BY <2>1, <2>2, NoOutput
    <3>2. Export \notin DOMAIN files'
      BY <1>4, <3>1 DEF StepFails, Without, Put, Drop
    <3> QED
      BY <2>1, <3>1, <3>2 DEF Output
  <2>3. CASE line = 12
    <3>1. cmd.op = "tar" /\ step \in {"begin", "truncate", "fill"} /\ Output(files) # "whole"
      BY <2>1, <2>3, TarSteps
    <3>2. files' = Without(files, {"tmp"})
      BY <1>4, <3>1 DEF StepFails
    <3> QED
      BY <2>1, <3>1, <3>2, WithoutOutput
  <2> QED
    BY <2>1, <2>2, <2>3
<1>5. CASE CommandStep
  <2>1. result = "none" /\ result' = "none" /\ line \in 1 .. 12 /\ job' = job
    <3>1. line <= Len(job.script) /\ step \notin {"exit", "done"}
      BY <1>5 DEF CommandStep, Begin, TestDir, RemoveDir, Truncate, Fill, LoadCerts, SetSections,
                  MakeVars, SignImage, AppendCpios, IInv, StepInv, Resting
    <3>2. UNCHANGED <<job, result>>
      BY <1>5 DEF CommandStep, Begin, TestDir, RemoveDir, Truncate, Fill, LoadCerts, SetSections,
                  MakeVars, SignImage, AppendCpios, Returns, Goto
    <3> QED
      BY <3>1, <3>2, Lines DEF IInv, TypeOK
  <2>2. CASE line \in 1 .. 11
    <3>1. Export \notin DOMAIN files /\ Target(cmd) # Export /\ Tmp # Export
      BY <2>1, <2>2, NoOutput DEF Tmp, Export, Path
    <3>2. cmd.out # NoPath => Target(cmd) = cmd.out
      BY DEF Target
    <3>3. cmd.op = "initrd-join" => Target(cmd) = cmd.out
      <4>1. IsSane(cmd)
        BY <2>1, ScriptLines, CmdSane DEF BuildInv
      <4> QED
        BY <4>1 DEF IsSane, Reads, Target
    <3>4. Export \notin DOMAIN files'
      BY <1>5, <3>1, <3>2, <3>3 DEF CommandStep, Begin, TestDir, RemoveDir, Truncate, Fill, LoadCerts,
         SetSections, MakeVars, SignImage, AppendCpios, Returns, Without, Put, IInv, StepInv
    <3> QED
      BY <2>1, <3>1, <3>4 DEF Output
  <2>3. CASE line = 12
    <3>1. /\ cmd.op = "tar" /\ Target(cmd) = Export /\ cmd.dir = "customized"
          /\ step \in {"begin", "truncate"} => Output(files) = "old"
          /\ step = "fill" => Output(files) = "partial"
          /\ step \in {"begin", "truncate", "fill"}
      BY <2>1, <2>3, TarSteps
    <3>2. CASE step = "begin"
      BY <1>5, <2>1, <3>1, <3>2 DEF CommandStep, Begin, TestDir, RemoveDir, Truncate, Fill, LoadCerts,
         SetSections, MakeVars, SignImage, AppendCpios
    <3>3. CASE step = "truncate"
      <4>1. files' = Put(files, Export, Blank)
        BY <1>5, <3>1, <3>3 DEF CommandStep, Begin, TestDir, RemoveDir, Truncate, Fill, LoadCerts,
           SetSections, MakeVars, SignImage, AppendCpios
      <4> QED
        BY <2>1, <3>1, <3>3, <4>1 DEF Output, Put
    <3>4. CASE step = "fill"
      <4> DEFINE x == Archive("tar", files, "customized")
      <4>1. Returns(Put(files, Export, x))
        BY <1>5, <3>1, <3>4 DEF CommandStep, Begin, TestDir, RemoveDir, Truncate, Fill, LoadCerts,
           SetSections, MakeVars, SignImage, AppendCpios, AfterFill
      <4>2. x # Blank
        BY DEF Archive, Blank, Plain, File
      <4> HIDE DEF x
      <4>3. Output(Put(files, Export, x)) = "whole"
        BY <4>2 DEF Output, Put
      <4>4. Output(files') = "whole"
        BY <4>1, <4>3, WithoutOutput DEF Returns
      <4> QED
        BY <2>1, <3>1, <3>4, <4>4
    <3> QED
      BY <3>1, <3>2, <3>3, <3>4
  <2> QED
    BY <2>1, <2>2, <2>3
<1> QED
  BY <1>1, <1>2, <1>3, <1>4, <1>5 DEF Next, Terminated

-----------------------------------------------------------------------------
(* The theorems.                                                           *)

\* The invariant, of every build of every bootkit: what the store holds, line by
\* line, and what is signed.
THEOREM BuildInvariance == Spec => [](IInv /\ ReadInv /\ BuildInv /\ SignedInv)
<1>1. Init => ReadInv /\ BuildInv /\ SignedInv
  <2> SUFFICES ASSUME Init PROVE ReadInv /\ BuildInv /\ SignedInv
    OBVIOUS
  <2>1. ReadInv
    BY DEF Init, ReadInv
  <2>2. SignedInv
    BY CameSigned DEF Init, SignedInv, SignedOnly
  <2> QED
    BY <2>1, <2>2, InitBuild
<1>2. IInv /\ ReadInv /\ BuildInv /\ SignedInv /\ [Next]_vars
      => (IInv /\ ReadInv /\ BuildInv /\ SignedInv)'
  BY NextStep, NextFinds, NextBuild, NextSigned
<1> QED
  BY <1>1, <1>2, InitIInv, PTL DEF Spec

\* The tar of a build that succeeded.
LEMMA SuccessTar ==
    ASSUME IInv, BuildInv, result = "ok"
    PROVE  IsTar(job.files, files[Export])
<1>1. files = before
  BY DEF IInv, StepInv, Resting
<1> QED
  BY <1>1 DEF BuildInv, Has

LEMMA SignedVerifies ==
    ASSUME NEW base, NEW parts, NEW c
    PROVE  Verifies(Sign(File(base, parts), c, c), c)
  BY DEF Verifies, Sign, Signature, File

\* The keys of every keyset that are pairs make a chain of trust: what the
\* firmware verifies is the shim that was exported, and what shim verifies the
\* kernel.
THEOREM ChainIsTrusted == Spec => []ChainOfTrust
<1>1. IInv /\ BuildInv => ChainOfTrust
  <2> SUFFICES ASSUME IInv, BuildInv, result = "ok" PROVE ChainOfTrust
    BY DEF ChainOfTrust
  <2> DEFINE f == job.files
             x == files[Export]
             shim == SignedWith(f, "uefi-db", ShimOf(f))
  <2>1. IsTar(f, x)
    BY SuccessTar
  <2>2. Exported("ovmf-vars.fd") = VarsOf(f) /\ Exported("shim.efi") = shim
    BY <2>1 DEF IsTar, Exported
  <2>3. ASSUME IsPair("uefi-db")
        PROVE  \E c \in Certs(VarsOf(f).parts["db"]) : Verifies(shim, c)
    <3> DEFINE c == CertAt("uefi-db")
    <3>1. VarsOf(f).parts["db"] = Load(f, <<Dir("uefi-db")>>)
      BY ScriptLines DEF VarsOf, SetParts, File, Variables, SecureBoot
    <3>2. c \in Certs(VarsOf(f).parts["db"])
      BY <3>1 DEF Load, Certs, Dir, CertAt
    <3>3. shim = Sign(ShimOf(f), c, c)
      BY <2>3 DEF SignedWith, IsPair, CertAt
    <3>4. Verifies(shim, c)
      BY <3>3, SignedVerifies DEF ShimOf, SetParts
    <3> QED
      BY <3>2, <3>4
  <2>4. ASSUME IsPair("uki-production")
        PROVE  \E c \in Certs(shim.parts[".vendor_cert"]) : Verifies(Exported("kernel.efi"), c)
    <3> DEFINE c == CertAt("uki-production")
               certs == <<Dir("uki-limited"), Dir("uki-production"), Dir("uki-tpm")>>
    <3>1. shim.parts[".vendor_cert"] = Load(f, certs)
      BY ScriptLines DEF SignedWith, Sign, ShimOf, SetParts, File, VendorDB, SetDB
    <3>2. c \in Certs(shim.parts[".vendor_cert"])
      <4>1. Load(f, certs)[2].cert = c /\ Len(Load(f, certs)) = 3
        BY DEF Load, Dir, CertAt
      <4> QED
        BY <3>1, <4>1 DEF Certs
    <3>3. PICK k : IsKernel(f, k) /\ Exported("kernel.efi") = SignedWith(f, "uki-production", k)
      BY <2>1 DEF IsTar, Exported
    <3>4. Exported("kernel.efi") = Sign(File(k.base, k.parts), c, c)
      BY <2>4, <3>3 DEF SignedWith, IsPair, CertAt, IsKernel
    <3>5. Verifies(Exported("kernel.efi"), c)
      BY <3>4, SignedVerifies
    <3> QED
      BY <3>2, <3>5
  <2> QED
    BY <2>2, <2>3, <2>4 DEF ChainOfTrust
<1> QED
  BY <1>1, BuildInvariance, PTL

\* What is exported is made of the bootkit and the keys that the build was given,
\* and trusts no other.
THEOREM ArtifactsCorrect == Spec => []ArtifactsAsDocumented
<1>1. IInv /\ BuildInv => ArtifactsAsDocumented
  <2> SUFFICES ASSUME IInv, BuildInv, result = "ok" PROVE ArtifactsAsDocumented
    BY DEF ArtifactsAsDocumented
  <2> DEFINE f == job.files
  <2>1. IsTar(f, files[Export])
    BY SuccessTar
  <2>2. PICK k : IsKernel(f, k) /\ Exported("kernel.efi") = SignedWith(f, "uki-production", k)
    BY <2>1 DEF IsTar, Exported
  <2>3. Exported("kernel.efi").parts = k.parts
    BY <2>2 DEF SignedWith, Sign, IsKernel, File
  <2>4. Certs(Exported("shim.efi").parts[".vendor_cert"]) =
            {CertAt("uki-limited"), CertAt("uki-production"), CertAt("uki-tpm")}
    <3> DEFINE certs == <<Dir("uki-limited"), Dir("uki-production"), Dir("uki-tpm")>>
    <3>1. Exported("shim.efi").parts[".vendor_cert"] = Load(f, certs)
      BY <2>1, ScriptLines DEF IsTar, Exported, SignedWith, Sign, ShimOf, SetParts, File, VendorDB, SetDB
    <3>2. /\ Len(Load(f, certs)) = 3
          /\ Load(f, certs)[1].cert = CertAt("uki-limited")
          /\ Load(f, certs)[2].cert = CertAt("uki-production")
          /\ Load(f, certs)[3].cert = CertAt("uki-tpm")
      BY DEF Load, Dir, CertAt
    <3> QED
      BY <3>1, <3>2 DEF Certs
  <2>5. /\ Certs(Exported("ovmf-vars.fd").parts["PK"])  = {CertAt("uefi-pk")}
        /\ Certs(Exported("ovmf-vars.fd").parts["KEK"]) = {CertAt("uefi-kek")}
        /\ Certs(Exported("ovmf-vars.fd").parts["db"])  = {CertAt("uefi-db")}
        /\ Exported("ovmf-vars.fd").parts["MOK"] = << >>
    <3>1. /\ Exported("ovmf-vars.fd").parts["PK"]  = Load(f, <<Dir("uefi-pk")>>)
          /\ Exported("ovmf-vars.fd").parts["KEK"] = Load(f, <<Dir("uefi-kek")>>)
          /\ Exported("ovmf-vars.fd").parts["db"]  = Load(f, <<Dir("uefi-db")>>)
          /\ Exported("ovmf-vars.fd").parts["MOK"] = Load(f, << >>)
      BY <2>1, ScriptLines DEF IsTar, Exported, VarsOf, SetParts, File, Variables, SecureBoot
    <3>2. \A dir : Certs(Load(f, <<Dir(dir)>>)) = {CertAt(dir)}
      BY DEF Load, Certs, Dir, CertAt
    <3>3. Load(f, << >>) = << >>
      BY DEF Load
    <3> QED
      BY <3>1, <3>2, <3>3
  <2>6. Exported("ovmf-code.fd") = f[Kit("ovmf-code.fd")]
    BY <2>1 DEF IsTar, Exported
  <2> QED
    BY <2>2, <2>3, <2>4, <2>5, <2>6 DEF ArtifactsAsDocumented, IsKernel, IsInitrd
<1> QED
  BY <1>1, BuildInvariance, PTL

\* No build of any bootkit changes what it was given, at any time, and only its
\* tar outlives it.
THEOREM InputIsSafe == Spec => []OnlyTheTarIsLeft
<1>1. IInv /\ BuildInv => OnlyTheTarIsLeft
  <2> SUFFICES ASSUME IInv, BuildInv PROVE OnlyTheTarIsLeft
    OBVIOUS
  <2> DEFINE f == job.files
  <2>1. step \in Resting => files = before
    BY DEF IInv, StepInv
  <2>2. Kept(f, before) /\ IsInput(f)
    BY DEF BuildInv
  <2>3. ASSUME NEW p \in DOMAIN f PROVE p \in DOMAIN files /\ files[p] = f[p]
    <3>1. Has(before, p, f[p])
      BY <2>2 DEF Kept
    <3>2. CASE step \in Resting
      BY <2>1, <3>1, <3>2 DEF Has
    <3>3. CASE step \notin Resting
      <4>1. line \in 1 .. 12 /\ cmd = Script[line] /\ line <= Len(job.script)
        BY <3>3, Lines DEF IInv, StepInv
      <4>2. p # Target(cmd)
        BY <2>2, <4>1, Targets DEF IsInput, In, Export, Path
      <4>3. p # Tmp
        BY <3>1 DEF Has, IInv, Clean, In, Tmp, Path
      <4>4. AlikeOff({Target(cmd), Tmp}, files, before)
        BY <3>3, <4>1, FilesAlike DEF Resting
      <4> QED
        BY <3>1, <4>2, <4>3, <4>4 DEF AlikeOff, Has
    <3> QED
      BY <3>2, <3>3
  <2>4. step = "done" => DOMAIN files \subseteq DOMAIN f \cup {Export}
    BY <2>1, <2>2 DEF BuildInv, Kept, In, Resting
  <2> QED
    BY <2>3, <2>4 DEF OnlyTheTarIsLeft
<1> QED
  BY <1>1, BuildInvariance, PTL

\* No step of a build, not one that fails either, writes to what it has signed.
THEOREM SignaturesStay == Spec => SignedIsFinal
<1> DEFINE Stays(p) == \/ p \in DOMAIN files' /\ files'[p] = files[p]
                       \/ step = "exit" /\ p.dir \in Trap
<1>1. ASSUME IInv, ReadInv, BuildInv, SignedInv, OthersAreUntouched', [Next]_vars,
             NEW p \in DOMAIN files, Signed(job.files, files[p])
      PROVE  Stays(p)
  <2>1. CASE UNCHANGED vars \/ ScriptEnds
    BY <1>1, <2>1 DEF vars, ScriptEnds
  <2>2. CASE Exit
    <3>1. files' = Without(files, Trap) /\ step = "exit"
      BY <1>1, <2>2 DEF Exit, BuildInv
    <3> QED
      BY <3>1 DEF Without
  <2>3. CASE StepFails \/ CommandStep
    <3>1. line \in 1 .. 12 /\ result = "none" /\ cmd = Script[line]
      <4>1. line <= Len(job.script) /\ step \notin {"exit", "done"}
        BY <1>1, <2>3 DEF StepFails, CommandStep, Begin, TestDir, RemoveDir, Truncate, Fill, LoadCerts,
           SetSections, MakeVars, SignImage, AppendCpios, IInv, StepInv, Resting
      <4> QED
        BY <1>1, <4>1, Lines DEF IInv
    <3>2. Has(before, p, files[p]) /\ p # Target(cmd) /\ p # Tmp /\ p.dir = "customized"
      BY <1>1, <3>1, FilesSigned
    <3>3. CASE StepFails
      <4>1. p.dir # "tmp" /\ p \in DOMAIN files
        BY <1>1, <3>2
      <4> QED
        BY <3>2, <3>3, <4>1 DEF StepFails, Without, Put, Drop
    <3>4. CASE CommandStep /\ Atomic!Run
      <4>1. line' # line
        BY <3>1, <3>4 DEF Atomic!Run
      <4>2. before' = Effect(Script[line], before)
        BY <3>1, <3>4, SameEffect DEF Atomic!Run, cmd
      <4>3. Has(before', p, files[p])
        <5>1. CASE cmd.op = "rm"
          <6>1. cmd = Rm("initrd-extra")
            BY <3>1, <5>1, ScriptLines DEF TestDirs, Cp, SecureBoot, SetDB, SignEfi, InitrdJoin, Smoosh, Tar
          <6> QED
            BY <3>1, <3>2, <4>2, <6>1 DEF Rm, Effect, Without, Has
        <5>2. CASE cmd.op # "rm"
          BY <3>1, <3>2, <4>2, <5>2 DEF Effect, Put, Has
        <5> QED
          BY <5>1, <5>2
      <4>4. files' = before'
        BY <3>4, <4>1 DEF CommandStep, Begin, TestDir, RemoveDir, Truncate, Fill, LoadCerts,
           SetSections, MakeVars, SignImage, AppendCpios, Returns, Goto
      <4> QED
        BY <4>3, <4>4 DEF Has
    <3>5. CASE CommandStep /\ UNCHANGED Abstract
      <4>1. before' = before /\ cmd' = cmd
        BY <3>5 DEF Abstract, cmd
      <4>2. Written' \subseteq {Target(cmd)}
        BY <4>1 DEF Written
      <4>3. p \notin Written' \cup {Tmp}
        BY <3>2, <4>2
      <4> QED
        BY <1>1, <3>2, <4>1, <4>3 DEF OthersAreUntouched, Has
    <3>6. CommandStep => Atomic!Run \/ UNCHANGED Abstract
      BY <1>1, StepBegin, StepTruncate, StepLoadCerts, StepSignImage, StepTestDir, StepRemoveDir,
         StepFill, StepSetSections, StepMakeVars, StepAppendCpios DEF CommandStep
    <3> QED
      BY <2>3, <3>3, <3>4, <3>5, <3>6
  <2> QED
    BY <1>1, <2>1, <2>2, <2>3 DEF Next, Terminated
<1>2. IInv /\ ReadInv /\ BuildInv /\ SignedInv /\ OthersAreUntouched' /\ [Next]_vars
      => [\A p \in DOMAIN files : IsSignedHere(files[p]) => Stays(p)]_vars
  BY <1>1 DEF IsSignedHere, Signed
<1> QED
  BY <1>2, BuildInvariance, OthersUntouched, PTL DEF Spec, SignedIsFinal

\* Every build keeps the promise of a tool that makes an image: it succeeds
\* exactly when its tar is whole.
THEOREM BuildPublishes == Spec => KeepsPublishPromise
<1> DEFINE Inv == IInv /\ ReadInv /\ BuildInv
<1>1. Init => Handed!Init
  <2> SUFFICES ASSUME Init PROVE Handed!Init
    OBVIOUS
  <2>1. Export \notin DOMAIN files /\ result = "none"
    BY InitBuild DEF Init, BuildInv, IsInput, In, Export, Path
  <2> QED
    BY <2>1 DEF Handed!Init
<1>2. Inv /\ Inv' /\ [Next]_vars => [Handed!Next]_Handed!vars
  <2> SUFFICES ASSUME Inv, Inv', [Next]_vars PROVE [Handed!Next]_Handed!vars
    OBVIOUS
  <2> QED
    BY OutputStep DEF Output, Handed!Next, Handed!vars, Handed!Spoil, Handed!Complete, Handed!Succeed,
       Handed!GiveUp
<1> QED
  BY <1>1, <1>2, BuildInvariance, PTL DEF Spec, KeepsPublishPromise, Handed!Spec
=============================================================================
