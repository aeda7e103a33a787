---- MODULE FlashChoice_proofs ----
(***************************************************************************)
(* What an OpenIPC installation chooses: the choice of ReleaseAssets, for  *)
(* any assets published under any names, and the choice of FlashLayout,    *)
(* for any environment and any flash.                                      *)
(***************************************************************************)
EXTENDS FlashLayout, ReleaseAssets, WellFoundedInduction, TLAPS

(***************************************************************************)
(* Assets.                                                                 *)
(***************************************************************************)
\* Whatever is single has no other beside it, also after a search that tries more.
LEMMA SingleIsOne ==
    ASSUME NEW S, NEW a \in Single(S), NEW b \in S
    PROVE  a \in S /\ a = b
  BY DEF Single

\* The bundle for which a search in one format or the other ends.
LEMMA OneArchiveIsOne ==
    ASSUME NEW S, NEW a \in OneArchive(S), NEW b \in OneArchive(S)
    PROVE  a \in S /\ a = b
  <1>1. CASE Single(Packed(S, "tgz")) # {}
    BY <1>1 DEF OneArchive, Or, Single, Packed
  <1>2. CASE Single(Packed(S, "tgz")) = {}
    BY <1>2 DEF OneArchive, Or, Single, Packed
  <1> QED
    BY <1>1, <1>2

\* If all have one format, it is one that all others are equal to.
LEMMA OneArchiveOfOneFormat ==
    ASSUME NEW S, \A x, y \in S : x.format = y.format,
           NEW a \in OneArchive(S), NEW o \in S
    PROVE  a = o
  <1>1. CASE Single(Packed(S, "tgz")) # {}
    BY <1>1 DEF OneArchive, Or, Single, Packed
  <1>2. CASE Single(Packed(S, "tgz")) = {}
    BY <1>2 DEF OneArchive, Or, Single, Packed
  <1> QED
    BY <1>1, <1>2

\* There is at most one bundle, a NOR image of the edition.
LEMMA BundleIsOne ==
    ASSUME NEW c, NEW a \in Bundle(c), NEW b \in Bundle(c)
    PROVE  /\ a = b
           /\ a \in Published[c.tag]
           /\ a.edition = c.fw /\ a.flash = "nor"
  <1> DEFINE Own == OneArchive(Bundles(c, Inside[c.soc]))
             Shared == OneArchive(Bundles(c, Inside[Family[c.soc]]))
             Any == Single(Bundles(c, Wildcards[c.soc]))
  <1>1. Bundle(c) = Or(Own, Or(Shared, Any))
    BY DEF Bundle
  <1>2. CASE Own # {}
    <2>1. a \in Own /\ b \in Own
      BY <1>1, <1>2 DEF Or
    <2> QED
      BY <2>1, OneArchiveIsOne DEF Bundles, Named
  <1>3. CASE Own = {} /\ Shared # {}
    <2>1. a \in Shared /\ b \in Shared
      BY <1>1, <1>3 DEF Or
    <2> QED
      BY <2>1, OneArchiveIsOne DEF Bundles, Named
  <1>4. CASE Own = {} /\ Shared = {}
    <2>1. a \in Any /\ b \in Any
      BY <1>1, <1>4 DEF Or
    <2> QED
      BY <2>1 DEF Single, Bundles, Named
  <1> QED
    BY <1>2, <1>3, <1>4

\* A SoC with a bundle of its own does not get another SoC's.
LEMMA OwnBundleFirst ==
    ASSUME NEW c, c.soc \in DOMAIN Family, c.tag \in DOMAIN Published,
           PublishesOwn(c), NEW a \in Bundle(c)
    PROVE  a.target \in {c.soc} \cup Wildcards[c.soc]
  <1> DEFINE Own == OneArchive(Bundles(c, Inside[c.soc]))
             Shared == OneArchive(Bundles(c, Inside[Family[c.soc]]))
             Any == Single(Bundles(c, Wildcards[c.soc]))
  <1>1. PICK o \in OwnBundles(c) : TRUE
    BY DEF PublishesOwn
  <1>2. o \in Bundles(c, Inside[c.soc]) /\ o \in Bundles(c, Inside[Family[c.soc]]) /\ o.target = c.soc
    BY <1>1, ReleaseAssumption DEF OwnBundles, Bundles, Named
  <1>3. \A T : \A x, y \in Bundles(c, T) : x.format = y.format
    BY DEF PublishesOwn, Bundles, Named
  <1>4. Bundle(c) = Or(Own, Or(Shared, Any))
    BY DEF Bundle
  <1>5. CASE a \in Own
    BY <1>5, <1>2, <1>3, OneArchiveOfOneFormat
  <1>6. CASE a \in Shared
    BY <1>6, <1>2, <1>3, OneArchiveOfOneFormat
  <1>7. CASE a \in Any
    BY <1>7 DEF Single, Bundles, Named
  <1> QED
    BY <1>4, <1>5, <1>6, <1>7 DEF Or

\* The kernel and the root file system, alone or in a bundle, belong together.
LEMMA FirmwareSuits ==
    ASSUME NEW c, c.soc \in DOMAIN Family, c.tag \in DOMAIN Published,
           NEW k \in Firmware(c), "kernel" \in DOMAIN k.holds,
           NEW r \in Firmware(c), "rootfs" \in DOMAIN r.holds
    PROVE  SuitableFirmware(c, k, r)
  <1>1. CASE Part(c, "kernel") # {} /\ Part(c, "rootfs") # {}
    <2>1. \A kind : Part(c, kind) \subseteq Named(c.tag, kind, Inside[c.soc])
      BY DEF Part, Or, Single
    <2>2. Firmware(c) = Part(c, "kernel") \cup Part(c, "rootfs")
      BY <1>1 DEF Firmware
    <2>3. \A a \in Firmware(c) :
              /\ a \in Published[c.tag]
              /\ a.target \in Inside[c.soc]
              /\ a.kind \in {"kernel", "rootfs"}
              /\ DOMAIN a.holds = {a.kind}
      BY <2>1, <2>2, ReleaseAssumption DEF Named
    <2>4. k.kind = "kernel" /\ r.kind = "rootfs"
      BY <2>3
    <2>5. ~PublishesOwn(c)
      BY <1>1, <2>1 DEF PublishesOwn
    <2> QED
      BY <2>3, <2>4, <2>5 DEF SuitableFirmware
  <1>2. CASE ~(Part(c, "kernel") # {} /\ Part(c, "rootfs") # {})
    <2>1. k \in Bundle(c) /\ r \in Bundle(c)
      BY <1>2 DEF Firmware
    <2>2. k = r /\ k \in Published[c.tag] /\ k.edition = c.fw /\ k.flash = "nor"
      BY <2>1, BundleIsOne
    <2>3. PublishesOwn(c) => k.target \in {c.soc} \cup Wildcards[c.soc]
      BY <2>1, OwnBundleFirst
    <2> QED
      BY <2>2, <2>3 DEF SuitableFirmware
  <1> QED
    BY <1>1, <1>2

\* The U-Boot is one for the SoC, never for NAND flash; u-boot-* is preferred to boot-*.
LEMMA UbootSuits ==
    ASSUME NEW c, NEW u \in Uboot(c)
    PROVE  SuitableUboot(c, u)
  <1>1. ASSUME NEW tag, NEW prefix, NEW a \in ExactUboot(tag, c.soc, prefix)
        PROVE  a \in Published[tag] /\ a.target \in Variants[c.soc] /\ a.flash # "nand"
    <2> DEFINE Matches == Named(tag, prefix, Variants[c.soc])
    <2>1. CASE a \in Single({m \in Matches : m.flash = "universal"})
      BY <2>1 DEF Single, Named
    <2>2. CASE a \in Single(Supported(Matches))
      BY <2>2 DEF Single, Supported, Named
    <2> QED
      BY <1>1, <2>1, <2>2 DEF ExactUboot, Or
  <1>2. ASSUME NEW tag, NEW a \in UbootIn(tag, c.soc)
        PROVE  a \in Published[tag] /\ a.target \in Variants[c.soc] /\ a.flash # "nand"
    BY <1>1, <1>2 DEF UbootIn, Or
  <1> QED
    BY <1>2 DEF Uboot, Or, SuitableUboot

(* Whatever an installation finds for a request suits it: the U-Boot is for the SoC and not for  *)
(* NAND flash, kernel and root file system belong together and are of the release that was asked *)
(* for, and a SoC that has firmware of its own does not get another's (openipc.py:596).          *)
THEOREM FoundSuits ==
    ASSUME NEW c, c.soc \in DOMAIN Family, c.tag \in DOMAIN Published,
           ReleaseFor(c) # None
    PROVE  Suits(c, ReleaseFor(c).images)
  <1> DEFINE Body == ReleaseFor(c).images
             U == Holder(c, "uboot")
             K == Holder(c, "kernel")
             R == Holder(c, "rootfs")
  <1>1. Complete(c) /\ Body = [role \in {"uboot", "kernel", "rootfs"} |-> Holder(c, role).holds[role]]
    BY DEF ReleaseFor
  <1>2. \E a \in Uboot(c) : "uboot" \in DOMAIN a.holds
    BY <1>1 DEF Complete
  <1>3. U \in Uboot(c) /\ "uboot" \in DOMAIN U.holds
    BY <1>2 DEF Holder
  <1>4. K \in Firmware(c) /\ "kernel" \in DOMAIN K.holds
    BY <1>1 DEF Complete, Holder
  <1>5. R \in Firmware(c) /\ "rootfs" \in DOMAIN R.holds
    BY <1>1 DEF Complete, Holder
  <1>6. SuitableUboot(c, U)
    BY <1>3, UbootSuits
  <1>7. SuitableFirmware(c, K, R)
    BY <1>4, <1>5, FirmwareSuits
  <1>8. Provides(U, "uboot", Body) /\ Provides(K, "kernel", Body) /\ Provides(R, "rootfs", Body)
    BY <1>1, <1>3, <1>4, <1>5 DEF Provides
  <1>9. U \in Published[c.tag] \cup Published[Latest] /\ K \in Published[c.tag] /\ R \in Published[c.tag]
    BY <1>6, <1>7 DEF SuitableUboot, SuitableFirmware
  <1> QED
    BY <1>6, <1>7, <1>8, <1>9 DEF Suits

(***************************************************************************)
(* Layouts.  The library's induction takes an operator; that a set of      *)
(* naturals has a least element does without one.                          *)
(***************************************************************************)
LEMMA LeastNatural ==
    ASSUME NEW T, T \subseteq Nat, T # {}
    PROVE  \E n \in T : \A m \in T : n <= m
  <1> DEFINE R == OpToRel(<, Nat)
  <1>1. IsWellFoundedOn(R, Nat)
    BY NatLessThanWellFounded
  <1>2. PICK n \in T : \A m \in T : <<m, n>> \notin R
    <2> HIDE DEF R
    <2> QED
      BY <1>1, WFMin
  <1>3. ASSUME NEW m \in T, m < n PROVE FALSE
    <2>1. <<m, n>> \in Nat \X Nat /\ <<m, n>>[1] = m /\ <<m, n>>[2] = n
      OBVIOUS
    <2>2. <<m, n>> \in R
      BY <2>1, <1>3 DEF OpToRel
    <2> QED
      BY <2>2, <1>2
  <1> QED
    BY <1>3

\* An entry that gives no offset starts where the one before it ends.
OffsetAfter(spec, g, i) ==
    IF spec[i].at # Follows THEN spec[i].at
    ELSE IF i = 1 THEN 0
    ELSE g[i - 1] + spec[i - 1].size

LEMMA OffsetAfterType ==
    ASSUME NEW spec \in Seq(PartitionSpecs), OpenOnlyLast(spec), NEW i \in 1 .. Len(spec),
           NEW g, i > 1 => g[i - 1] \in Nat
    PROVE  OffsetAfter(spec, g, i) \in Nat
  <1>1. spec[i] \in PartitionSpecs
    OBVIOUS
  <1>2. CASE spec[i].at # Follows
    BY <1>1, <1>2 DEF OffsetAfter, PartitionSpecs
  <1>3. CASE spec[i].at = Follows /\ i = 1
    BY <1>3 DEF OffsetAfter
  <1>4. CASE spec[i].at = Follows /\ i # 1
    <2>1. i - 1 \in 1 .. Len(spec) - 1 /\ i - 1 \in 1 .. Len(spec) /\ i > 1
      BY <1>4
    <2>2. spec[i - 1] \in PartitionSpecs /\ spec[i - 1].size # Open
      BY <2>1 DEF OpenOnlyLast
    <2>3. spec[i - 1].size \in Nat /\ g[i - 1] \in Nat
      BY <2>1, <2>2 DEF PartitionSpecs
    <2> QED
      BY <1>4, <2>3 DEF OffsetAfter
  <1> QED
    BY <1>2, <1>3, <1>4

\* The recursion has a solution,
LEMMA OffsetsExist ==
    ASSUME NEW spec \in Seq(PartitionSpecs), OpenOnlyLast(spec)
    PROVE  \E g \in [1 .. Len(spec) -> Nat] : \A i \in 1 .. Len(spec) : g[i] = OffsetAfter(spec, g, i)
  <1> DEFINE Solves(n, g) == g \in [1 .. n -> Nat] /\ \A i \in 1 .. n : g[i] = OffsetAfter(spec, g, i)
             T == {n \in 0 .. Len(spec) : ~\E g : Solves(n, g)}
  <1>1. Len(spec) \in Nat
    OBVIOUS
  <1>2. ASSUME T # {} PROVE FALSE
    <2>1. PICK n \in T : \A m \in T : n <= m
      <3>1. T \subseteq Nat
        BY <1>1
      <3> HIDE DEF T
      <3> QED
        BY <3>1, <1>2, LeastNatural
    <2>2. n # 0
      <3>1. Solves(0, [i \in 1 .. 0 |-> 0])
        OBVIOUS
      <3> QED
        BY <2>1, <3>1
    <2>3. n \in 1 .. Len(spec) /\ n - 1 \in 0 .. Len(spec) /\ ~(n <= n - 1)
      <3>1. n \in 0 .. Len(spec)
        BY <2>1
      <3> HIDE DEF T
      <3> QED
        BY <1>1, <2>2, <3>1
    <2>4. PICK g : Solves(n - 1, g)
      <3>1. n - 1 \notin T
        <4> HIDE DEF T
        <4> QED
          BY <2>1, <2>3
      <3> QED
        BY <2>3, <3>1
    <2> DEFINE last == OffsetAfter(spec, g, n)
               h == [i \in 1 .. n |-> IF i = n THEN last ELSE g[i]]
    <2>5. last \in Nat
      <3>1. n > 1 => g[n - 1] \in Nat
        BY <2>3, <2>4
      <3> QED
        BY <2>3, <3>1, OffsetAfterType
    <2>6. h \in [1 .. n -> Nat]
      <3> HIDE DEF last
      <3>1. \A i \in 1 .. n : i = n \/ i \in 1 .. n - 1
        BY <2>3
      <3> QED
        BY <2>4, <2>5, <3>1
    <2>7. ASSUME NEW i \in 1 .. n PROVE h[i] = OffsetAfter(spec, h, i)
      <3>1. OffsetAfter(spec, h, i) = OffsetAfter(spec, g, i)
        <4>1. i # 1 => h[i - 1] = g[i - 1]
          BY <2>3
        <4> QED
          BY <4>1 DEF OffsetAfter
      <3>2. h[i] = OffsetAfter(spec, g, i)
        <4>1. CASE i = n
          BY <4>1
        <4>2. CASE i # n
          <5>1. i \in 1 .. n - 1
            BY <2>3, <4>2
          <5> QED
            BY <5>1, <4>2, <2>4
        <4> QED
          BY <4>1, <4>2
      <3> QED
        BY <3>1, <3>2
    <2>8. Solves(n, h)
      BY <2>6, <2>7
    <2> QED
      BY <2>1, <2>8
  <1>3. Len(spec) \notin T
    BY <1>2
  <1> QED
    BY <1>1, <1>3

\* so Offsets is one, and every partition starts at a natural number.
LEMMA OffsetsAreNat ==
    ASSUME NEW spec \in Seq(PartitionSpecs), OpenOnlyLast(spec)
    PROVE  \A i \in 1 .. Len(spec) : Offsets(spec)[i] \in Nat
  <1> DEFINE f == Offsets(spec)
  <1>1. PICK g \in [1 .. Len(spec) -> Nat] : \A i \in 1 .. Len(spec) : g[i] = OffsetAfter(spec, g, i)
    BY OffsetsExist
  <1>2. g = [i \in 1 .. Len(spec) |-> OffsetAfter(spec, g, i)]
    BY <1>1
  <1>3. f = [i \in 1 .. Len(spec) |-> OffsetAfter(spec, f, i)]
    BY <1>2 DEF Offsets, OffsetAfter
  <1> HIDE DEF f
  <1> DEFINE T == {i \in 1 .. Len(spec) : f[i] \notin Nat}
  <1>4. ASSUME T # {} PROVE FALSE
    <2>1. PICK n \in T : \A m \in T : n <= m
      <3>1. T \subseteq Nat
        OBVIOUS
      <3> HIDE DEF T
      <3> QED
        BY <3>1, <1>4, LeastNatural
    <2>2. n > 1 => f[n - 1] \in Nat
      BY <2>1
    <2>3. f[n] \in Nat
      BY <1>3, <2>1, <2>2, OffsetAfterType
    <2> QED
      BY <2>1, <2>3
  <1> QED
    BY <1>4 DEF f

(***************************************************************************)
(* A table that can be used.                                               *)
(***************************************************************************)
\* One ends before the other starts.
Apart(e, f) == EndOf(e) <= f.offset \/ EndOf(f) <= e.offset

InRange(e, total) ==
    /\ e.offset \in Nat /\ e.size \in Nat \ {0}
    /\ EndOf(e) \in Nat /\ EndOf(e) <= total

GoodTable(table, total) ==
    /\ \E n \in Nat : DOMAIN table = 1 .. n
    /\ \A i \in DOMAIN table : InRange(table[i], total)
    /\ \A i, j \in DOMAIN table : i < j => EndOf(table[i]) <= table[j].offset

LEMMA UsableIsGood ==
    ASSUME NEW spec, NEW total \in Nat, NEW images, Usable(spec, total, images)
    PROVE  GoodTable(Partitions(spec, total), total)
  <1> DEFINE table == Partitions(spec, total)
             n == Len(spec)
  <1>1. spec \in Seq(PartitionSpecs) /\ OpenOnlyLast(spec) /\ InFlash(spec, total) /\ Sound(table)
    BY DEF Usable
  <1>2. n \in Nat /\ DOMAIN spec = 1 .. n /\ DOMAIN table = 1 .. n
    BY <1>1 DEF Partitions
  <1>3. ASSUME NEW i \in 1 .. n PROVE InRange(table[i], total)
    <2>1. Offsets(spec)[i] \in Nat
      BY <1>1, OffsetsAreNat
    <2>2. spec[i].size \in Nat \cup {Open}
      <3>1. spec[i] \in PartitionSpecs
        BY <1>1
      <3> QED
        BY <3>1 DEF PartitionSpecs
    <2>3. Offsets(spec)[i] + (IF spec[i].size = Open THEN 0 ELSE spec[i].size) <= total
      BY <1>1, <1>2 DEF InFlash
    <2>4. /\ table[i].offset = Offsets(spec)[i]
          /\ table[i].size = IF spec[i].size = Open THEN total - Offsets(spec)[i] ELSE spec[i].size
      BY <1>2 DEF Partitions
    <2>5. table[i].size > 0
      BY <1>1, <1>2 DEF Sound
    <2> HIDE DEF table
    <2>6. CASE spec[i].size = Open
      BY <2>1, <2>3, <2>4, <2>5, <2>6 DEF InRange, EndOf
    <2>7. CASE spec[i].size # Open
      BY <2>1, <2>2, <2>3, <2>4, <2>5, <2>7 DEF InRange, EndOf
    <2> QED
      BY <2>6, <2>7
  <1>4. \A i \in 2 .. n : table[i].offset >= EndOf(table[i - 1])
    <2>1. Len(table) = n
      BY <1>2 DEF Partitions
    <2> QED
      BY <1>1, <2>1 DEF Sound, InOrder
  <1> HIDE DEF table, n
  <1>5. ASSUME NEW i \in 1 .. n, NEW j \in 1 .. n, i < j
        PROVE  EndOf(table[i]) <= table[j].offset
    <2> DEFINE T == {m \in i + 1 .. n : ~(EndOf(table[i]) <= table[m].offset)}
    <2>1. ASSUME T # {} PROVE FALSE
      <3>1. PICK m \in T : \A k \in T : m <= k
        <4>1. T \subseteq Nat
          BY <1>2
        <4> HIDE DEF T
        <4> QED
          BY <4>1, <2>1, LeastNatural
      <3>2. /\ m \in 2 .. n /\ m - 1 \in i .. n /\ m - 1 \in 1 .. n /\ m \in 1 .. n
            /\ m - 1 \notin T
        <4>1. m \in i + 1 .. n
          BY <3>1
        <4>2. m \in 2 .. n /\ m - 1 \in i .. n /\ m - 1 \in 1 .. n /\ m \in 1 .. n /\ ~(m <= m - 1)
          <5> HIDE DEF T
          <5> QED
            BY <1>2, <4>1
        <4> HIDE DEF T
        <4> QED
          BY <3>1, <4>2
      <3>3. table[m].offset >= EndOf(table[m - 1])
        BY <1>4, <3>2
      <3>4. InRange(table[i], total) /\ InRange(table[m], total) /\ InRange(table[m - 1], total)
        BY <1>3, <3>2
      <3>5. EndOf(table[i]) <= EndOf(table[m - 1])
        <4>1. CASE m - 1 = i
          BY <4>1, <3>4 DEF InRange
        <4>2. CASE m - 1 # i
          <5>1. m - 1 \in i + 1 .. n
            BY <1>2, <3>2, <4>2
          <5>2. EndOf(table[i]) <= table[m - 1].offset
            BY <3>2, <5>1
          <5> QED
            BY <5>2, <3>4 DEF InRange, EndOf
        <4> QED
          BY <4>1, <4>2
      <3>6. EndOf(table[i]) <= table[m].offset
        BY <3>3, <3>4, <3>5 DEF InRange
      <3> QED
        BY <3>1, <3>6
    <2>2. j \in i + 1 .. n
      BY <1>2, <1>5
    <2> QED
      BY <2>1, <2>2
  <1> QED
    BY <1>2, <1>3, <1>5 DEF GoodTable, table

\* The entry of a role is one of the table that has a name of the role.
LEMMA EntryIs ==
    ASSUME NEW table, NEW total, GoodTable(table, total), NEW role, Has(table, role)
    PROVE  \E i \in DOMAIN table :
               Entry(table, role) = table[i] /\ table[i].name \in {Names(role)[1], Names(role)[2]}
  <1> DEFINE P == Places(table, role)
  <1>1. P \subseteq DOMAIN table /\ P # {}
    BY DEF Places, Called, Has
  <1>2. \A i \in P : table[i].name \in {Names(role)[1], Names(role)[2]}
    BY DEF Places, Called
  <1>3. P \subseteq Nat
    BY <1>1 DEF GoodTable
  <1>4. \E i \in P : \A j \in P : i <= j
    <2> HIDE DEF P
    <2> QED
      BY <1>1, <1>3, LeastNatural
  <1>5. PICK i \in P : Entry(table, role) = table[i]
    BY <1>4 DEF Entry
  <1> QED
    BY <1>1, <1>2, <1>5

\* Different roles have different partitions.
LEMMA EntriesApart ==
    ASSUME NEW table, NEW total \in Nat, GoodTable(table, total),
           NEW r \in Roles \cup {"overlay"}, NEW s \in Roles \cup {"overlay"}, r # s,
           Has(table, r), Has(table, s)
    PROVE  Apart(Entry(table, r), Entry(table, s))
  <1>1. PICK i \in DOMAIN table :
            Entry(table, r) = table[i] /\ table[i].name \in {Names(r)[1], Names(r)[2]}
    BY EntryIs
  <1>2. PICK j \in DOMAIN table :
            Entry(table, s) = table[j] /\ table[j].name \in {Names(s)[1], Names(s)[2]}
    BY EntryIs
  <1>3. /\ Names("uboot") = <<"uboot", "boot">> /\ Names("env") = <<"env", "env">>
        /\ Names("kernel") = <<"kernel", "kernel">> /\ Names("rootfs") = <<"rootfs", "rootfs">>
        /\ Names("overlay") = <<"rootfs_data", "overlay">>
    BY DEF Names
  <1>4. {Names(r)[1], Names(r)[2]} \cap {Names(s)[1], Names(s)[2]} = {}
    BY <1>3 DEF Roles
  <1>5. i # j
    BY <1>1, <1>2, <1>4
  <1>6. i \in Nat /\ j \in Nat
    BY DEF GoodTable
  <1>7. i < j \/ j < i
    BY <1>5, <1>6
  <1>8. EndOf(table[i]) <= table[j].offset \/ EndOf(table[j]) <= table[i].offset
    BY <1>7 DEF GoodTable
  <1> QED
    BY <1>1, <1>2, <1>8 DEF Apart

LEMMA EntryInRange ==
    ASSUME NEW table, NEW total, GoodTable(table, total), NEW role, Has(table, role)
    PROVE  InRange(Entry(table, role), total)
  BY EntryIs DEF GoodTable

\* The end of a layout is one of its partitions' ends, and none ends behind it.
LEMMA LayoutEndIs ==
    ASSUME NEW table, NEW total, GoodTable(table, total), \A role \in Roles : Has(table, role)
    PROVE  /\ LayoutEnd(table) \in Nat
           /\ \A role \in Roles : EndOf(Entry(table, role)) <= LayoutEnd(table)
  <1> DEFINE E(role) == EndOf(Entry(table, role))
             ends == {E(role) : role \in Roles}
  <1>1. \A role \in Roles : E(role) \in Nat
    BY EntryInRange DEF InRange
  <1> HIDE DEF E
  <1>2. \E e \in ends : \A f \in ends : f <= e
    <2>1. E("uboot") \in Nat /\ E("env") \in Nat /\ E("kernel") \in Nat /\ E("rootfs") \in Nat
      BY <1>1 DEF Roles
    <2>2. ends = {E("uboot"), E("env"), E("kernel"), E("rootfs")}
      BY DEF Roles
    <2> HIDE DEF ends
    <2> DEFINE a == IF E("uboot") >= E("env") THEN E("uboot") ELSE E("env")
               b == IF E("kernel") >= E("rootfs") THEN E("kernel") ELSE E("rootfs")
               m == IF a >= b THEN a ELSE b
    <2>3. m \in ends
      BY <2>2
    <2>4. \A f \in ends : f <= m
      BY <2>1, <2>2
    <2> HIDE DEF m
    <2> QED
      BY <2>3, <2>4
  <1>3. LayoutEnd(table) = CHOOSE e \in ends : \A f \in ends : f <= e
    BY DEF LayoutEnd, E
  <1>4. LayoutEnd(table) \in ends /\ \A f \in ends : f <= LayoutEnd(table)
    <2> HIDE DEF ends
    <2> QED
      BY <1>2, <1>3
  <1> QED
    BY <1>1, <1>4 DEF E

(***************************************************************************)
(* The choice.                                                             *)
(***************************************************************************)
Ranked(env) == \A v \in DOMAIN env : v \in Nat /\ env[v].rank \in Nat

LEMMA CandidateIsGood ==
    ASSUME NEW env, NEW total \in Nat, NEW images, NEW v \in Candidates(env, total, images)
    PROVE  LET table == Partitions(TableOf(env, v), total)
           IN  /\ GoodTable(table, total) /\ Sound(table) /\ Fits(table, images)
               /\ table # <<>>
               /\ EndWith(env, total, v) \in Nat
  <1> DEFINE table == Partitions(TableOf(env, v), total)
  <1>1. Usable(TableOf(env, v), total, images)
    BY DEF Candidates
  <1>2. GoodTable(table, total) /\ Sound(table) /\ Fits(table, images)
    BY <1>1, UsableIsGood DEF Usable
  <1>3. \A role \in Roles : Has(table, role)
    BY <1>2 DEF Sound
  <1> HIDE DEF table
  <1>4. table # <<>>
    <2>1. Has(table, "env")
      BY <1>3 DEF Roles
    <2> QED
      BY <1>2, <2>1, EntryIs
  <1>5. LayoutEnd(table) \in Nat
    BY <1>2, <1>3, LayoutEndIs
  <1> QED
    BY <1>2, <1>4, <1>5 DEF EndWith, table

\* If there is a candidate there is a first one of those that end first.
LEMMA FirstOfTightest ==
    ASSUME NEW env, Ranked(env), NEW total \in Nat, NEW images, Candidates(env, total, images) # {}
    PROVE  \E v \in Tightest(env, total, images) :
               \A w \in Tightest(env, total, images) \ {v} : Before(env, v, w)
  <1> DEFINE C == Candidates(env, total, images)
             E == {EndWith(env, total, v) : v \in C}
             B == Tightest(env, total, images)
  <1>1. PICK e \in E : \A f \in E : e <= f
    <2>1. E \subseteq Nat /\ E # {}
      BY CandidateIsGood
    <2> HIDE DEF E
    <2> QED
      BY <2>1, LeastNatural
  <1>2. B # {}
    BY <1>1 DEF Tightest
  <1>3. \A v \in B : v \in Nat /\ env[v].rank \in Nat
    BY DEF Ranked, Tightest, Candidates
  <1> HIDE DEF B
  <1> DEFINE R == {env[v].rank : v \in B}
  <1>4. PICK r \in R : \A q \in R : r <= q
    <2>1. R \subseteq Nat /\ R # {}
      BY <1>2, <1>3
    <2> HIDE DEF R
    <2> QED
      BY <2>1, LeastNatural
  <1> DEFINE V == {v \in B : env[v].rank = r}
  <1>5. PICK v \in V : \A w \in V : v <= w
    <2>1. V \subseteq Nat /\ V # {}
      BY <1>3, <1>4
    <2> HIDE DEF V
    <2> QED
      BY <2>1, LeastNatural
  <1>6. ASSUME NEW w \in B \ {v} PROVE Before(env, v, w)
    <2>1. env[v].rank <= env[w].rank /\ env[v].rank \in Nat /\ env[w].rank \in Nat
      BY <1>3, <1>4, <1>5
    <2>2. env[w].rank = env[v].rank => v < w
      BY <1>3, <1>5
    <2> QED
      BY <2>1, <2>2 DEF Before
  <1> QED
    BY <1>5, <1>6 DEF B

(* The layout that is chosen resolves, keeps its partitions inside the flash and apart from each *)
(* other, has room for the images, and no layout that would do as well ends before it; one is    *)
(* found if there is any (openipc.py:56).                                                        *)
THEOREM LayoutIsTightest ==
    ASSUME NEW env, Ranked(env), NEW total \in Nat, NEW images, Candidates(env, total, images) # {}
    PROVE  LET table == Layout(env, total, images)
           IN  /\ table # <<>>
               /\ GoodTable(table, total) /\ Sound(table) /\ Fits(table, images)
               /\ \A w \in Candidates(env, total, images) :
                      LayoutEnd(table) <= EndWith(env, total, w)
  <1> DEFINE best == Tightest(env, total, images)
             first == CHOOSE v \in best : \A w \in best \ {v} : Before(env, v, w)
  <1>1. first \in best
    <2>1. \E v \in best : \A w \in best \ {v} : Before(env, v, w)
      BY FirstOfTightest
    <2> HIDE DEF best
    <2> QED
      BY <2>1
  <1>2. Layout(env, total, images) = Partitions(TableOf(env, first), total)
    BY <1>1 DEF Layout
  <1> HIDE DEF first
  <1>3. first \in Candidates(env, total, images)
    BY <1>1 DEF Tightest
  <1>4. \A w \in Candidates(env, total, images) : EndWith(env, total, first) <= EndWith(env, total, w)
    BY <1>1 DEF Tightest
  <1> QED
    BY <1>2, <1>3, <1>4, CandidateIsGood DEF EndWith

\* Without a candidate there is no layout.
LEMMA NoCandidateNoLayout ==
    ASSUME NEW env, NEW total, NEW images, Candidates(env, total, images) = {}
    PROVE  Layout(env, total, images) = <<>>
  BY DEF Layout, Tightest
====
