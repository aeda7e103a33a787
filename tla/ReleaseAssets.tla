---- MODULE ReleaseAssets ----
(***************************************************************************)
(* Which assets of a GitHub release an OpenIPC installation downloads      *)
(* (openipc.py, github_assets.py).  An asset is found by parts of its      *)
(* name: it must contain every needle of a group, and the first group that *)
(* only one asset matches decides.  Names of SoCs contain each other, one  *)
(* image may serve a family of SoCs, and the U-Boot of a SoC may be        *)
(* missing from the release that is installed.                             *)
(***************************************************************************)
EXTENDS Naturals, Sequences

CONSTANTS
    Published,  \* [tag -> the assets of its release]
    Latest,     \* the tag "latest"
    Inside,     \* [soc or family -> the targets in whose names it occurs]
    Variants,   \* [soc -> the targets that are it, or go on after it with -, _ or .]
    Family,     \* [soc -> the family an Ingenic T part shares its firmware with, or itself]
    Wildcards,  \* [soc -> the targets with an x that match it]
    None        \* no release to install, no default environment

(***************************************************************************)
(* What is published alone is one partition.  A name occurs in itself, and *)
(* a family's name in the names of its SoCs.                               *)
(***************************************************************************)
ASSUME ReleaseAssumption ==
    /\ \A tag \in DOMAIN Published : \A a \in Published[tag] :
           a.kind \in {"kernel", "rootfs"} => DOMAIN a.holds = {a.kind}
    /\ \A soc \in DOMAIN Family : soc \in Inside[soc] /\ Inside[soc] \subseteq Inside[Family[soc]]

(***************************************************************************)
(* An asset's name tells what it is, the target it is for, the edition of  *)
(* the firmware, the flash and the format.  holds are the images in it by  *)
(* partition, and env the default environment of a U-Boot, or None where   *)
(* it cannot be found or has no mtdparts in its bootargs, or no bootcmd.   *)
(***************************************************************************)
Name(a) == <<a.kind, a.target, a.edition, a.flash, a.format>>

\* A file of a bundle is named for its partition and its target.
Source(a, role) == IF a.kind = "bundle" THEN <<role, a.target>> ELSE Name(a)

\* A release has an asset only if there is no doubt which.
Single(S) == {a \in S : \A b \in S : b = a}

\* What follows is tried only if there is nothing so far.
Or(S, T) == IF S # {} THEN S ELSE T

Named(tag, kind, targets) == {a \in Published[tag] : a.kind = kind /\ a.target \in targets}

\* Mutant: an image for NAND flash will do if there is no other.
AnyFlash(S) == S

\* NAND installation is not supported.
Supported(S) == {a \in S : a.flash # "nand"}

\* _find_exact_uboot_asset: one image for every flash, else one that is not for NAND.
ExactUboot(tag, soc, prefix) ==
    LET matches == Named(tag, prefix, Variants[soc])
    IN  Or(Single({a \in matches : a.flash = "universal"}), Single(Supported(matches)))

UbootIn(tag, soc) == Or(ExactUboot(tag, soc, "u-boot"), ExactUboot(tag, soc, "boot"))

\* The U-Boot of the release, or else of the latest one.
Uboot(c) == Or(UbootIn(c.tag, c.soc), UbootIn(Latest, c.soc))

\* A kernel or a root file system published alone; its name may do without the edition.
Part(c, kind) ==
    LET parts == Named(c.tag, kind, Inside[c.soc])
    IN  Or(Single({a \in parts : a.edition = c.fw}), Single(parts))

Bundles(c, targets) ==
    {a \in Named(c.tag, "bundle", targets) : a.flash = "nor" /\ a.edition = c.fw}

Packed(S, format) == {a \in S : a.format = format}

\* One of the two archive formats, the first if both would do.
OneArchive(S) == Or(Single(Packed(S, "tgz")), Single(Packed(S, "tar.gz")))

\* _asset_match_groups, then _find_wildcard_firmware_bundle.
Bundle(c) ==
    Or(OneArchive(Bundles(c, Inside[c.soc])),
       Or(OneArchive(Bundles(c, Inside[Family[c.soc]])),
          Single(Bundles(c, Wildcards[c.soc]))))

\* The kernel and the root file system are both published alone, or both in a bundle.
Firmware(c) ==
    IF Part(c, "kernel") # {} /\ Part(c, "rootfs") # {}
    THEN Part(c, "kernel") \cup Part(c, "rootfs")
    ELSE Bundle(c)

\* The one of the chosen assets that holds the image of a partition.
Holder(c, role) ==
    CHOOSE a \in IF role = "uboot" THEN Uboot(c) ELSE Firmware(c) : role \in DOMAIN a.holds

Complete(c) ==
    /\ \E a \in Uboot(c) : "uboot" \in DOMAIN a.holds /\ a.env # None
    /\ \A role \in {"kernel", "rootfs"} : \E a \in Firmware(c) : role \in DOMAIN a.holds

\* openipc_load_release_assets; None stands for the ValueErrors of a search in vain.
ReleaseFor(c) ==
    IF ~Complete(c) THEN None
    ELSE [env |-> Holder(c, "uboot").env,
          images |-> [role \in {"uboot", "kernel", "rootfs"} |-> Holder(c, role).holds[role]],
          sources |-> [role \in {"uboot", "kernel", "rootfs"} |-> Source(Holder(c, role), role)]]
----
(***************************************************************************)
(* What an installer may rely on.                                          *)
(***************************************************************************)
\* The bundle of a SoC's own name.
OwnBundles(c) == Bundles(c, {c.soc})

\* The release publishes it, and nothing that would be preferred to it.
PublishesOwn(c) ==
    /\ OwnBundles(c) # {}
    /\ \A a, b \in Published[c.tag] : a.kind = "bundle" /\ b.kind = "bundle" => a.format = b.format
    /\ Named(c.tag, "kernel", Inside[c.soc]) = {} \/ Named(c.tag, "rootfs", Inside[c.soc]) = {}

\* The image to be written to a partition is the asset's.
Provides(a, role, body) == role \in DOMAIN a.holds /\ body[role] = a.holds[role]

SuitableUboot(c, u) ==
    /\ u \in Published[c.tag] \cup Published[Latest]
    /\ u.target \in Variants[c.soc]
    /\ u.flash # "nand"

SuitableFirmware(c, k, r) ==
    /\ {k, r} \subseteq Published[c.tag]
    /\ \/ k = r /\ k.edition = c.fw /\ k.flash = "nor"
       \/ k.kind = "kernel" /\ r.kind = "rootfs" /\ {k.target, r.target} \subseteq Inside[c.soc]
    /\ PublishesOwn(c) => k.target \in {c.soc} \cup Wildcards[c.soc]

(* The images come from a U-Boot for this SoC that is not for NAND flash, of this release or the *)
(* latest; from a kernel and a root file system of this release that belong together; and if the *)
(* SoC has firmware of its own there, never from another SoC's whose name contains it.           *)
Suits(c, body) ==
    /\ \E u \in Published[c.tag] \cup Published[Latest] :
           Provides(u, "uboot", body) /\ SuitableUboot(c, u)
    /\ \E k, r \in Published[c.tag] :
           Provides(k, "kernel", body) /\ Provides(r, "rootfs", body) /\ SuitableFirmware(c, k, r)
====
