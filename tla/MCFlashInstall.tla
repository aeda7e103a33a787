---- MODULE MCFlashInstall ----
(***************************************************************************)
(* FlashInstall for TLC: a flash of a few blocks, and releases whose       *)
(* assets and environments show each way they are found, or refused.       *)
(***************************************************************************)
EXTENDS FlashInstall

Sized(name, size) == [name |-> name, size |-> size, at |-> Follows]

At(name, size, offset) == [name |-> name, size |-> size, at |-> offset]

Small == <<Sized("boot", 1), Sized("env", 1), Sized("kernel", 1), Sized("rootfs", 1),
           Sized("rootfs_data", Open)>>

Large == <<Sized("uboot", 1), Sized("env", 1), Sized("kernel", 1), Sized("rootfs", 2),
           Sized("overlay", Open)>>

Gapped == <<Sized("boot", 1), Sized("env", 1), Sized("kernel", 1), At("rootfs", 2, 4)>>

Overlapping == <<Sized("boot", 1), Sized("env", 1), Sized("kernel", 2), At("rootfs", 2, 3)>>

Backwards == <<At("boot", 1, 1), At("env", 1, 0), Sized("kernel", 1), Sized("rootfs", 2)>>

Garbled == <<Sized("boot", 1), Sized("env", Follows), Sized("kernel", 1), Sized("rootfs", 2)>>

TooLong == <<Sized("boot", 1), Sized("env", 1), Sized("kernel", 2), Sized("rootfs", 4)>>

Var(rank, table, refs, tableRefs) ==
    [rank |-> rank, table |-> table, refs |-> refs, tableRefs |-> tableRefs]

Written(rank, table) == Var(rank, table, <<>>, <<>>)

Refers(rank, refs) == Var(rank, NoTable, refs, <<>>)

\* Sixteen megabytes and eight: what is unsound or too small is passed over.
TwoTables == <<Written(2, Small), Written(1, Large)>>
Indirect == <<Written(5, Gapped), Refers(2, <<1>>), Written(4, Overlapping)>>
Embedded == <<Var(5, Small, <<0, 2>>, <<2>>), Refers(5, <<>>), Written(3, TooLong)>>
Unsound == <<Refers(1, <<2>>), Refers(2, <<1>>), Written(3, Overlapping), Written(4, Backwards),
             Written(4, TooLong), Var(5, Large, <<0>>, <<0>>), Written(5, Garbled)>>

----
(***************************************************************************)
(* SoCs: t30a and t30x, which share the firmware of t30; hi3516cv610,      *)
(* which shares a bundle named hi3516cv6xx; and ssc337, whose name is part *)
(* of ssc337de's.                                                          *)
(***************************************************************************)
Asset(kind, target, edition, type, holds, env) ==
    [kind |-> kind, target |-> target, edition |-> edition, flash |-> type,
     format |-> IF kind = "bundle" THEN "tgz" ELSE "bin", holds |-> holds, env |-> env]

UbootAsset(prefix, target, type, env) ==
    Asset(prefix, target, "", type,
          [uboot |-> IF type = "nand" THEN <<"n">> ELSE <<"u">>], env)

BundleAsset(target, edition, type, kernel, rootfs) ==
    Asset("bundle", target, edition, type, [kernel |-> kernel, rootfs |-> rootfs], None)

MCPublished ==
    [tag \in {"latest", "nightly"} |->
        IF tag = "latest"
        THEN {UbootAsset("u-boot", "t30a", "nor", TwoTables),
              UbootAsset("u-boot", "t30a", "nand", TwoTables),
              UbootAsset("u-boot", "t30x", "nor", Unsound),
              UbootAsset("boot", "hi3516cv610-00g", "nor", Indirect),
              UbootAsset("boot", "hi3516cv610-00g", "universal", Indirect),
              UbootAsset("u-boot", "ssc337", "nor", Embedded),
              BundleAsset("t30", "lite", "nor", <<"k1">>, <<"r1">>),
              BundleAsset("t30", "ultimate", "nor", <<"k1">>, <<"r2", "r2">>),
              BundleAsset("t30a", "neo", "nand", <<"n">>, <<"n">>),
              BundleAsset("hi3516cv6xx", "lite", "nor", <<"k2">>, <<"r1">>),
              BundleAsset("ssc337", "lite", "nor", <<"k2">>, <<"r2", "r2">>),
              BundleAsset("ssc337de", "lite", "nor", <<"n">>, <<"n">>)}
        ELSE {UbootAsset("u-boot", "t30a", "nor", TwoTables),
              UbootAsset("u-boot", "ssc337", "nand", Embedded),
              BundleAsset("t30a", "lite", "nor", <<"k1">>, <<"r1">>),
              BundleAsset("t30", "lite", "nor", <<"n">>, <<"n">>),
              Asset("kernel", "ssc337", "lite", "", [kernel |-> <<"k2">>], None),
              Asset("kernel", "ssc337", "ultimate", "", [kernel |-> <<"k1">>], None),
              Asset("rootfs", "ssc337", "", "", [rootfs |-> <<"r1">>], None)}]

MCInside ==
    [t30 |-> {"t30", "t30a", "t30x"}, t30a |-> {"t30a"}, t30x |-> {"t30x"},
     hi3516cv610 |-> {"hi3516cv610", "hi3516cv610-00g"}, ssc337 |-> {"ssc337", "ssc337de"}]

MCVariants ==
    [t30a |-> {"t30a"}, t30x |-> {"t30x"}, hi3516cv610 |-> {"hi3516cv610-00g"},
     ssc337 |-> {"ssc337"}]

MCFamily ==
    [t30a |-> "t30", t30x |-> "t30", hi3516cv610 |-> "hi3516cv610", ssc337 |-> "ssc337"]

MCWildcards ==
    [t30a |-> {"t30x"}, t30x |-> {"t30x"}, hi3516cv610 |-> {"hi3516cv6xx"}, ssc337 |-> {}]

Request(soc, fw, tag, size, block) ==
    [soc |-> soc, fw |-> fw, tag |-> tag, size |-> size, envBlock |-> block]

MCRequests ==
    {Request("t30a", "lite", "latest", 6, "e1"),
     Request("t30a", "ultimate", "latest", 6, "e2"),
     Request("t30a", "neo", "latest", 6, "e1"),          \* only for NAND flash
     Request("t30x", "lite", "latest", 6, "e1"),         \* no layout is sound
     Request("t30a", "lite", "nightly", 6, "e1"),        \* a bundle of its own
     Request("hi3516cv610", "lite", "latest", 6, "e1"),
     Request("ssc337", "lite", "nightly", 6, "e3"),      \* with the U-Boot of the latest
     Request("ssc337", "lite", "nightly", 5, "e3"),      \* told of a smaller flash
     Request("ssc337", "lite", "latest", 6, "e3"),       \* two bundles have its name
     Request("ssc337", "full", "latest", 6, "e3")}       \* no such edition
====
