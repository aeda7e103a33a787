---- MODULE FlashLayout ----
(***************************************************************************)
(* Which flash layout an OpenIPC installation uses (openipc.py,            *)
(* partitions.py).  The default environment of a release's U-Boot holds    *)
(* any number of mtdparts tables, some written out, some behind references *)
(* to other variables.  Those that resolve, parse, are sound and have room *)
(* for the release's images are candidates; the one that ends first is     *)
(* taken.  Sizes and offsets are in blocks, the unit flash is erased in.   *)
(***************************************************************************)
EXTENDS Naturals, Sequences, Functions

CONSTANTS
    Open,     \* the size "-": up to the end of the flash
    Follows,  \* no "@offset": right after the partition before
    NoTable   \* no mtdparts table

ASSUME LayoutAssumption == Open \notin Nat /\ Follows \notin Nat

(***************************************************************************)
(* An environment is the sequence of its variables in the order of their   *)
(* names.  A variable has a rank, by what its name says of the layout:     *)
(*   1 mtdpartsnor<size>m of this flash, 2 mtdparts, 3 another mtdpartsnor,*)
(*   4 another name with mtdparts, 5 any other name;                       *)
(* table, the first table written in its value, or NoTable, which lists    *)
(* name, size and offset of each partition; refs, the variables its value  *)
(* refers to; and tableRefs, those its table refers to.  They are indexes, *)
(* 0 for a variable that is not defined.                                   *)
(***************************************************************************)
\* The order in which _openipc_mtdparts_keys tries them.
Before(env, v, w) ==
    \/ env[v].rank < env[w].rank
    \/ env[v].rank = env[w].rank /\ v < w

\* The variables reached from those of refs.
Reached(env, refs) ==
    LET reach[n \in Nat] ==
            IF n = 0 THEN Range(refs)
            ELSE reach[n - 1] \cup
                 UNION {Range(env[w].refs) : w \in reach[n - 1] \cap DOMAIN env}
    IN  reach[Len(env)]

\* resolve_env_references fails at a variable that is missing, or that is being expanded.
Expands(env, refs) ==
    /\ Reached(env, refs) \subseteq DOMAIN env
    /\ \A w \in Reached(env, refs) : w \notin Reached(env, env[w].refs)

\* A table in the value itself is cut out before its references are expanded.
Resolves(env, v) ==
    Expands(env, IF env[v].table # NoTable THEN env[v].tableRefs ELSE env[v].refs)

\* The first table in the value of v with its references expanded.
TableOf(env, v) ==
    LET table[n \in Nat, w \in DOMAIN env] ==
            IF env[w].table # NoTable \/ n = 0 THEN env[w].table
            ELSE LET found == SelectSeq([i \in DOMAIN env[w].refs |-> table[n - 1, env[w].refs[i]]],
                                        LAMBDA t : t # NoTable)
                 IN  IF found = <<>> THEN NoTable ELSE Head(found)
    IN  table[Len(env), v]

(***************************************************************************)
(* parse_mtdparts_spec.  An entry without an offset starts where the one   *)
(* before it ends; only the last may be open-ended; none reaches beyond    *)
(* the flash of total blocks.  A reference may have left what is no size.  *)
(***************************************************************************)
PartitionSpecs == [name : STRING, size : Nat \cup {Open}, at : Nat \cup {Follows}]

OpenOnlyLast(spec) == \A i \in 1 .. Len(spec) - 1 : spec[i].size # Open

Offsets(spec) ==
    LET offset[i \in 1 .. Len(spec)] ==
            IF spec[i].at # Follows THEN spec[i].at
            ELSE IF i = 1 THEN 0
            ELSE offset[i - 1] + spec[i - 1].size
    IN  offset

\* Mutant: only where it starts is compared with the size of the flash.
StartsInFlash(spec, total) == \A i \in DOMAIN spec : Offsets(spec)[i] <= total

InFlash(spec, total) ==
    \A i \in DOMAIN spec :
        Offsets(spec)[i] + (IF spec[i].size = Open THEN 0 ELSE spec[i].size) <= total

Partitions(spec, total) ==
    [i \in DOMAIN spec |->
        [name |-> spec[i].name,
         offset |-> Offsets(spec)[i],
         size |-> IF spec[i].size = Open THEN total - Offsets(spec)[i] ELSE spec[i].size]]

(***************************************************************************)
(* PartitionTable.get takes the first entry of a name.  The installer      *)
(* looks for the second name where there is no entry of the first.         *)
(***************************************************************************)
Names(role) ==
    CASE role = "uboot" -> <<"uboot", "boot">>
      [] role = "overlay" -> <<"rootfs_data", "overlay">>
      [] OTHER -> <<role, role>>

Called(table, name) == {i \in DOMAIN table : table[i].name = name}

Places(table, role) ==
    IF Called(table, Names(role)[1]) # {} THEN Called(table, Names(role)[1])
    ELSE Called(table, Names(role)[2])

Has(table, role) == Places(table, role) # {}

Entry(table, role) ==
    table[CHOOSE i \in Places(table, role) : \A j \in Places(table, role) : i <= j]

EndOf(entry) == entry.offset + entry.size

(***************************************************************************)
(* _validate_openipc_partition_table: partitions in order, not empty, not  *)
(* overlapping, and the four an installation writes among them.            *)
(***************************************************************************)
Roles == {"uboot", "env", "kernel", "rootfs"}

\* Mutant: a partition is compared with the start of the one before.
StartsInOrder(table) == \A i \in 2 .. Len(table) : table[i].offset >= table[i - 1].offset

InOrder(table) == \A i \in 2 .. Len(table) : table[i].offset >= EndOf(table[i - 1])

Sound(table) ==
    /\ \A i \in DOMAIN table : table[i].size > 0
    /\ InOrder(table)
    /\ \A role \in Roles : Has(table, role)

\* Mutant: the file system is not compared.
FitsButRootfs(table, images) ==
    \A role \in DOMAIN images \ {"rootfs"} : Len(images[role]) <= Entry(table, role).size

\* _partition_payloads_fit: the environment is built to the size of its partition.
Fits(table, images) ==
    \A role \in DOMAIN images : Len(images[role]) <= Entry(table, role).size

\* _install_layout_end: where the last of the four partitions ends.
LayoutEnd(table) ==
    LET ends == {EndOf(Entry(table, role)) : role \in Roles}
    IN  CHOOSE e \in ends : \A f \in ends : f <= e

(***************************************************************************)
(* _openipc_partition_layout: of the variables that give a table which can *)
(* be used, the first of those whose table ends first.  <<>> stands for    *)
(* the ValueErrors of an installation that finds none.                     *)
(***************************************************************************)
Usable(spec, total, images) ==
    /\ spec \in Seq(PartitionSpecs)
    /\ OpenOnlyLast(spec)
    /\ InFlash(spec, total)
    /\ Sound(Partitions(spec, total))
    /\ Fits(Partitions(spec, total), images)

Candidates(env, total, images) ==
    {v \in DOMAIN env :
        /\ Resolves(env, v)
        /\ TableOf(env, v) # NoTable
        /\ Usable(TableOf(env, v), total, images)}

EndWith(env, total, v) == LayoutEnd(Partitions(TableOf(env, v), total))

\* Those that end first.
Tightest(env, total, images) ==
    {v \in Candidates(env, total, images) :
        \A w \in Candidates(env, total, images) : EndWith(env, total, v) <= EndWith(env, total, w)}

Layout(env, total, images) ==
    LET best == Tightest(env, total, images)
        first == CHOOSE v \in best : \A w \in best \ {v} : Before(env, v, w)
    IN  IF best = {} THEN <<>> ELSE Partitions(TableOf(env, first), total)
====
