---- MODULE FlashInstall ----
(***************************************************************************)
(* The commands that write a board's flash: openipc_install (openipc.py),  *)
(* builtin_flash_backup and builtin_flash_restore (tools.py).  The handler *)
(* picks the images of a release (ReleaseAssets) and a layout for them     *)
(* (FlashLayout), compares the flash with them, saves a backup, puts       *)
(* the images that differ into the server's install directory and queues   *)
(* the commands of all of them, which the board then runs as one script:   *)
(* fetch, erase and write, partition by partition.  U-Boot goes on after a *)
(* command that fails.  The board may lose power anywhere, a fetch may     *)
(* fail, and another session may put a file of the same name into the      *)
(* install directory.  The dialogue that carries the scripts is            *)
(* SessionSystem's; one board is enough here.                              *)
(***************************************************************************)
EXTENDS FlashLayout, ReleaseAssets

CONSTANTS
    FlashSize,   \* blocks of the board's NOR flash, as uboot_nor_probe finds it
    Contents,    \* blocks of images and environments
    Requests,    \* what an installation is asked for: [soc, fw, tag, size, envBlock]
    Limits,      \* sizes the probe finds, by the max argument of a backup or restore
    MaxRuns,     \* bound: installations, backups and restores
    Failures,    \* a tftpboot may fail
    OthersStage, \* another session may install the same file names
    Old, Erased, \* blocks as first found, and after an erase
    Saved,       \* a block of the environment after saveenv
    Junk,        \* whatever else is in RAM
    Nothing      \* no file, no overlay, no payloads

(***************************************************************************)
(* A request names the SoC, the edition and the tag, how much of the flash *)
(* uboot_nor_probe finds under its nor_size, and the block its environment *)
(* is made of: the U-Boot's own, with what openipc_patch_env keeps.        *)
(***************************************************************************)
Found == {[request |-> c, release |-> ReleaseFor(c)] : c \in Requests}

\* The name of the environment's file has the id of the session.
EnvSource == <<"env">>

Sources ==
    {EnvSource}
        \cup UNION {Range(f.release.sources) : f \in {g \in Found : g.release # None}}

Uboots == {a \in UNION Range(Published) : "uboot" \in DOMAIN a.holds}

ASSUME InstallAssumption ==
    /\ FlashSize \in Nat \ {0}
    /\ Limits \subseteq 1 .. FlashSize
    /\ MaxRuns \in Nat
    /\ Failures \in BOOLEAN
    /\ OthersStage \in BOOLEAN
    /\ \A a \in UNION Range(Published) : Range(a.holds) \subseteq Seq(Contents)
    /\ \A c \in Requests : c.size \in 1 .. FlashSize /\ c.envBlock \in Contents
    /\ \A c \in Requests : c.soc \in DOMAIN Family /\ {c.tag, Latest} \subseteq DOMAIN Published
    /\ Nothing \notin Seq(Contents)
    /\ Old \notin Contents \cup {Erased, Saved, Junk}

(***************************************************************************)
(* A block of an environment begins with its checksum (ubootenv_build): no *)
(* image has it, and an erased block is none.  Default environments are    *)
(* sequences of ranked variables, and Nothing is not what a plan may be.   *)
(***************************************************************************)
ASSUME EnvAssumption ==
    /\ \A c \in Requests : c.envBlock # Erased
    /\ \A c \in Requests, a \in UNION Range(Published) : \A role \in DOMAIN a.holds :
           c.envBlock \notin Range(a.holds[role])
    /\ \A a \in UNION Range(Published) : a.env # None =>
           \A v \in DOMAIN a.env : v \in Nat /\ a.env[v].rank \in Nat

PayloadType ==
    [offset : Nat, size : Nat, source : Sources, body : Seq(Contents)]

ASSUME NothingAssumption == Nothing \notin [Roles -> PayloadType]

Addresses == 0 .. FlashSize - 1

Area(e) == e.offset .. e.offset + e.size - 1

VARIABLES
    flash,     \* [Addresses -> block]
    ram,       \* the blocks at the staging offset
    files,     \* the server's install directory: [source -> blocks or Nothing]
    backups,   \* the images in its backup directory
    mode,      \* what the session does: "idle", "backup", "stage", "script"
    payloads,  \* [role -> offset, size, source, body]: the PartitionPayloads
    pending,   \* the roles that need an update
    overlay,   \* the partition to erase, or Nothing
    script,    \* the commands the board has yet to run
    said,      \* the last message of the script
    runs,      \* sessions begun
    before,    \* history: the flash when the session began
    lost,      \* history: roles whose own file was not what the board fetched
    current,   \* history: the payloads last installed with nothing lost, or Nothing
    dropped    \* history: addresses of which an image with the first contents was replaced

serverVars == <<files, backups, payloads, pending, overlay>>
history == <<before, lost, current, dropped>>
vars == <<flash, ram, mode, script, said, runs, serverVars, history>>

\* The image a partition holds when it has been erased and its payload written.
Image(p) ==
    [b \in Area(p) |-> LET i == b - p.offset + 1
                       IN  IF i <= Len(p.body) THEN p.body[i] ELSE Erased]

\* flash_crc32 and payload_crc32 agree: payloads are padded with 0xFF, as erased flash reads.
Matches(p) == \A b \in Area(p) : flash[b] = Image(p)[b]

Served(file) == IF file.dir = "install" THEN files[file.name] ELSE backups[file.name]

\* U-Boot starts: it is the one first found, or all of a release's.
Boots(f) ==
    \/ f[0] = Old
    \/ \E u \in Uboots :
           \A i \in DOMAIN u.holds["uboot"] : i <= FlashSize /\ f[i - 1] = u.holds["uboot"][i]

\* After the reset a board may run the bootcmd of the environment that was built, which on the
\* first boot saves it.
Booted(f) ==
    {f} \cup
    {[f EXCEPT ![e.offset] = Saved] : e \in
        {p \in (IF payloads = Nothing THEN {} ELSE {payloads["env"]}) :
            Boots(f) /\ f[p.offset] \in Contents /\ \A b \in Area(p) : f[b] = Image(p)[b]}}

----------------------------------------------------------------------------
Init ==
    /\ flash = [b \in Addresses |-> Old]
    /\ ram = <<>>
    /\ files = [s \in Sources |-> Nothing]
    /\ backups = <<>>
    /\ mode = "idle"
    /\ payloads = Nothing
    /\ pending = {}
    /\ overlay = Nothing
    /\ script = <<>>
    /\ said = "nothing"
    /\ runs = 0
    /\ before = flash
    /\ lost = {}
    /\ current = Nothing
    /\ dropped = {}

(***************************************************************************)
(* The commands of a script.  A fetch that is checked is followed by       *)
(* "if test status -eq 0": only flash_restore does that.                   *)
(***************************************************************************)
Fetch(dir, name, checked) ==
    [do |-> "fetch", file |-> [dir |-> dir, name |-> name], checked |-> checked]
Erase(offset, size) == [do |-> "erase", offset |-> offset, size |-> size]
Write(offset, size) == [do |-> "write", offset |-> offset, size |-> size]
Say(what) == [do |-> "say", what |-> what]
Reset == [do |-> "reset"]

\* What brings role up to date, if it is pending, before the rest.
Update(role, rest) ==
    LET p == payloads[role]
    IN  IF role \notin pending THEN rest
        ELSE <<Fetch("install", p.source, FALSE), Erase(p.offset, p.size),
               Write(p.offset, Len(p.body))>> \o rest

EraseOverlay(rest) ==
    IF overlay = Nothing THEN rest ELSE <<Erase(overlay.offset, overlay.size)>> \o rest

\* Mutant: the status of the fetch is not looked at.
RestoreUnchecked(n, max) ==
    <<Fetch("backup", n, FALSE), Erase(0, max), Write(0, max), Say("restored")>>

RestoreScript(n, max) ==
    <<Fetch("backup", n, TRUE), Erase(0, max), Write(0, max), Say("restored")>>

(***************************************************************************)
(* A session of the builtin or the OpenIPC handler begins.  payloads is    *)
(* Nothing in all but installations.                                       *)
(***************************************************************************)
Begin ==
    /\ mode = "idle"
    /\ Boots(flash)
    /\ runs < MaxRuns
    /\ runs' = runs + 1
    /\ before' = flash
    /\ lost' = {}
    /\ UNCHANGED <<flash, ram, files>>

\* An image of the flash up to max.
Snapshot(max) == [i \in 1 .. max |-> flash[i - 1]]

\* Addresses for which the image has the first contents.
KeptBy(image) == {b \in Addresses : b < Len(image) /\ image[b + 1] = Old}

\* builtin_flash_backup, as a command: the file is a new one,
SaveBackup(max) ==
    /\ Begin
    /\ backups' = Append(backups, Snapshot(max))
    /\ payloads' = Nothing
    /\ pending' = {}
    /\ overlay' = Nothing
    /\ said' = "saved"
    /\ UNCHANGED <<mode, script, current, dropped>>

\* or file= names one that is there, which is overwritten.
ReplaceBackup(n, max) ==
    /\ Begin
    /\ backups' = [backups EXCEPT ![n] = Snapshot(max)]
    /\ dropped' = dropped \cup (KeptBy(backups[n]) \ KeptBy(Snapshot(max)))
    /\ payloads' = Nothing
    /\ pending' = {}
    /\ overlay' = Nothing
    /\ said' = "saved"
    /\ UNCHANGED <<mode, script, current>>

\* Mutant: the length of the file is not compared.
RestoreAnyLength(n, max) ==
    /\ Begin
    /\ mode' = "script"
    /\ script' = RestoreScript(n, max)
    /\ payloads' = Nothing
    /\ pending' = {}
    /\ overlay' = Nothing
    /\ said' = "nothing"
    /\ current' = Nothing
    /\ UNCHANGED <<backups, dropped>>

\* builtin_flash_restore takes only a file as long as the flash, of which it uses max, is large.
StartRestore(n, max) ==
    /\ Begin
    /\ Len(backups[n]) = max
    /\ mode' = "script"
    /\ script' = RestoreScript(n, max)
    /\ payloads' = Nothing
    /\ pending' = {}
    /\ overlay' = Nothing
    /\ said' = "nothing"
    /\ current' = Nothing
    /\ UNCHANGED <<backups, dropped>>

(***************************************************************************)
(* openipc_install up to its decision.  wipe is erase_overlay=1.  Nothing  *)
(* writes the flash between the first request and the snapshot the plan is *)
(* computed from.                                                          *)
(***************************************************************************)
\* openipc_verify_args, and the search for a release.
Offered(f) == f.request.fw \in {"lite", "ultimate", "neo"} /\ f.release # None

\* A request with the release and the layout found for it; <<>> if there is none.
Offers ==
    {[request |-> f.request,
      release |-> f.release,
      layout |-> IF Offered(f) THEN Layout(f.release.env, f.request.size, f.release.images)
                 ELSE <<>>] : f \in Found}

Payloads(o) ==
    [role \in Roles |->
        LET e == Entry(o.layout, role)
        IN  [offset |-> e.offset,
             size |-> e.size,
             source |-> IF role = "env" THEN EnvSource ELSE o.release.sources[role],
             body |-> IF role = "env" THEN [i \in 1 .. e.size |-> o.request.envBlock]
                      ELSE o.release.images[role]]]

Plan(o, wipe) ==
    /\ payloads' = Payloads(o)
    /\ pending' = {role \in Roles : ~Matches(payloads'[role])}
    /\ overlay' = IF wipe THEN Entry(o.layout, "overlay") ELSE Nothing

\* Mutant: a changed environment counts like any other partition.
NeverOnlyEnv(updates) == FALSE

OnlyEnv(updates) == updates = {"env"}

\* A ValueError before the decision ends the session with its message.
Refuse(o, wipe) ==
    /\ Begin
    /\ o.layout = <<>> \/ (wipe /\ ~Has(o.layout, "overlay"))
    /\ said' = "refused"
    /\ payloads' = Nothing
    /\ pending' = {}
    /\ overlay' = Nothing
    /\ UNCHANGED <<mode, script, backups, current, dropped>>

Install(o, wipe) ==
    /\ Begin
    /\ o.layout # <<>>
    /\ wipe => Has(o.layout, "overlay")
    /\ Plan(o, wipe)
    /\ UNCHANGED <<script, backups, current, dropped>>
    /\ \/ /\ OnlyEnv(pending')
          /\ said' = "only env"
          /\ UNCHANGED mode
       \/ /\ pending' = {} /\ overlay' = Nothing
          /\ said' = "up to date"
          /\ UNCHANGED mode
       \/ /\ ~OnlyEnv(pending')
          /\ pending' # {} \/ overlay' # Nothing
          /\ said' = "nothing"
          /\ mode' = "backup"

\* Mutant: a board of which there is an image is not backed up again.
BackUpOnce ==
    /\ mode = "backup"
    /\ backups' = IF backups = <<>> THEN <<Snapshot(FlashSize)>> ELSE backups
    /\ ram' = <<>>
    /\ mode' = "stage"
    /\ UNCHANGED <<flash, files, payloads, pending, overlay, script, said, runs, history>>

\* builtin_flash_backup inside an installation, to a file named for the time; the copy in RAM
\* covers the staging offset.
BackUp ==
    /\ mode = "backup"
    /\ backups' = Append(backups, Snapshot(FlashSize))
    /\ ram' = <<>>
    /\ mode' = "stage"
    /\ UNCHANGED <<flash, files, payloads, pending, overlay, script, said, runs, history>>

\* What the board is to run.
InstallScript ==
    Update("uboot", Update("env", Update("kernel", Update("rootfs",
        EraseOverlay(<<Say("updated"), Reset>>)))))

\* The pending updates whose file has the name s.
StagedAs(s) == {role \in pending : payloads[role].source = s}

\* openipc_flash_partition for each pending update, then openipc_erase_overlay.
Stage ==
    /\ mode = "stage"
    /\ files' = [s \in Sources |->
                    IF StagedAs(s) = {} THEN files[s]
                    ELSE payloads[CHOOSE role \in StagedAs(s) : TRUE].body]
    /\ script' = InstallScript
    /\ mode' = "script"
    /\ current' = Nothing
    /\ UNCHANGED <<flash, ram, backups, payloads, pending, overlay, said, runs,
                   before, lost, dropped>>

----------------------------------------------------------------------------
(***************************************************************************)
(* The board runs the first command of its script.                         *)
(***************************************************************************)
Runs(cmd) ==
    /\ mode = "script"
    /\ script # <<>>
    /\ Head(script).do = cmd

\* The partition a file is for, in an installation, and whether the board got something else.
PartitionsOf(file) ==
    IF file.dir = "install"
    THEN StagedAs(file.name) ELSE {}

Missed(file, body) == {role \in PartitionsOf(file) : body # payloads[role].body}

\* tftpboot to the staging offset.
RunFetch ==
    LET file == Head(script).file
    IN  /\ Runs("fetch")
        /\ ram' = Served(file)
        /\ script' = Tail(script)
        /\ lost' = lost \cup Missed(file, ram')
        /\ UNCHANGED <<flash, mode, said, runs, serverVars, before, current, dropped>>

\* A fetch that fails has replaced the first n blocks in RAM.  If nobody looks, the script goes on.
FetchFails(n) ==
    LET file == Head(script).file
        body == Served(file)
    IN  /\ Runs("fetch")
        /\ Failures
        /\ n < Len(body)
        /\ ram' = SubSeq(body, 1, n) \o SubSeq(ram, n + 1, Len(ram))
        /\ script' = IF Head(script).checked THEN <<Say("not modified")>> ELSE Tail(script)
        /\ lost' = lost \cup PartitionsOf(file)
        /\ UNCHANGED <<flash, mode, said, runs, serverVars, before, current, dropped>>

\* The flash when the first n blocks of an erase or a write are done.
After(cmd, n) ==
    [b \in Addresses |->
        LET i == b - cmd.offset + 1
        IN  IF b < cmd.offset \/ i > n THEN flash[b]
            ELSE IF cmd.do = "erase" THEN Erased
            ELSE IF i <= Len(ram) THEN ram[i]
            ELSE Junk]

RunErase ==
    /\ Runs("erase")
    /\ flash' = After(Head(script), Head(script).size)
    /\ script' = Tail(script)
    /\ UNCHANGED <<ram, mode, said, runs, serverVars, history>>

RunWrite ==
    /\ Runs("write")
    /\ flash' = After(Head(script), Head(script).size)
    /\ script' = Tail(script)
    /\ UNCHANGED <<ram, mode, said, runs, serverVars, history>>

\* The last message; a restore ends here, an installation counts down to a reset.
RunSay ==
    /\ Runs("say")
    /\ said' = Head(script).what
    /\ script' = Tail(script)
    /\ mode' = IF Tail(script) = <<>> THEN "idle" ELSE mode
    /\ UNCHANGED <<flash, ram, runs, serverVars, history>>

RunReset ==
    /\ Runs("reset")
    /\ flash' \in Booted(flash)
    /\ ram' = <<>>
    /\ mode' = "idle"
    /\ script' = <<>>
    /\ said' = "nothing"
    /\ current' = IF lost = {} THEN payloads ELSE Nothing
    /\ UNCHANGED <<runs, serverVars, before, lost, dropped>>

(***************************************************************************)
(* The world around: power is lost with n blocks of a command done, and    *)
(* another session writes a file this one has put in place.                *)
(***************************************************************************)
Interrupted(n) ==
    IF mode = "script" /\ script # <<>> /\ Head(script).do \in {"erase", "write"}
    THEN n <= Head(script).size /\ flash' \in Booted(After(Head(script), n))
    ELSE n = 0 /\ flash' \in Booted(flash)

PowerLoss(n) ==
    /\ mode # "idle"
    /\ Interrupted(n)
    /\ ram' = <<>>
    /\ mode' = "idle"
    /\ script' = <<>>
    /\ said' = "nothing"
    /\ UNCHANGED <<runs, serverVars, history>>

OtherStages(o, role) ==
    /\ OthersStage
    /\ o.layout # <<>>
    /\ \E i \in DOMAIN script :
           /\ script[i].do = "fetch"
           /\ script[i].file.dir = "install"
           /\ script[i].file.name = o.release.sources[role]
    /\ files' = [files EXCEPT ![o.release.sources[role]] = o.release.images[role]]
    /\ UNCHANGED <<flash, ram, mode, script, said, runs, backups, payloads, pending, overlay,
                   history>>

----------------------------------------------------------------------------
ServerStep ==
    \/ \E max \in Limits : SaveBackup(max)
    \/ \E n \in DOMAIN backups, max \in Limits : ReplaceBackup(n, max) \/ StartRestore(n, max)
    \/ \E o \in Offers, wipe \in BOOLEAN : Refuse(o, wipe) \/ Install(o, wipe)
    \/ BackUp
    \/ Stage

BoardStep ==
    \/ RunFetch
    \/ \E n \in 0 .. FlashSize : FetchFails(n)
    \/ RunErase
    \/ RunWrite
    \/ RunSay
    \/ RunReset

Environment ==
    \/ \E n \in 0 .. FlashSize : PowerLoss(n)
    \/ \E o \in Offers, role \in {"uboot", "kernel", "rootfs"} : OtherStages(o, role)

Next == ServerStep \/ BoardStep \/ Environment

Spec == Init /\ [][Next]_vars

----------------------------------------------------------------------------
Block == {Old, Erased, Saved, Junk} \cup Contents

(* The type of every variable; what is under way is what its mode says. *)
TypeOK ==
    /\ flash \in [Addresses -> Block]
    /\ before \in [Addresses -> Block]
    /\ ram \in Seq(Block)
    /\ \A s \in Sources : files[s] \in Seq(Block) \cup {Nothing}
    /\ \A n \in DOMAIN backups : backups[n] \in Seq(Block)
    /\ mode \in {"idle", "backup", "stage", "script"}
    /\ (mode = "script") <=> (script # <<>>)
    /\ pending \subseteq Roles
    /\ payloads = Nothing => pending = {} /\ overlay = Nothing
    /\ \A i \in DOMAIN script : script[i].do \in {"erase", "write"} =>
           script[i].offset + script[i].size <= FlashSize
    /\ lost \subseteq Roles
    /\ dropped \subseteq Addresses
    /\ runs \in 0 .. MaxRuns

(* An installation changes nothing but the partitions of its plan, the overlay it was told to    *)
(* erase and, at the first boot, the environment: images stay inside partitions that do not      *)
(* overlap, however the layout was found, and whatever was fetched (openipc.py:769).             *)
OnlyPlannedAreasChange ==
    payloads # Nothing =>
        LET planned == (IF overlay = Nothing THEN {} ELSE Area(overlay))
                       \cup UNION {Area(payloads[role]) : role \in pending \cup {"env"}}
        IN  \A b \in Addresses : flash[b] # before[b] => b \in planned

(* Whatever block of the flash as it was first found is gone, an image in the backup directory   *)
(* that flash_restore accepts has it, however installations and restores ended; unless           *)
(* flash_backup was told to write to a file that had it (tools.py:191-208).                      *)
OriginalIsSaved ==
    \A b \in Addresses \ dropped : flash[b] # Old =>
        \E n \in DOMAIN backups : b < Len(backups[n]) /\ backups[n][b + 1] = Old

(* Once an installation has changed a block, the backup directory has the whole flash as it was  *)
(* when the installation began, whatever images were there before and wherever power is lost     *)
(* (openipc.py:913).  A boot changes the environment without asking.                             *)
BeforeIsSaved ==
    payloads # Nothing /\ (\E b \in Addresses : flash[b] \notin {before[b], Saved}) =>
        \E n \in DOMAIN backups : backups[n] = [i \in 1 .. FlashSize |-> before[i - 1]]

(* When the board says which partitions were updated, every partition of the release holds its   *)
(* image, also those that were not pending, unless the board did not get the file that was put   *)
(* in place for it.                                                                              *)
UpdatedUnlessLost ==
    said = "updated" => \A role \in Roles : Matches(payloads[role]) \/ role \in lost

(* A restore that says so has written exactly an image of the backup directory, and nothing      *)
(* behind it; one that says that the flash was not modified leaves it as it was (tools.py:295).  *)
RestoreAllOrNothing ==
    /\ said = "restored" => \E n \in DOMAIN backups :
           flash = [b \in Addresses |->
                       IF b < Len(backups[n]) THEN backups[n][b + 1] ELSE before[b]]
    /\ said = "not modified" => flash = before

(* A board that updates at every boot does not flash, and reset, again and again: after an       *)
(* installation that lost nothing, the same release finds nothing to do but the environment,     *)
(* which the first boot has rewritten.                                                           *)
NoFlashLoop ==
    [][mode = "idle" /\ mode' = "backup" /\ overlay' = Nothing => payloads' # current]_vars

(* An installation puts in place images that suit what it was asked for: see Suits.              *)
ImagesSuitRequest ==
    [][runs' # runs /\ payloads' # Nothing =>
        \A o \in Offers, wipe \in BOOLEAN : Install(o, wipe) =>
            Suits(o.request, [role \in Roles |-> payloads'[role].body])]_vars

(* "Updated partitions: ..." (openipc.py:925): each of them holds the release's image.           *)
UpdatedIsReleased ==
    said = "updated" => \A role \in pending : Matches(payloads[role])
====
