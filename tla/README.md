# A TLA+ model of uboot-tftp

uboot-tftp is a TFTP server that drives U-Boot boards from Python.  A board asks
for `/session?id=<ident>`; the server answers with a compiled U-Boot script whose
last command asks again with a token; a user-written coroutine decides, result by
result, what the next script does.  On the way the board uploads memory with
`tftpput`, the server downloads firmware in background threads, and scripts erase
and write flash.  This directory models the parts in which the order of events
decides whether that works, checks them with TLC on small instances, and proves the
central facts with TLAPS for every value of the constants.

Paths below are relative to the repository; `src/uboot_tftp/` is left out of file names.

## 1. Inventory

### 1.1 Components

| Component | Files | State it keeps | Operations |
|---|---|---|---|
| Session provider | `scripted.py`, `sessions.py`, `protocol.py`, `providers.py` | one `ClientSession` per client id: current token, preflight flag, handler coroutine, pending receive, queues of variables to report and to clear, probed commands, held downloads | `fetch` starts, resumes or rejects; `_advance_session` runs the coroutine; `_discard_session` ends it |
| Upload store | `uploads.py` | the bytes of a pending receive; open `_CapturingUpload` files | `open` at the WRQ, `record` when the file is closed |
| TFTP adapter | `server.py` | provider, upload store and root in use | `_open_dynamic_download` (RRQ), `_open_upload` (WRQ), `reload` |
| U-Boot board | external; simulated by `test_client.py` | script being run, token, environment | sources a script, uploads, continues, times out, is power cycled |
| Download jobs | `download_jobs.py`, `ubootops.py` | one entry per artifact: destination, state, progress, attached sessions; a temporary and a final file | `acquire`, `get`, `release`; a thread per artifact; a polling loop per session |
| Command guards and return values | `scripted.py`, `ubootcmds.py` | supported and unsupported commands; U-Boot variables `_c0…`, `_s`, `_r0…` | plan probes, guard a body, consume the report, queue the cleanup |
| Daemon | `cli.py`, `check_cli.py`, `config.py`, `server.py` | pidfile, configuration read at the start; provider, upload store and root in use; the reload handlers on the stack | start, SIGHUP reload, end; `uboot-tftp-check --reload` looks for the instance and signals it |
| Script snippets | `ubootscript.py`, `ubootterm.py` | none | CRC ranges, NOR probe, delays, terminal text |
| Flash plan | `flashplan.py` | none | which ranges to verify and write, in which batches |
| Partitions, environment | `partitions.py`, `ubootenv.py` | none | parse `mtdparts`, ranges, resolve references, read and write the binary environment |
| OpenIPC installation | `openipc.py`, `github_assets.py` | a staged image on disk, the board's flash | select a layout, download, stage, erase, write |
| Builtin tools | `tools.py` | files on disk, the board's flash | backup and restore |
| Image format, command lines | `mkimage.py`, `check_cli.py`, `ubootenv_cli.py`, `openipc_tftp.py` | none | encode, parse arguments, print |

### 1.2 How they interact

* tftpy runs one select loop.  It calls `_open_dynamic_download` for an RRQ,
  `_open_upload` for a WRQ and `close` on the file of an upload, one at a time.
  Everything the session provider does for one RRQ is therefore one step, up to and
  including the coroutine's next `await`.
* The board and the server exchange nothing but RRQs, scripts, WRQs and
  acknowledgements.  UDP may lose, repeat and delay them; each transfer has its own
  port, so a reply reaches only the transfer it answers.
* Session handlers acquire downloads and poll them, one round trip of the board for
  each look.  The thread of a download takes the store's lock only to mark
  progress and outcome; its file operations run beside everything else.
* A SIGHUP reload builds a new provider, upload store and download store while
  transfers and download threads of the old ones go on.  Its handler runs in the main
  thread, between any two bytecodes, and may itself be interrupted by the next SIGHUP.
* `uboot-tftp-check --reload` finds a daemon by its command line and its pidfile, and takes any
  process with such a command line for one; it and the daemon share nothing but these, the configuration file and a signal.
* The probes, the exec status and the values a script binds travel from one script to
  the next through U-Boot variables that live on the board.

### 1.3 What is hard

* A continuation that is repeated or late meets a session that has moved on.
* A board that is power cycled starts a new session while RRQs, WRQs and files of the
  old one are still around.
* An upload is checked when its WRQ arrives and again when its file is closed; a
  board that restarts `tftpput` has two of them at once.
* A handler may raise in the middle of its work: some fields have changed by then.  If it awaits
  something that is no script, it has moved on and waits again under its old token.
* Downloads are shared: the same entry is waited for, released and polled by several
  sessions, and its files outlive a crash.  A thread of an old store may be held up anywhere, and
  finish after the thread that took its place.
* Probe results arrive one script later, in variables the next script also uses, and so does the
  guard of a script that is itself a check.
* Flash is erased and written in steps; power may fail between any two.
* Instances of one configuration overlap, and share a pidfile that any of them overwrites
  and removes; other processes look like them; a pid is looked up some steps before it is signalled.
* Images are chosen by parts of names, and names of SoCs contain each other.

`PROJECT.json` lists each hazard with the line where it bites and the properties that
are about it.

### 1.4 What makes each component correct

* **Sessions**: each script is answered at most once (unless its answer sends the handler astray),
  only by the board it was sent to, and only while it is the latest; the bytes of `exec_recv` are those of its own
  upload; what is acknowledged is there; the references to downloads are those of the
  live sessions; a dialogue comes to its end.
* **Downloads**: done means the whole file is in place; a payload is whole; after a reload it
  is what is published; a failed download leaves no temporary file; whoever waits is told.
* **Guards**: a body runs only where its commands exist; the answer tells whether it ran;
  the cache of commands is true.
* **Installation**: what is written stays inside the partitions of the plan and inside the
  flash, and partitions do not overlap; before anything is erased the whole flash is on the server;
  what is reported as updated holds the image; a board that updates at every boot comes
  to rest.
* **Partitions, flash plan**: the layout that is taken is one the images fit.
* **Choice of images**: for the SoC, the edition, the release and the flash that were named.
* **Daemon**: a server uses one runtime at a time, the newest usable one it was told to load;
  a pidfile names an instance; a server that runs alone is never missed by the check tool.

## 2. Modules

```
TftpDialogue ──► ScriptedSession ─┐
     └────────► UbootBoard ──────┴► SessionSystem ──► MCSessionSystem
InstructionLedger ◄── refinement ──────┘  └► SessionTypes_proofs ─► SessionSafety_proofs
                                                                        └► SessionLedger_proofs
DownloadJobs ──► MCDownloadJobs        DownloadJobs ──► DownloadJobs_proofs
CommandGuards ──► MCCommandGuards      CommandGuards ──► CommandGuards_proofs
Daemon ──► MCDaemon                    Daemon ──► Daemon_proofs
ReleaseAssets ─┐
FlashLayout ───┴► FlashInstall ──► MCFlashInstall
     └─────────► FlashChoice_proofs ──► FlashInstall_proofs ◄── FlashInstall
```

**TftpDialogue** is the vocabulary and the link: `wire` holds the RRQs sent, `puts` the
WRQs, `answers[c]` what is on its way to the open transfer of board `c`.  With
`Duplicates` a packet stays on the link after it was handled, so that the server may get
it again at any later time; order is never kept.  Tokens are numbers drawn in sequence: all
the code asks of `secrets.token_urlsafe` is that no value comes twice.

**ScriptedSession** is the server.  One action for each way `fetch` can go:

| Action | Code |
|---|---|
| `StartSession` | `_start_session`: discard what was there, new session, probe script |
| `RejectStale` | `_resume_session`: no session, or not its current token |
| `FailPreflight` | the probe reports no hush shell: discarded before its handler |
| `CreateHandlerRaises` | `_create_handler` raises: flag cleared, token kept |
| `ResumeWithoutHandler` | the flag is cleared but there is no (living) coroutine |
| `AwaitInstruction` | resume, acquire downloads, `exec` or `exec_recv`: rotate the token, set up the receive |
| `FinalInstruction`, `HandlerReturns` | resume, then `exec(final=True)`, return, or `ReceiveFailedError`: discard |
| `HandlerRaises` | resume, then another exception out of the coroutine: the entry stays, with a dead coroutine |
| `HandlerStrays` | resume, then the `TypeError` of `scripted.py:597`: the coroutine awaits something that is no `_ExecutionRequest`, so it has moved on, waits again, and its token is not rotated |
| `OpenUpload`, `RefuseUpload`, `CloseUpload` | `InMemoryUploadStore.open` and `record` |
| `Restart`, `Reload` | `build_runtime`: empty stores; open uploads die, or stay with the old store |

The user's handler is arbitrary: at every resumption it may acquire any downloads and
take any outcome.  A `FileNotFoundError` that leaves `fetch` is answered with a TFTP error, any
other exception with nothing (`AnswerException`); if tftpy lets it end the process, that is a
`Restart`.  `owner`, `asked`, `resumes`, `received` and `strayed` are history variables; the only
guard that reads one is the bound `MaxStray` of `HandlerStrays`.

**UbootBoard** is the board, external to the code: the actions follow the commands that
`_append_continue` and `_append_receive` put into every script, and `test_client.py`,
which plays the same part.  **SessionSystem** composes the two: a packet on the link
becomes a step of the server, and closing the file of an upload comes with its
acknowledgement, as in tftpy.

**InstructionLedger** is the abstract specification, what the author of a handler may
count on: an instruction is unused, open, loose, answered or dropped; it is handed out once, to one
board, and answered only while the handler waits at it; the handler goes on exactly
when it is answered; a result is that of its own instruction.  An answer closes an instruction for
good, unless it makes the handler await no instruction at all (`AnswerAstray`): then the
instruction is loose, and each further answer sends the handler on, until it hands out another or
ends.  `LedgerKept` states that
`SessionSystem` implements it under the mapping `LedgerState`, `owner`, `asked`,
`LedgerResult`.

**DownloadJobs** has the server thread, one thread per artifact and the files.  A job is an
entry of one store (`runtime` says which is in use) with its thread.  A file is
an identity with a set of blocks, each of a version of what is published: two threads that open
the same path write the same file, a rename moves the identity.

| Action | Code |
|---|---|
| `Call`, `CallRaises`, `UseCached` | `uboot_download_url` up to its first snapshot: `acquire` starts or joins an entry, or `_validate_entry` refuses a request that differs; `cache=True` takes what is there |
| `Poll`, `ReadPayload`, `ReportFailure` | its loop, one snapshot per round trip of the board |
| `Discard` | the session ends or is replaced: `release` |
| `Respond`, `OpenTemp`, `WriteBlock`, `EndBody`, `Rename`, `MarkDone`, `DownloadRaises`, `MarkFailed`, `Unlink` | the response, the system calls and the lock sections of `_default_downloader` and `_run_download`, in their order, with a step of their own for each point at which a thread can be held up |
| `Reload`, `Crash` | `build_runtime`: an empty store, with the old threads at work or stopped where they are |
| `Publish` | external: the file behind the URL is replaced |

`Source` maps each destination to its URL, so that one URL may be wanted in two places.  A
connection may close before `Content-Length` bytes (`ShortReads`).  `spoiled`, `lingering` (keys of
which a thread of the old store held a response when the reload came) and `orphans` (temporary
files a crash left behind) are history variables; no guard reads them.

**CommandGuards** is one session and its board in alternation: `Write` consumes the
report of the last script and composes the next one; the `Run…` actions are what the
board does with it.  The variables `_c<i>`, `_s` and `_r0` are explicit, because the
order in which a script clears, probes and reports them matters.  A request has three lists of
required commands: those of lines queued before it, its own, and those of a snippet in it.
`Required` says which of them reach the guard: `ubootscript.py:71` replaces an empty list by
a new one, so that a snippet that is given the caller's empty list adds to nothing.
`check_cmds` is a script too, and takes what was queued: its `checks` then stand inside the guard
whose `probes` use the same `_c0`, `_c1`, …; of a command in both lists the guard's binding is
consumed last.  A check with nothing to probe writes no script and is no step.  `uses`, `listed`,
`ran`, `answer` and `unchecked` are history; `unchecked` holds the very commands of a check whose
probes were left out with its body.

**Daemon** is the process from its start to its end, several times over, and the check tool.

| Action | Code |
|---|---|
| `Launch`, `Prepare`, `PrepareFails` | `main`: `load_daemon_config`, `write_pidfile` |
| `Build`, `BuildFails` | `build_server`, `install_reload_handler`; outside the `try`, so that a failure leaves the pidfile |
| `Listen`, `Interrupt`, `Leave` | `server.run` with its bind; `KeyboardInterrupt`; `remove_pidfile` in `finally` |
| `Kill`, `Recycle`, `Resemble` | external: SIGTERM, a crash; the number is given to another program; a process begins or ends whose command line matches |
| `Load`, `LoadFails`, `SetProvider`, `SetUploads`, `SetRoot` | `handle_reload` and `reload_server`, one assignment a step, on a stack of handlers |
| `Edit` | external: the configuration file changes |
| `Check`, `Scan`, `Resolve` | `check_cli.py`: `find_config_pids`, `resolve_reload_pid` |
| `SendReload`, `SendKills`, `SendIsLost` | `os.kill(pid, SIGHUP)` by what the process is doing by then |

A configuration is a record of what matters here: whether it loads, whether its script parses
and builds, its root, port and pidfile.  `hidden` instances are those whose command line
`_is_daemon_argv` does not recognise: started as `openipc-tftp`, or with a relative
`--config` from another directory.  A process that is `alike` has the command line without being an
instance of this configuration: the `sudo` it was started with, or the daemon of another directory,
whose relative `--config` the tool resolves against its own.  A signal ends it or does nothing, by
which of the two it is.  Of the root only the one in use is kept, not where bare uploads go.
`nested`, `asked`, `alone` and `leftover` are history variables.  `nested[p]` is `"yes"` once a signal
has interrupted a handler, `"over"` when a later reload has begun by itself, and `"no"` again when that
one has replaced everything.

**ReleaseAssets** has no state: it is the search of `openipc_load_release_assets` and
`github_assets.py`.  An asset is a record of what its name says (kind, target, edition, flash,
format) and of the images in it.  How the needles of a search relate to names is given by four
constants: `Inside` (the targets in whose names a SoC's or family's name occurs), `Variants` (a
name goes on with `-`, `_` or `.`), `Family` (Ingenic T parts) and `Wildcards` (targets with an
x).  `Single` is the rule that a group of needles decides only if one asset matches, `Or` the order
in which groups are tried.

**FlashLayout** has no state: it is `_openipc_partition_layout` with what it calls.  An
environment is a sequence of variables in the order of their names, each with what the
layout depends on: its rank among the candidate keys, the first table in its value, and the
variables the value and the table refer to.  `Layout` resolves references (a missing variable or
a cycle fails), computes offsets, rejects tables that are unsound or too small, and takes the one
that ends first.

**FlashInstall** is one board, its flash in blocks, its RAM at the staging offset, and the
server's `install/` and `backup/` directories:

| Action | Code |
|---|---|
| `SaveBackup(max)`, `ReplaceBackup(n, max)` | `builtin_flash_backup` as a command, to a new file, or with `file=` over the one that has the name |
| `StartRestore(n, max)` | `builtin_flash_restore` up to its one script |
| `Refuse` | `openipc_install`: a `ValueError` of the layout or of the missing overlay |
| `Install` | `openipc_install` up to its decision: nothing to do, only the environment, or go on |
| `BackUp`, `Stage` | the backup inside an installation; the staged files and the queued commands |
| `RunFetch`, `FetchFails`, `RunErase`, `RunWrite`, `RunSay`, `RunReset` | the board runs the script, one command a step |
| `PowerLoss(n)` | anywhere, with `n` blocks of an erase or a write done |
| `OtherStages` | another session writes a file of the same name into `install/` |

A release's images keep their file names across releases, as the assets of OpenIPC do.  What an installation is asked for
(`Requests`) is a SoC, an edition, a tag and the size it is told of.  The first
boot after an installation runs the patched `bootcmd`, which saves the environment
(`Booted`).  `before`, `lost`, `current` and `dropped` (addresses whose first contents were in an
image that `file=` overwrote) are history variables; no guard reads them.

## 3. Runs

| Run | Instance | Shows |
|---|---|---|
| `session_one_board` | 1 board, 3 tokens, 2 boots, 2 tries of a `tftpput`, 1 restart or reload, a handler that strays once under a token, lossy and duplicating link | types, `ResumedAtMostOnce`, `DeliveredIsOwnUpload`, `OkMeansStored`, `ReferencesMatchSessions`, `LedgerKept` |
| `session_two_boards` | 2 boards sharing a download, 4 tokens, 1 restart or reload, lossy and duplicating link | `TokensArePrivate`, and that the end of one session never detaches the other |
| `session_reliable` | 1 board, 6 tokens, a handler that strays, nothing lost or repeated, fairness | `BoardInStep`, `DoneLeavesNothing`, `DialogueEnds` |
| `session_cut_upload` | 2 tries of a `tftpput` | violation: an upload that was cut short replaces the whole one |
| `download_shared` | 1 artifact in 2 places, 2 sessions, 2 blocks, 2 versions, a reload or crash, early ends, fairness | types, `TempHasThread`, `DoneIsInPlace`, `NoReadRaises`, `CleanPayloadIsWhole`, `FreshSinceReload`, `EntriesMoveForward`, `WaitingEnds` |
| `download_reload` | the same without early ends | violation: two threads share a temporary file after a reload |
| `download_short_read` | connections that close early | violation: a truncated file is done |
| `guards` | 4 commands (one assumed, one unknown), 4 scripts, up to 2 required at a time, by queued lines, scripts, checks and snippets | types, `BodyRunsOnlyWhenAvailable`, `SupportedIsTrue`, `AnswerTellsWhetherBodyRan` |
| `guards_refused` | 2 commands, 5 scripts | violation: a command the board has is refused |
| `flash_install` | 6 blocks of flash, 2 releases, 10 requests, 2 commands, power loss, failing fetches, another session staging | types, `OnlyPlannedAreasChange`, `OriginalIsSaved`, `BeforeIsSaved`, `UpdatedUnlessLost`, `RestoreAllOrNothing`, `NoFlashLoop`, `ImagesSuitRequest` |
| `daemon` | 2 processes, 4 configurations, 1 change of the file, 4 starts and runs of the tool together, fairness | types, `RuntimeIsOne`, `NewestConfigIsUsed`, `PidfileNamesInstance`, `ReloadFindsLoneServer`, `ReloadsEnd` |
| `flash_updated` | the same without the other session | violation: a partition is reported as updated with what a failed fetch left in RAM |

### 3.1 Bounds

* `MaxToken` bounds the scripts of a behaviour.  Three are a probe and two receives, which is
  what it takes for an upload, a continuation or a file of one receive to meet the
  next; with two boots, a probe, a receive and the probe of the next boot.  Four, with two
  boards, are two complete short sessions.  The proofs have no such bound.
* `MaxBoots` = 2 lets every packet of the first boot meet the session of the second.
* `MaxPuts` = 2 gives two transfers of one upload at once.
* `MaxRestarts` = 1: a server that restarts forgets everything, so that a second restart meets
  nothing a first one would not.
* `MaxStray` bounds the tokens under which handlers go astray, and how often under one: once is enough
  for a token that resumes it twice.  The run of two boards leaves it out (0), being about tokens that change hands.
* `Chunks` = 2: a file can be empty, half and whole; a writer can be overtaken at its end
  and in its middle.  One URL with two destinations is what a conflict takes; one reload and one
  new version are what an old thread and a new one take to meet.
* In `guards`, a status, a probe and a value take three scripts to be set, to be left
  uncleared and to be read; four leave one to spare.  Lines are queued that the board may lack and
  that the registry does not know, so that the guard of a check both probes and refuses.
* In `flash_install`, six blocks hold the four partitions, one of them of two blocks, and an overlay
  or a gap.  The environments show a second table that ends later, a table behind a reference, one
  embedded beside unrelated references that do not resolve, and, passed over, cycles and tables
  that overlap, run backwards or reach beyond the flash; one release has nothing else and is
  refused.  The ten requests reach each way images are found (a bundle of the SoC, of its family, by
  wildcard; kernel and rootfs published alone; the U-Boot of the latest release) and each refusal.
  Two commands are what every property here relates: an installation
  and what comes after it, whole or interrupted.
* In `daemon`, two processes overlap, follow one another and leave pidfiles to each other.
  `MaxCalls` = 4 bounds starts and runs of the tool together: two instances and two reloads, or one
  instance and three reloads, two that overlap and one alone after them.  The second configuration
  differs in root, port and pidfile; the other two fail before and after the pidfile is written,
  and in a reload at the load and at the build.
* Sizes found by the NOR probe (`Limits`) are the whole flash and half of it, as doubling finds.
* `CHECK_DEADLOCK FALSE`: a board that is done, or out of its bounded boots, stops.
* Symmetry is used for boards and for sessions where the run has no liveness property
  and treats them alike.

### 3.2 Fairness

`session_reliable`: `WF(ServerStep)`, because the select loop of tftpy handles whatever
is there as long as the process runs; `WF(BoardStep(c))`, because U-Boot runs a script to its
end and gives up on a transfer after its retries.  No fairness of `Boot`, `Restart` or
`Reload`.  `download_shared`: weak fairness of each download thread (scheduled by the
operating system; `opener.open` has a timeout) and of each session that polls (its board
keeps coming back).  Nothing is assumed of the user's handler: it may always end the
session, and the token bound stands for a handler that does so eventually.  `daemon`:
`WF(HandlerStep(p))`, because Python runs a signal handler in the main thread to its end before
that thread goes on; nothing is assumed of the tool, of users or of the system.

## 4. What the violations say

Each is listed under `findings` with the line of the code and of the text it departs from.

* **session_cut_upload**: `_CapturingUpload.close` records whatever has arrived, also of a
  transfer that was given up.  If `tftpput` restarts and the file of its first transfer
  is closed after the second was acknowledged, the handler gets the truncated bytes;
  `PendingReceive.size` is not compared with them.
* **download_reload**: a new `DownloadJobStore` over the same directory knows nothing of
  the threads of the old one and opens the same temporary path.
* **download_short_read**: the read loop takes an empty read for the end of the file and
  never compares `done` with `total`.
* **guards_refused**: the lines that clear the variables of one script stand inside the guard of the
  next, after its probes, so that a probe that shares a variable with the script before
  is cleared before it is reported.  The command counts as missing from then on.
* **flash_updated**: `openipc_flash_partition` does not look at the status of its `tftpboot`, so
  that after a fetch that fails the partition is erased and written with what RAM holds, and the
  summary says it was updated.  `builtin_flash_restore` does look.  `UpdatedUnlessLost` is what
  holds: everything the board did get is where it belongs.

A weaker form of the placement in `guards_refused`: when a required command is missing the body goes and
its cleanup lines with it, so a variable bound to the skipped script still reports
what the one before left in it.  `AnswerTellsWhetherBodyRan` therefore speaks of
values of bodies that ran.

### 4.1 What else the code does that a reader may not expect

Each of these bounds a property above; where a line of the repository says otherwise, it is named.

* Reloads that overlap may leave the provider of one runtime with the upload store or
  the root of the other, so that no upload of a session is accepted until the next reload.
  `RuntimeIsOne` and `NewestConfigIsUsed` except such a server until a reload that ran alone
  has replaced everything (`tests/test_server.py:250` asserts that a reload swaps all of it).
* A SIGHUP that arrives before `install_reload_handler` ends the daemon.  One sent to
  the pid of a file that an instance which was killed, or could not build its server, left
  behind goes to the program that has the number by then, and may end it.  The help of
  `--reload` says "send SIGHUP to the running daemon" (`check_cli.py:32`).  Two instances
  overwrite each other's pidfile; an instance `_is_daemon_argv` does not recognise and whose
  pidfile was overwritten is not found.  The tool reads the path of the pidfile from the
  configuration as it is now, the daemon keeps the one of its start.
* A server started with `sudo`, as `README.md:92` advises, has a parent with the same arguments, and
  `find_config_pids` (`cli.py:104-140`) takes it for a second instance; the daemon of another
  directory with the same relative `--config` is taken for one of this.  The tool then says
  "multiple running instances found for config" (`cli.py:166`) and reloads none.
  `ReloadFindsLoneServer` promises no more than that it does so for no other reason.
* After a reload that changes the root, tftpy still makes paths below the old one.  A bare upload is
  then refused, or, where the new root is above the old, written to the old place and not served
  under its name, although `README.md:273` says that files under `rootdir` are written directly;
  an upload of a session is refused or taken for a bare one.
* `check_cmds` behind queued lines that require commands: its script takes these into its guard
  (`scripted.py:409`, `1024`), which numbers its variables `_c0`, `_c1`, … like the check does
  (`scripted.py:397`).  If a queued requirement is missing, the check's probes are skipped with its body, the
  guard's results are read in their place, and a command that was never tried may count as
  supported, so that later bodies that require it run.  `SupportedIsTrue` and
  `BodyRunsOnlyWhenAvailable` limit this to the very commands of such a check.
* A handler that awaits something that is no script gets no `TypeError`: it has moved on, its
  token is not rotated, and a repeated continuation moves it on again (`scripted.py:597`).
* The thread of a store that a reload has replaced may be held up between its response and
  opening its file (`download_jobs.py:273-277`), finish after the new store's thread, and put the
  older file in its place.  `FreshSinceReload` excepts the artifacts of which an old
  thread held a response when the reload came.
* `flash_backup file=x` overwrites a backup of that name, which may be the only copy of what the
  flash held first (`tools.py:191-208`); an installation never overwrites one.
* An entry of a download that is done or failed stays until the next reload: `cache=False` skips
  a file on disk, not an entry of the store.
* A snippet that is given an empty list of required commands adds its own to a list nobody
  reads.  `openipc_flash_partition` hands its snippets an empty list, so that what it queues runs
  unguarded; in `builtin_flash_restore` what the fetch needs is lost, what follows `test` is not.
* A SoC whose name is part of another's gets the other's images if only these are published;
  `Suits` promises no more.  If both have bundles, neither group of needles matches one
  asset and the SoC cannot be installed.  A kernel and a root file system published alone are taken
  without the edition if only one of each is there.
* `setdefault` keeps the `soc_part` of an earlier installation (`openipc.py:360`).

## 5. Proofs

The proofs hold for any values of the constants that meet the named assumptions of the modules:
bounds are natural numbers, null values differ from what they stand beside.  Beyond that,
`GuardAssumption` asks for a finite set of commands and for requests that respect `MaxNeeds`;
`DaemonAssumption` for finitely many pids; `InstallAssumption` for requests of SoCs and tags the tables know, for a `Latest` release, and for
`Old` to be told from what is written; `EnvAssumption` for an environment to begin with a block that
is in no image and not erased, as its checksum does, and for the variables of a default environment
to be ranked; `NothingAssumption` for `Nothing` to be no set of payloads; `ReleaseAssumption` for what a name contains to include itself, and for a SoC's
targets to be among its family's.  TLC evaluates each assumption in a run.

**Sessions** (`SessionSystem`)

* `TypeCorrect` (**SessionTypes_proofs**).  `TypeOK` is not inductive by itself: a board
  sends the token of its script and the number of its boot.  `TypeInv` adds that every script under
  way which continues carries a token (`ScriptsHaveTokens`) and that a board that
  is not off has booted (`BoardsAreOn`).
* `AtMostOnce` (**SessionSafety_proofs**).  `ResumeInv`: live sessions have tokens that were
  drawn (`TokensAreDrawn`), no two the same (`TokensDiffer`); a token by which a
  session can still be resumed has resumed none, or its handler strayed under it
  (`ResumableNotResumed`); a token not drawn yet has no past (`FreshIsUnused`).  A resumption spends
  its token and either draws a fresh one, ends the session, leaves it with a dead handler, or sends the
  handler astray.
* `OwnUpload`.  `UploadInv` adds that a pending receive is that of the current token, for
  a script that uploads, and holds bytes of that token only.  That is where the
  second check, in `record`, is needed.
* `References`.  `RefersTo` is the property client by client; each action is one of
  "one session attaches", "one session is discarded" or "nothing changes".
* `LedgerRefined` (**SessionLedger_proofs**): every behaviour of `SessionSystem` is one of
  `InstructionLedger` under the refinement mapping.  The mapping needs `OwnersKnown` (the token of a
  live session was handed to its own client) and `ResultsAreResumed` (only a token
  that has resumed has a result).  Each step of the server is then a Begin, an
  AnswerAndIssue, an AnswerAndClose, an AnswerAstray or an Abandon of the ledger, or changes nothing
  in it.
* `PrivateTokens`, `AcknowledgedIsStored`.  `LinkInv` extends the ledger's invariant to the link and the
  boards: a token on an RRQ, a script, a WRQ, an open upload or a board was handed to
  that client (`LinkOwned`); a board that was acknowledged, and an RRQ that says so, has its
  bytes stored, and a file of an earlier runtime has a token no live session waits for
  (`LinkStored`).  `OwnsStays` and `StoredStays` carry these facts over a step: tokens are
  drawn once, and a pending receive loses its bytes only when it is handed over.
* `BoardsKeepStep`, `DoneIsReleased`, under `Reliable`: nothing is lost or repeated, the server stays
  up and a board is started once, for any number of boards.  `BoardInStep` speaks of boards that run
  a script or have stopped; what makes it inductive is what is said of one that waits.  `Agree`:
  while a board waits, its only RRQ is on the wire and fits the session (`Fits`), or what is on its
  way to it is true of the session (`Truthful`: a continuation carries the current token of a session
  that can be resumed, an error means that nothing can be, a last script that the session is gone),
  or there is nothing on the way and nothing to resume but a handler that strayed, so that giving up
  is right.
  `PreflightFirst` (no handler before the preflight) covers a handler that cannot be created.
  `HandleServes` shows that each way `fetch` can go leaves such a state; `Untouched` that every
  other step, uploads among them, leaves it alone.  `DoneIsReleased` joins `References`.

`NextCases` sorts the disjuncts of `Next` into the few kinds these proofs tell apart.

**Downloads** (**DownloadJobs_proofs**), in layers, each an invariant on top of those before it:

1. `Types`; a session that polls has named its destination (`PathsKnown`).
2. `EntriesSound`: an entry and its thread agree; `EntriesAdvance` follows.
3. `FilesSound`: every path holds a file of its own artifact, no final path the one that is at
   the temporary path, and an entry whose file was placed still has one.  `TempHasThread` is
   inductive on top of it, through reloads and crashes: a file at a temporary path that no crash left
   behind is that of a thread still at work.
4. `ContentsSound`: of a key that is not spoiled, `CleanKey`: one thread works at a time
   (`OneWorks`), its file holds what it has written, of its version, and is not in place
   (`Filling`); what is in place is whole (`PlacedWhole`); unless a thread of an old store held a
   response at the last reload, every response that is held and what the store in use has placed is
   no older than the store (`HeldIsNew`, `PlacedIsNew`).  `DoneFilesStay` follows.
5. `CallersSound`: what a session saw in its snapshot still holds of the entry, and what it was
   given is whole.  `ReadsSucceed`, `CleanPayloads` and `ReloadsRefresh` follow.

**Guards** (**CommandGuards_proofs**).  `GuardInv`: what the session knows is true of the board,
but for commands in `unchecked` (`KnowledgeIsTrue`); each command a script requires is one the board has or one the script
probes, unless it is refused (`ScriptIsGuarded`); and what comes back tells which probes
succeeded and whether the body ran (`RunIsReported`), in the guard's lists and, where its body was
left out, in the list of a check.  `BodiesAreAvailable`, `CacheIsTrue` and the action property `AnswersTell` follow.
`RefusedOnlyIfMissing` is the direction that fails.

**Daemon** (**Daemon_proofs**).  `PidfilesAreWritten`: a pidfile names an instance that wrote it and
still has the configuration that names the file.  `Sound`: unless signals overlapped, a stack of
handlers has at most one frame, and provider, uploads and root are of one runtime, or,
while the frame replaces them, those it has assigned are of its runtime; after an overlap the first
reload that runs alone begins with whatever is there and ends in the same place.  `Newest`: what an
unnested handler has loaded, or the server uses, is the file as it was at the last signal.
`LoneIsKnown` and `ToolIsRight`: an instance that has run alone is in its pidfile, and the tool has
found nothing else unless a process looked like it.

**Choice of images and layout** (**FlashChoice_proofs**).  `FoundSuits` is proved group by group of the
search.  `LayoutIsTightest` holds of every environment and every flash: if any table can be used,
the one that is taken resolves, lies inside the flash with its partitions apart and in order
(`UsableIsGood`, `EntriesApart`), has room for the images, and none that can be used ends before it.
The offsets of a table are a recursive function; `LeastNatural`, the induction principle of the
naturals as a statement about sets, takes the place of an induction theorem in `OffsetsAreNat`, and
gives the end that is least and the name that comes first.

**Installation** (**FlashInstall_proofs**)

* `SuitableImages` takes `FoundSuits` to every installation.
* `OriginalKept`: `SavedInv` says that a block is touched only after it is in a backup: while a
  script runs, either everything in reach is saved or the script restores an image as large as what
  it erases.  A block is excepted once an image that held it was overwritten (`dropped`).
* `BeforeKept`: `BeforeInv` says that an installation has an image of the whole flash as it found it
  before it has commands, and that until then only a first boot changes a block.
* `InstallInvariant`: `InstallInv` is inductive, in four parts.
  `PlanInv`: the partitions of the plan are those of a layout, so inside the flash, apart, large
  enough for their images, and only that of the environment begins as one.
  `Types`: of every variable.
  `ModeInv`: a script consists of the commands of its plan, or of a restore, and its files are there.
  `ScriptInv`: the script is at one of its places.  An installation is at the fetch, the erase or the
  write of one pending partition (`AtFetch`, `AtErase`, `AtWrite`, each with what RAM and flash hold
  by then unless a file was lost), and the partitions before it and those not pending are finished;
  or all are (`AllUpdated`).  A restore is at one of five places (`RestoreAt`).
* `TypesHold`, `UpdatesAreWhole` and `RestoresAreWhole` follow.  An erase or a write of one partition
  leaves the others finished because they are apart (`OthersKept`); the boot that rewrites the
  environment comes only after the last command.
* `OthersAreLeftAlone`: every command of a script is one of its plan's (`ModeInv`), so a step, also
  one that is interrupted, stays inside the areas of the plan.
* `InstallsOnce`: `CurrentInv` keeps what the last installation that lost nothing has written, all
  but the environment, until the next script begins; an installation of the same plan then has
  nothing pending but the environment, and does not reach its backup.

What is only model-checked:

* the liveness properties `DialogueEnds`, `WaitingEnds` and `ReloadsEnd`; TLAPS does not prove
  liveness under fairness;
* what `Reached` and `TableOf` compute of references between variables: `LayoutIsTightest` and what
  rests on it hold whatever they return, but that they return what `resolve_env_references` does
  rests on reading them beside the code, and `FlashInstall.cfg` on environments with references and
  cycles.

Every safety property and every action property that a passing run checks is stated by a theorem.

## 6. Not modelled

* The text of scripts, their compilation, logs and console output; the write-only `phase`
  of a session.
* Static files over TFTP, where bare uploads go, and the option handling of tftpy: pure input and
  output.
* An exception after the token was rotated (the session log cannot be written): to the board it is a
  lost answer, which the lossy runs have.  The `FileNotFoundError` of `record` that leaves `close` when
  an upload is no longer expected: `CloseUpload` then changes nothing, as the code does.
* `mkimage.py` and the text and binary formats of `ubootenv.py` and `partitions.py`: data with no
  state.  What an environment says is one block of `FlashInstall`; how `openipc_patch_env`
  rewrites it is left out, and with it what an update started from it would ask for.
* The loop of the NOR probe: the model takes any size it may find.
* In `FlashInstall`: checksums that collide, the manifest command, and the bootstrap.  U-Boot is
  taken to go on after a command that fails, as its hush shell does in a sourced script; the one
  write of `saveenv` at the first boot is not interrupted.  `sf erase` and `sf write` are taken to
  succeed: a flash that fails would leave a partition that `UpdatedUnlessLost` says is updated.
  The backup of another board under a name this one uses is left out.
* In `Daemon`: an explicit `--pid`, which skips the search; two runs of the check tool at once.
* `help`, `ls`, `probe` and other commands that change nothing; argument parsing.
* An installation that ends after the firmware but before the environment leaves an erased
  environment that the next one ignores.  The tests ask for environment-only changes
  to be ignored, and nothing promises more.

## 7. Plan

In this order:

1. An abstract specification of a partition (old image, erased, new image) that an installation
   without lost fetches implements, from the places of `ScriptInv`.
2. Which parts of `InstallInvariant` survive a second board that shares the install directory,
   modelled as a board of its own instead of `OtherStages`.
3. A board that retries its session: what recovers and what does not when a reply is lost
   after the handler was advanced.
4. The variables of `openipc_patch_env`, and an update that is started from them.
