---- MODULE DownloadJobs ----
(***************************************************************************)
(* DownloadJobStore (download_jobs.py) and the loop of uboot_download_url  *)
(* (ubootops.py) that waits for it.  The server thread takes the store's   *)
(* lock to acquire, look up and release an artifact; one thread for each   *)
(* artifact downloads to a temporary file, renames it into place and then  *)
(* marks the entry.  A SIGHUP reload builds a new, empty store over the    *)
(* same directory and leaves the threads of the old one running; a crash   *)
(* stops them and leaves the files.                                        *)
(***************************************************************************)
EXTENDS Naturals, FiniteSets

CONSTANTS
    Keys,         \* artifact keys: the URLs
    Paths,        \* destination files
    Source,       \* [Paths -> the URL whose payload callers put there]
    Callers,      \* sessions that await uboot_download_url
    Chunks,       \* blocks in a file
    MaxReloads,   \* bound: reloads and restarts of the server
    MaxReleases,  \* bound: times the files behind the URLs are replaced
    Reloads,      \* SIGHUP reloads happen
    ShortReads,   \* a connection may close before Content-Length bytes
    NoFile, NoPath

ASSUME DownloadAssumption ==
    /\ Chunks \in Nat \ {0}
    /\ MaxReloads \in Nat
    /\ MaxReleases \in Nat
    /\ Reloads \in BOOLEAN
    /\ ShortReads \in BOOLEAN
    /\ Source \in [Paths -> Keys]
    /\ NoPath \notin Paths

\* A job is an entry of one store, and the thread that downloads it.
Jobs == (0 .. MaxReloads) \X Keys

ASSUME NoFileAssumption == NoFile \notin Jobs

Blocks == 1 .. Chunks

Versions == 0 .. MaxReleases

KeyOf(j) == j[2]

VARIABLES
    runtime,    \* the store in use
    dest,       \* [Jobs -> _ArtifactEntry.final_path]
    state,      \* [Jobs -> _ArtifactEntry.state, "absent" before acquire]
    bytesDone,  \* [Jobs -> _ArtifactEntry.bytes_done]
    attached,   \* [Jobs -> _ArtifactEntry.attached_sessions]
    pc,         \* [Jobs -> where the thread of _run_download is]
    fd,         \* [Jobs -> the file the thread has opened]
    version,    \* [Jobs -> the version of the file the thread is given]
    written,    \* [Jobs -> blocks the thread has read and written]
    temp,       \* [Keys -> the file at temp_path]
    final,      \* [Paths -> the file there]
    blocks,     \* [Jobs -> the blocks in the file the job created, each of a version]
    caller,     \* [Callers -> the progress of its uboot_download_url]
    upstream,   \* the version behind the URLs
    storeSince, \* history: upstream when the store in use was made
    spoiled,    \* history: keys that two threads wrote at once, or that ended early
    lingering,  \* history: keys of which threads held a response when a reload replaced their store
    orphans     \* history: temporary files that a crash left behind

entryVars == <<runtime, dest, state, bytesDone, attached>>
threadVars == <<pc, fd, version, written>>
fileVars == <<temp, final, blocks>>
history == <<storeSince, spoiled, lingering, orphans>>
vars == <<entryVars, threadVars, fileVars, caller, upstream, history>>

States == {"absent", "pending", "done", "failed"}

Places ==
    {"none", "requesting", "opening", "reading", "renaming", "marking", "failing", "unlinking",
     "ended"}

(***************************************************************************)
(* A caller is "idle", holds a snapshot ("polling"), has the payload, has  *)
(* reported the failure, was refused, or was lost with the session store.  *)
(* path is the destination it gave, seen the state in its last snapshot,   *)
(* got the blocks it read.                                                 *)
(***************************************************************************)
Caller ==
    [at: {"idle", "polling", "returned", "failed", "raised", "refused", "lost"},
     path: Paths \cup {NoPath},
     seen: States,
     got: SUBSET (Blocks \X Versions)]

TypeOK ==
    /\ runtime \in 0 .. MaxReloads
    /\ dest \in [Jobs -> Paths \cup {NoPath}]
    /\ state \in [Jobs -> States]
    /\ bytesDone \in [Jobs -> 0 .. Chunks]
    /\ attached \in [Jobs -> SUBSET Callers]
    /\ pc \in [Jobs -> Places]
    /\ fd \in [Jobs -> Jobs \cup {NoFile}]
    /\ version \in [Jobs -> Versions]
    /\ written \in [Jobs -> 0 .. Chunks]
    /\ temp \in [Keys -> Jobs \cup {NoFile}]
    /\ final \in [Paths -> Jobs \cup {NoFile}]
    /\ blocks \in [Jobs -> SUBSET (Blocks \X Versions)]
    /\ caller \in [Callers -> Caller]
    /\ upstream \in Versions
    /\ storeSince \in Versions
    /\ spoiled \in SUBSET Keys
    /\ lingering \in SUBSET Keys
    /\ orphans \in SUBSET Jobs

NoCall == [at |-> "idle", path |-> NoPath, seen |-> "absent", got |-> {}]

\* A caller whose coroutine is gone keeps nothing.
Ended(at) == [NoCall EXCEPT !.at = at]

Init ==
    /\ runtime = 0
    /\ dest = [j \in Jobs |-> NoPath]
    /\ state = [j \in Jobs |-> "absent"]
    /\ bytesDone = [j \in Jobs |-> 0]
    /\ attached = [j \in Jobs |-> {}]
    /\ pc = [j \in Jobs |-> "none"]
    /\ fd = [j \in Jobs |-> NoFile]
    /\ version = [j \in Jobs |-> 0]
    /\ written = [j \in Jobs |-> 0]
    /\ temp = [k \in Keys |-> NoFile]
    /\ final = [f \in Paths |-> NoFile]
    /\ blocks = [j \in Jobs |-> {}]
    /\ caller = [c \in Callers |-> NoCall]
    /\ upstream = 0
    /\ storeSince = 0
    /\ spoiled = {}
    /\ lingering = {}
    /\ orphans = {}

\* Somebody replaces the files behind the URLs.
Publish ==
    /\ upstream < MaxReleases
    /\ upstream' = upstream + 1
    /\ UNCHANGED <<entryVars, threadVars, fileVars, caller, history>>
----
(***************************************************************************)
(* The server thread.                                                      *)
(***************************************************************************)
Job(k) == <<runtime, k>>

\* Mutant: an entry that is not pending is downloaded again.
StartUnlessPending(j) ==
    IF state[j] # "pending"
    THEN /\ state' = [state EXCEPT ![j] = "pending"]
         /\ pc' = [pc EXCEPT ![j] = "requesting"]
         /\ written' = [written EXCEPT ![j] = 0]
    ELSE UNCHANGED <<state, pc, written>>

\* acquire: the first caller of a key makes the entry and starts its thread.
StartIfAbsent(j) ==
    IF state[j] = "absent"
    THEN /\ state' = [state EXCEPT ![j] = "pending"]
         /\ pc' = [pc EXCEPT ![j] = "requesting"]
         /\ UNCHANGED written
    ELSE UNCHANGED <<state, pc, written>>

\* Mutant: a request joins whatever entry has its key.
JoinsAny(j, f) == TRUE

\* _validate_entry: an entry is shared only by requests that agree with the first.
Joins(j, f) == state[j] = "absent" \/ dest[j] = f

\* uboot_download_url up to its first snapshot.
Call(c, f) ==
    LET j == Job(Source[f])
    IN  /\ caller[c].at = "idle"
        /\ Joins(j, f)
        /\ StartIfAbsent(j)
        /\ dest' = [dest EXCEPT ![j] = IF state[j] = "absent" THEN f ELSE @]
        /\ attached' = [attached EXCEPT ![j] = @ \cup {c}]
        /\ caller' = [caller EXCEPT ![c] =
               [@ EXCEPT !.at = "polling", !.path = f, !.seen = state'[j]]]
        /\ UNCHANGED <<runtime, bytesDone, fd, version, fileVars, upstream, history>>

\* acquire raises: the key is mapped to another destination (or page URL, or headers).
CallRaises(c, f) ==
    /\ caller[c].at = "idle"
    /\ ~Joins(Job(Source[f]), f)
    /\ caller' = [caller EXCEPT ![c] = Ended("refused")]
    /\ UNCHANGED <<entryVars, threadVars, fileVars, upstream, history>>

\* With cache=True a file that is already in place is returned without a download.
UseCached(c, f) ==
    /\ caller[c].at = "idle"
    /\ final[f] # NoFile
    /\ caller' = [caller EXCEPT ![c] =
           [@ EXCEPT !.at = "returned", !.path = f, !.got = blocks[final[f]]]]
    /\ UNCHANGED <<entryVars, threadVars, fileVars, upstream, history>>

JobOf(c) == Job(Source[caller[c].path])

\* Mutant: the loop goes on with its first snapshot.
PollOnce(c) ==
    /\ caller[c].at = "polling"
    /\ caller[c].seen = "pending"
    /\ UNCHANGED vars

\* The board came back from the progress line of a pending snapshot: take another.
Poll(c) ==
    /\ caller[c].at = "polling"
    /\ caller[c].seen = "pending"
    /\ caller' = [caller EXCEPT ![c].seen = state[JobOf(c)]]
    /\ UNCHANGED <<entryVars, threadVars, fileVars, upstream, history>>

\* The snapshot said done: read the file.
ReadPayload(c) ==
    LET f == caller[c].path
    IN  /\ caller[c].at = "polling"
        /\ caller[c].seen = "done"
        /\ caller' = [caller EXCEPT ![c] =
               IF final[f] = NoFile
               THEN Ended("raised")
               ELSE [@ EXCEPT !.at = "returned", !.seen = "absent", !.got = blocks[final[f]]]]
        /\ UNCHANGED <<entryVars, threadVars, fileVars, upstream, history>>

\* The snapshot said failed: the final script discards the session.
ReportFailure(c) ==
    /\ caller[c].at = "polling"
    /\ caller[c].seen = "failed"
    /\ caller' = [caller EXCEPT ![c] = Ended("failed")]
    /\ attached' = [attached EXCEPT ![JobOf(c)] = @ \ {c}]
    /\ UNCHANGED <<runtime, dest, state, bytesDone, threadVars, fileVars, upstream, history>>

\* The board goes away or starts over: its session is discarded in the middle.
Discard(c) ==
    /\ caller[c].at = "polling"
    /\ caller' = [caller EXCEPT ![c] = Ended("lost")]
    /\ attached' = [attached EXCEPT ![JobOf(c)] = @ \ {c}]
    /\ UNCHANGED <<runtime, dest, state, bytesDone, threadVars, fileVars, upstream, history>>
----
(***************************************************************************)
(* The thread of job j: _run_download around _default_downloader.          *)
(***************************************************************************)

\* Threads of the same key that may still use its temporary file.
Beside(j) ==
    {i \in Jobs \ {j} : KeyOf(i) = KeyOf(j)
                           /\ pc[i] \in {"reading", "renaming", "failing", "unlinking"}}

\* Mutant: the download goes straight to its destination.
OpenFinal(j) ==
    /\ pc[j] = "opening"
    /\ pc' = [pc EXCEPT ![j] = "reading"]
    /\ fd' = [fd EXCEPT ![j] = j]
    /\ blocks' = [blocks EXCEPT ![j] = {}]
    /\ temp' = [temp EXCEPT ![KeyOf(j)] = j]
    /\ final' = [final EXCEPT ![dest[j]] = j]
    /\ UNCHANGED <<entryVars, version, written, caller, upstream, history>>

\* The server behind the URL answers: the response is of the version published now, and
\* progress is told 0 bytes.  The thread may be held up before it opens the file.
Respond(j) ==
    /\ pc[j] = "requesting"
    /\ pc' = [pc EXCEPT ![j] = "opening"]
    /\ version' = [version EXCEPT ![j] = upstream]
    /\ UNCHANGED <<entryVars, fd, written, fileVars, caller, upstream, history>>

\* temp_path.open("wb"): a new file, or the one another thread left or is writing,
\* emptied.
OpenTemp(j) ==
    LET k == KeyOf(j)
        file == IF temp[k] = NoFile THEN j ELSE temp[k]
    IN  /\ pc[j] = "opening"
        /\ pc' = [pc EXCEPT ![j] = "reading"]
        /\ fd' = [fd EXCEPT ![j] = file]
        /\ blocks' = [blocks EXCEPT ![file] = {}]
        /\ temp' = [temp EXCEPT ![k] = file]
        /\ spoiled' = IF Beside(j) = {} THEN spoiled ELSE spoiled \cup {k}
        /\ UNCHANGED <<entryVars, version, written, final, caller, upstream, storeSince, lingering,
                       orphans>>

\* Mutant: progress runs a block ahead of the file.
ProgressAhead(j) == written[j] + 2

\* What the progress callback is given.
Progress(j) == written[j] + 1

\* One response.read, written at the offset reached so far; then progress.
WriteBlock(j) ==
    /\ pc[j] = "reading"
    /\ written[j] < Chunks
    /\ written' = [written EXCEPT ![j] = @ + 1]
    /\ blocks' = [blocks EXCEPT ![fd[j]] =
           {b \in @ : b[1] # written[j] + 1} \cup {<<written[j] + 1, version[j]>>}]
    /\ bytesDone' = [bytesDone EXCEPT ![j] = Progress(j)]
    /\ UNCHANGED <<runtime, dest, state, attached, pc, fd, version, temp, final, caller,
                   upstream, history>>

\* response.read returns nothing: all bytes were read, or the connection closed.
BodyEnds(j) == written[j] = Chunks \/ ShortReads

\* Mutant: the entry is marked before the file is renamed.
EndBodyAndMark(j) ==
    /\ pc[j] = "reading"
    /\ BodyEnds(j)
    /\ pc' = [pc EXCEPT ![j] = "renaming"]
    /\ state' = [state EXCEPT ![j] = "done"]
    /\ UNCHANGED <<runtime, dest, bytesDone, attached, fd, version, written, fileVars, caller,
                   upstream, history>>

EndBody(j) ==
    /\ pc[j] = "reading"
    /\ BodyEnds(j)
    /\ pc' = [pc EXCEPT ![j] = "renaming"]
    /\ spoiled' = IF written[j] = Chunks THEN spoiled ELSE spoiled \cup {KeyOf(j)}
    /\ UNCHANGED <<entryVars, fd, version, written, fileVars, caller, upstream, storeSince,
                   lingering, orphans>>

\* temp_path.replace(final_path), or FileNotFoundError when the file is gone.
Rename(j) ==
    LET k == KeyOf(j)
    IN  /\ pc[j] = "renaming"
        /\ IF temp[k] = NoFile
           THEN /\ pc' = [pc EXCEPT ![j] = "failing"]
                /\ UNCHANGED <<temp, final>>
           ELSE /\ pc' = [pc EXCEPT ![j] = "marking"]
                /\ final' = [final EXCEPT ![dest[j]] = temp[k]]
                /\ temp' = [temp EXCEPT ![k] = NoFile]
        /\ UNCHANGED <<entryVars, fd, version, written, blocks, caller, upstream, history>>

MarkDone(j) ==
    /\ pc[j] = "marking"
    /\ pc' = [pc EXCEPT ![j] = "ended"]
    /\ state' = [state EXCEPT ![j] = "done"]
    /\ UNCHANGED <<runtime, dest, bytesDone, attached, fd, version, written, fileVars, caller,
                   upstream, history>>

\* The request, a read or a write raises.
DownloadRaises(j) ==
    /\ pc[j] \in {"requesting", "opening", "reading"}
    /\ pc' = [pc EXCEPT ![j] = "failing"]
    /\ UNCHANGED <<entryVars, fd, version, written, fileVars, caller, upstream, history>>

\* Mutant: a failed thread leaves its temporary file.
MarkFailedOnly(j) ==
    /\ pc[j] = "failing"
    /\ pc' = [pc EXCEPT ![j] = "ended"]
    /\ state' = [state EXCEPT ![j] = "failed"]
    /\ UNCHANGED <<runtime, dest, bytesDone, attached, fd, version, written, fileVars, caller,
                   upstream, history>>

MarkFailed(j) ==
    /\ pc[j] = "failing"
    /\ pc' = [pc EXCEPT ![j] = "unlinking"]
    /\ state' = [state EXCEPT ![j] = "failed"]
    /\ UNCHANGED <<runtime, dest, bytesDone, attached, fd, version, written, fileVars, caller,
                   upstream, history>>

\* temp_path.unlink, after the entry was marked.
Unlink(j) ==
    /\ pc[j] = "unlinking"
    /\ pc' = [pc EXCEPT ![j] = "ended"]
    /\ temp' = [temp EXCEPT ![KeyOf(j)] = NoFile]
    /\ UNCHANGED <<entryVars, fd, version, written, final, blocks, caller, upstream, history>>

ThreadStep(j) ==
    \/ Respond(j)
    \/ OpenTemp(j)
    \/ WriteBlock(j)
    \/ EndBody(j)
    \/ Rename(j)
    \/ MarkDone(j)
    \/ DownloadRaises(j)
    \/ MarkFailed(j)
    \/ Unlink(j)
----
(***************************************************************************)
(* build_runtime makes a new DownloadJobStore over the same static root.   *)
(* Either way the sessions are gone.                                       *)
(***************************************************************************)
\* Mutant: finished entries are taken over from the old store.
KeepDone ==
    LET old(j) == <<runtime, KeyOf(j)>>
        kept(j) == j[1] = runtime + 1 /\ state[old(j)] = "done"
    IN  /\ runtime < MaxReloads
        /\ runtime' = runtime + 1
        /\ caller' = [c \in Callers |->
               IF caller[c].at = "polling" THEN Ended("lost") ELSE caller[c]]
        /\ state' = [j \in Jobs |-> IF kept(j) THEN "done" ELSE state[j]]
        /\ dest' = [j \in Jobs |-> IF kept(j) THEN dest[old(j)] ELSE dest[j]]
        /\ storeSince' = upstream
        /\ UNCHANGED <<bytesDone, attached, fd, version, written, fileVars, upstream, spoiled>>

NewStore ==
    /\ runtime < MaxReloads
    /\ runtime' = runtime + 1
    /\ caller' = [c \in Callers |->
           IF caller[c].at = "polling" THEN Ended("lost") ELSE caller[c]]
    /\ storeSince' = upstream
    /\ UNCHANGED <<dest, state, bytesDone, attached, fd, version, written, fileVars, upstream,
                   spoiled>>

\* Keys of which a thread holds a response that it has not yet put in place.
Held == {KeyOf(j) : j \in {i \in Jobs : pc[i] \in {"opening", "reading", "renaming"}}}

\* SIGHUP: daemon threads of the old store go on.
Reload ==
    /\ Reloads
    /\ NewStore
    /\ lingering' = Held
    /\ UNCHANGED <<pc, orphans>>

\* The process ends: its threads stop wherever they are.
Crash ==
    /\ NewStore
    /\ pc' = [j \in Jobs |-> IF pc[j] = "none" THEN "none" ELSE "ended"]
    /\ lingering' = {}
    /\ orphans' = orphans \cup {temp[k] : k \in {l \in Keys : temp[l] # NoFile}}

CallerStep(c) ==
    \/ Poll(c)
    \/ ReadPayload(c)
    \/ ReportFailure(c)

Next ==
    \/ \E c \in Callers, f \in Paths : Call(c, f) \/ CallRaises(c, f) \/ UseCached(c, f)
    \/ \E c \in Callers : CallerStep(c) \/ Discard(c)
    \/ \E j \in Jobs : ThreadStep(j)
    \/ Reload
    \/ Crash
    \/ Publish

Spec == Init /\ [][Next]_vars

\* Threads are scheduled, a download ends or raises in the end (urlopen has a timeout),
\* and a board that polls keeps coming back.
FairSpec ==
    /\ Spec
    /\ \A j \in Jobs : WF_vars(ThreadStep(j))
    /\ \A c \in Callers : WF_vars(CallerStep(c))
----
Whole(content) == \E v \in Versions : content = Blocks \X {v}

(***************************************************************************)
(* An entry that says done has its whole file in place, so that every      *)
(* session that sees the state may read it (_run_download marks last);     *)
(* unless the thread of another store wrote the same file, or the body     *)
(* ended early.                                                            *)
(***************************************************************************)
DoneIsInPlace ==
    \A k \in Keys \ spoiled : state[Job(k)] = "done" =>
        LET file == final[dest[Job(k)]] IN file # NoFile /\ Whole(blocks[file])

(***************************************************************************)
(* A payload that uboot_download_url returned is the whole file, whether   *)
(* it was waited for, shared with another session, or found in the cache   *)
(* after a crash in the middle of an earlier download.                     *)
(***************************************************************************)
PayloadIsWhole == \A c \in Callers : caller[c].at = "returned" => Whole(caller[c].got)

(***************************************************************************)
(* It is, where no two threads had the temporary file at once and the body *)
(* did not end early: reloads, crashes, failures and other sessions do no  *)
(* harm of their own.                                                      *)
(***************************************************************************)
CleanPayloadIsWhole ==
    \A c \in Callers :
        caller[c].at = "returned" /\ Source[caller[c].path] \notin spoiled => Whole(caller[c].got)

(***************************************************************************)
(* A reload or a restart is enough to be given what is published now: a    *)
(* payload that did not come from the cache is not older than the store    *)
(* that serves it, although the entry of a key is never dropped while its  *)
(* store lives and threads of older stores may still finish; unless one of *)
(* them already held its response when the reload came: nothing keeps it   *)
(* from putting that into place after the thread of the new store.         *)
(***************************************************************************)
FreshSinceReload ==
    [][\A c \in Callers :
        LET k == Source[caller[c].path]
        IN  caller[c].at = "polling" /\ caller'[c].at = "returned" /\ k \notin spoiled \cup lingering
                => \A b \in caller'[c].got : b[2] >= storeSince]_vars

(***************************************************************************)
(* A session that polls never finds the file it was promised missing       *)
(* (the FileNotFoundError of read_file after a done snapshot).             *)
(***************************************************************************)
NoReadRaises == \A c \in Callers : caller[c].at # "raised"

(***************************************************************************)
(* A temporary file belongs to the thread that created it, and this thread *)
(* is still at work: a failed download leaves none behind, although after  *)
(* a reload two threads share the path and each may rename or remove what  *)
(* the other writes.  Only a crash leaves one.                             *)
(***************************************************************************)
TempHasThread ==
    \A k \in Keys : temp[k] \notin orphans \cup {NoFile} =>
        pc[temp[k]] \in {"reading", "renaming", "failing", "unlinking"}

(***************************************************************************)
(* An entry only moves from pending to done or failed, and its progress    *)
(* never goes back (a session that polls sees the counts grow).            *)
(***************************************************************************)
EntriesMoveForward ==
    [][\A j \in Jobs :
        /\ state[j] \in {"done", "failed"} => state'[j] = state[j]
        /\ bytesDone'[j] >= bytesDone[j]]_vars

(***************************************************************************)
(* A session that waits is told in the end: it reads the payload, reports  *)
(* the failure, or is discarded.                                           *)
(***************************************************************************)
WaitingEnds == \A c \in Callers : []<>(caller[c].at # "polling")
====
