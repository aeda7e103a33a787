---- MODULE DownloadJobs_proofs ----
(***************************************************************************)
(* Proofs about DownloadJobs, for any number of URLs, destinations,        *)
(* sessions, blocks, releases, reloads and crashes.                        *)
(***************************************************************************)
EXTENDS DownloadJobs, TLAPS

\* A job is the number of a store and a key.
LEMMA JobFacts ==
    /\ \A j \in Jobs : /\ j[1] \in 0 .. MaxReloads /\ KeyOf(j) \in Keys
                       /\ j = <<j[1], KeyOf(j)>>
    /\ \A n \in 0 .. MaxReloads, k \in Keys :
           /\ <<n, k>> \in Jobs
           /\ KeyOf(<<n, k>>) = k
           /\ <<n, k>>[1] = n
  BY DEF Jobs, KeyOf

\* The entry of a key in the store in use.
LEMMA CurrentJob ==
    ASSUME TypeOK, NEW k \in Keys
    PROVE  Job(k) \in Jobs /\ KeyOf(Job(k)) = k /\ Job(k)[1] = runtime
  BY JobFacts DEF Job, TypeOK

\* The initial state has the types.
LEMMA InitTypes == Init => TypeOK
  <1> SUFFICES ASSUME Init PROVE TypeOK
    OBVIOUS
  <1>1. 0 \in 0 .. MaxReloads /\ 0 \in Versions /\ 0 \in 0 .. Chunks
    BY DownloadAssumption DEF Init, Versions, TypeOK
  <1>2. NoCall \in Caller
    BY <1>1 DEF NoCall, Caller, States
  <1> QED
    BY <1>1, <1>2 DEF Init, TypeOK, States, Places

\* A caller that has ended.
LEMMA EndedTypes ==
    ASSUME TypeOK, NEW at \in {"failed", "raised", "refused", "lost"}
    PROVE  Ended(at) \in Caller /\ Ended(at).at = at
  <1>1. 0 \in Versions
    BY DownloadAssumption DEF Versions
  <1> QED
    BY <1>1 DEF Ended, NoCall, Caller, States

\* acquire.
LEMMA CallTypes ==
    ASSUME TypeOK, NEW c \in Callers, NEW f \in Paths, Call(c, f)
    PROVE  TypeOK'
  <1> DEFINE j == Job(Source[f])
  <1>1. j \in Jobs
    BY CurrentJob, DownloadAssumption
  <1> HIDE DEF j
  <1>2. state' \in [Jobs -> States] /\ pc' \in [Jobs -> Places] /\ written' = written
    BY <1>1 DEF Call, StartIfAbsent, j, TypeOK, States, Places
  <1>3. dest' \in [Jobs -> Paths \cup {NoPath}] /\ attached' \in [Jobs -> SUBSET Callers]
    BY <1>1 DEF Call, j, TypeOK
  <1>4. caller' \in [Callers -> Caller]
    <2>1. state'[j] \in States
      BY <1>1, <1>2
    <2>2. caller[c] \in Caller
      BY DEF TypeOK
    <2> DEFINE s == state'[j]
    <2>3. s \in States
      BY <2>1
    <2> HIDE DEF s
    <2>4. [caller[c] EXCEPT !.at = "polling", !.path = f, !.seen = s] \in Caller
      BY <2>2, <2>3 DEF Caller
    <2> QED
      BY <2>4 DEF Call, j, s, TypeOK
  <1> QED
    BY <1>2, <1>3, <1>4 DEF Call, TypeOK, fileVars, history

\* A session that polls has named its destination.
PathsKnown == \A c \in Callers : caller[c].at = "polling" => caller[c].path \in Paths

\* The other steps of a session.
LEMMA CallerTypes ==
    ASSUME TypeOK, PathsKnown, NEW c \in Callers,
           CallerStep(c) \/ Discard(c) \/ \E f \in Paths : CallRaises(c, f) \/ UseCached(c, f)
    PROVE  TypeOK'
  <1>1. ASSUME NEW r \in Caller, caller' = [caller EXCEPT ![c] = r],
               UNCHANGED <<runtime, dest, state, bytesDone, threadVars, fileVars, upstream, history>>,
               attached' \in [Jobs -> SUBSET Callers]
        PROVE  TypeOK'
    <2>1. caller' \in [Callers -> Caller]
      BY <1>1 DEF TypeOK
    <2> QED
      BY <1>1, <2>1 DEF TypeOK, threadVars, fileVars, history
  <1>2. attached \in [Jobs -> SUBSET Callers] /\ caller[c] \in Caller
    BY DEF TypeOK
  <1>3. \A file \in Jobs : blocks[file] \in SUBSET (Blocks \X Versions)
    BY DEF TypeOK
  <1>4. \A f \in Paths : final[f] # NoFile => final[f] \in Jobs
    BY DEF TypeOK
  <1>5. ASSUME NEW f \in Paths, CallRaises(c, f) PROVE TypeOK'
    BY <1>1, <1>2, <1>5, EndedTypes DEF CallRaises, entryVars
  <1>6. ASSUME NEW f \in Paths, UseCached(c, f) PROVE TypeOK'
    <2>1. [caller[c] EXCEPT !.at = "returned", !.path = f, !.got = blocks[final[f]]] \in Caller
      BY <1>2, <1>3, <1>4, <1>6 DEF UseCached, Caller
    <2> QED
      BY <1>1, <1>2, <1>6, <2>1 DEF UseCached, entryVars
  <1>7. CASE Poll(c)
    <2>1. JobOf(c) \in Jobs
      BY <1>7, CurrentJob, DownloadAssumption DEF JobOf, Poll, PathsKnown
    <2>2. [caller[c] EXCEPT !.seen = state[JobOf(c)]] \in Caller
      BY <1>2, <2>1 DEF Caller, TypeOK
    <2> QED
      BY <1>1, <1>2, <1>7, <2>2 DEF Poll, entryVars
  <1>8. CASE ReadPayload(c)
    <2> DEFINE f == caller[c].path
               r == [caller[c] EXCEPT !.at = "returned", !.seen = "absent",
                                      !.got = blocks[final[f]]]
    <2>1. f \in Paths
      BY <1>8 DEF ReadPayload, PathsKnown
    <2>2. final[f] # NoFile => r \in Caller
      BY <1>2, <1>3, <1>4, <2>1 DEF Caller, States, TypeOK
    <2> QED
      BY <1>1, <1>2, <1>8, <2>2, EndedTypes DEF ReadPayload, entryVars
  <1>9. CASE ReportFailure(c) \/ Discard(c)
    <2>1. PICK at \in {"failed", "lost"} : caller' = [caller EXCEPT ![c] = Ended(at)]
      BY <1>9 DEF ReportFailure, Discard
    <2>2. attached' \in [Jobs -> SUBSET Callers]
      BY <1>9 DEF ReportFailure, Discard, TypeOK
    <2> QED
      BY <1>1, <1>9, <2>1, <2>2, EndedTypes DEF ReportFailure, Discard
  <1> QED
    BY <1>5, <1>6, <1>7, <1>8, <1>9 DEF CallerStep

\* The steps of a download thread.
LEMMA ThreadTypes ==
    ASSUME TypeOK, NEW j \in Jobs, ThreadStep(j)
    PROVE  TypeOK'
  <1>1. KeyOf(j) \in Keys
    BY JobFacts
  <1>9. CASE Respond(j)
    BY <1>9 DEF Respond, TypeOK, entryVars, fileVars, history, Places
  <1>2. CASE OpenTemp(j)
    <2> DEFINE file == IF temp[KeyOf(j)] = NoFile THEN j ELSE temp[KeyOf(j)]
    <2>1. file \in Jobs
      BY <1>1 DEF TypeOK
    <2>2. /\ pc' = [pc EXCEPT ![j] = "reading"]
          /\ fd' = [fd EXCEPT ![j] = file]
          /\ blocks' = [blocks EXCEPT ![file] = {}]
          /\ temp' = [temp EXCEPT ![KeyOf(j)] = file]
          /\ spoiled' \in {spoiled, spoiled \cup {KeyOf(j)}}
          /\ UNCHANGED <<entryVars, version, written, final, caller, upstream, storeSince, lingering,
                         orphans>>
      BY <1>2 DEF OpenTemp
    <2> HIDE DEF file
    <2> QED
      BY <1>1, <2>1, <2>2 DEF TypeOK, entryVars, Places
  <1>3. CASE WriteBlock(j)
    <2> DEFINE n == written[j] + 1
               old == {b \in blocks[fd[j]] : b[1] # n}
    <2>1. n \in 1 .. Chunks /\ n \in 0 .. Chunks /\ <<n, version[j]>> \in Blocks \X Versions
      BY <1>3, DownloadAssumption DEF WriteBlock, TypeOK, Blocks
    <2>2. fd[j] \in Jobs => old \subseteq Blocks \X Versions
      BY DEF TypeOK
    <2>3. /\ written' = [written EXCEPT ![j] = n]
          /\ blocks' = [blocks EXCEPT ![fd[j]] = old \cup {<<n, version[j]>>}]
          /\ bytesDone' = [bytesDone EXCEPT ![j] = n]
          /\ UNCHANGED <<runtime, dest, state, attached, pc, fd, version, temp, final, caller,
                         upstream, history>>
      BY <1>3 DEF WriteBlock, Progress
    <2> HIDE DEF n, old
    <2>4. blocks' \in [Jobs -> SUBSET (Blocks \X Versions)]
      <3>1. blocks \in [Jobs -> SUBSET (Blocks \X Versions)] /\ version[j] \in Versions
        BY DEF TypeOK
      <3>2. <<n, version[j]>> \in Blocks \X Versions
        BY <2>1, <3>1
      <3>3. fd[j] \in Jobs => old \cup {<<n, version[j]>>} \in SUBSET (Blocks \X Versions)
        BY <2>2, <3>2
      <3> QED
        BY <2>3, <3>1, <3>3
    <2>5. written' \in [Jobs -> 0 .. Chunks]
      BY <2>1, <2>3 DEF TypeOK
    <2> QED
      BY <2>3, <2>4, <2>5 DEF TypeOK, history
  <1>4. CASE EndBody(j)
    BY <1>1, <1>4 DEF EndBody, TypeOK, entryVars, fileVars, Places
  <1>5. CASE Rename(j)
    <2>1. temp' \in [Keys -> Jobs \cup {NoFile}] /\ final' \in [Paths -> Jobs \cup {NoFile}]
      BY <1>1, <1>5 DEF Rename, TypeOK
    <2>2. pc' \in [Jobs -> Places]
      BY <1>5 DEF Rename, TypeOK, Places
    <2> QED
      BY <1>5, <2>1, <2>2 DEF Rename, TypeOK, entryVars, history
  <1>6. CASE MarkDone(j) \/ MarkFailed(j)
    BY <1>6 DEF MarkDone, MarkFailed, TypeOK, fileVars, history, Places, States
  <1>7. CASE DownloadRaises(j)
    BY <1>7 DEF DownloadRaises, TypeOK, entryVars, fileVars, history, Places
  <1>8. CASE Unlink(j)
    BY <1>1, <1>8 DEF Unlink, TypeOK, entryVars, history, Places
  <1> QED
    BY <1>2, <1>3, <1>4, <1>5, <1>6, <1>7, <1>8, <1>9 DEF ThreadStep

\* A reload or a crash.
LEMMA NewStoreTypes ==
    ASSUME TypeOK, Reload \/ Crash
    PROVE  TypeOK'
  <1>1. NewStore /\ pc' \in [Jobs -> Places]
    BY DEF Reload, Crash, TypeOK, Places
  <1>2. runtime' \in 0 .. MaxReloads
    BY <1>1, DownloadAssumption DEF NewStore, TypeOK
  <1>3. caller' \in [Callers -> Caller]
    BY <1>1, EndedTypes DEF NewStore, TypeOK
  <1>4. lingering' \in SUBSET Keys /\ orphans' \in SUBSET Jobs
    BY JobFacts DEF Reload, Crash, Held, TypeOK
  <1> QED
    BY <1>1, <1>2, <1>3, <1>4 DEF NewStore, TypeOK, fileVars

\* The destination of a session that polls stays known.
LEMMA PathsStay ==
    ASSUME TypeOK, PathsKnown, [Next]_vars
    PROVE  PathsKnown'
  <1>1. ASSUME NEW c \in Callers, NEW r, caller' = [caller EXCEPT ![c] = r],
               r.at = "polling" => r.path \in Paths
        PROVE  PathsKnown'
    BY <1>1 DEF PathsKnown, TypeOK
  <1>2. CASE caller' = caller
    BY <1>2 DEF PathsKnown
  <1>3. \A c \in Callers : caller[c] \in Caller
    BY DEF TypeOK
  <1>4. ASSUME NEW c \in Callers, NEW f \in Paths, Call(c, f) PROVE PathsKnown'
    <2> DEFINE r == [caller[c] EXCEPT !.at = "polling", !.path = f,
                                      !.seen = state'[Job(Source[f])]]
    <2>1. r.path = f
      BY <1>3 DEF Caller
    <2> QED
      BY <1>1, <1>4, <2>1 DEF Call
  <1>5. ASSUME NEW c \in Callers, NEW f \in Paths, CallRaises(c, f) \/ UseCached(c, f)
        PROVE  PathsKnown'
    <2> DEFINE r == [caller[c] EXCEPT !.at = "returned", !.path = f, !.got = blocks[final[f]]]
    <2>1. r.at # "polling"
      BY <1>3 DEF Caller
    <2> QED
      BY <1>1, <1>5, <2>1, EndedTypes DEF CallRaises, UseCached
  <1>6. ASSUME NEW c \in Callers, Poll(c) PROVE PathsKnown'
    <2>1. [caller[c] EXCEPT !.seen = state[JobOf(c)]].path = caller[c].path
      BY <1>3 DEF Caller
    <2>2. caller[c].path \in Paths
      BY <1>6 DEF Poll, PathsKnown
    <2> QED
      BY <1>1, <1>6, <2>1, <2>2 DEF Poll
  <1>7. ASSUME NEW c \in Callers, ReadPayload(c) PROVE PathsKnown'
    <2> DEFINE r == [caller[c] EXCEPT !.at = "returned", !.seen = "absent",
                                      !.got = blocks[final[caller[c].path]]]
    <2>1. r.at # "polling"
      BY <1>3 DEF Caller
    <2> QED
      BY <1>1, <1>7, <2>1, EndedTypes DEF ReadPayload
  <1>8. ASSUME NEW c \in Callers, ReportFailure(c) \/ Discard(c) PROVE PathsKnown'
    BY <1>1, <1>8, EndedTypes DEF ReportFailure, Discard
  <1>9. CASE Reload \/ Crash
    BY <1>9, EndedTypes DEF Reload, Crash, NewStore, PathsKnown
  <1>10. CASE Publish \/ UNCHANGED vars \/ \E j \in Jobs : ThreadStep(j)
    BY <1>2, <1>10 DEF Publish, vars, ThreadStep, Respond, OpenTemp, WriteBlock, EndBody, Rename, MarkDone,
                       DownloadRaises, MarkFailed, Unlink
  <1> QED
    BY <1>4, <1>5, <1>6, <1>7, <1>8, <1>9, <1>10 DEF Next, CallerStep

(***************************************************************************)
(* Every variable keeps its type (download_jobs.py), and a session that    *)
(* polls has a destination.                                                *)
(***************************************************************************)
THEOREM Types == Spec => [](TypeOK /\ PathsKnown)
  <1>1. Init => TypeOK /\ PathsKnown
    BY InitTypes DEF Init, NoCall, PathsKnown
  <1>2. TypeOK /\ PathsKnown /\ [Next]_vars => (TypeOK /\ PathsKnown)'
    <2> SUFFICES ASSUME TypeOK, PathsKnown, [Next]_vars PROVE TypeOK'
      BY PathsStay
    <2>1. CASE Publish
      BY <2>1, DownloadAssumption
         DEF Publish, TypeOK, Versions, entryVars, threadVars, fileVars, history
    <2>2. CASE UNCHANGED vars
      BY <2>2 DEF vars, TypeOK, entryVars, threadVars, fileVars, history
    <2> QED
      BY <2>1, <2>2, CallTypes, CallerTypes, ThreadTypes, NewStoreTypes DEF Next
  <1> QED
    BY <1>1, <1>2, PTL DEF Spec
----
(***************************************************************************)
(* Entries: what the state of an entry says about its thread.              *)
(***************************************************************************)
Before == {"none", "requesting", "opening"}

EntrySound(j) ==
    /\ j[1] > runtime => pc[j] = "none"
    /\ (pc[j] = "none") <=> (state[j] = "absent")
    /\ pc[j] \in {"requesting", "opening", "reading", "renaming", "marking", "failing"} =>
           state[j] = "pending"
    /\ state[j] # "absent" => dest[j] \in Paths /\ Source[dest[j]] = KeyOf(j)
    /\ bytesDone[j] = written[j]
    /\ pc[j] \in Before => written[j] = 0

EntriesSound == \A j \in Jobs : EntrySound(j)

\* What a step may do to an entry, and to the file its thread has created.
EntryMoves(j) ==
    /\ state[j] # "absent" => state'[j] # "absent" /\ dest'[j] = dest[j]
    /\ state[j] \in {"done", "failed"} => state'[j] = state[j]
    /\ bytesDone'[j] >= bytesDone[j]
    /\ pc[j] \notin Before => pc'[j] \notin Before

\* Every step keeps entries and threads in agreement, and no entry goes back.
LEMMA EntryStep ==
    ASSUME TypeOK, EntriesSound, [Next]_vars
    PROVE  EntriesSound' /\ \A j \in Jobs : EntryMoves(j)
  <1>1. \A j \in Jobs : j[1] \in Nat /\ bytesDone[j] \in Nat /\ written[j] \in Nat
    BY JobFacts DEF TypeOK
  <1>2. ASSUME NEW j \in Jobs, pc'[j] = pc[j], state'[j] = state[j], dest'[j] = dest[j],
               bytesDone'[j] = bytesDone[j], written'[j] = written[j], runtime' = runtime
        PROVE  EntrySound(j)' /\ EntryMoves(j)
    BY <1>1, <1>2 DEF EntriesSound, EntrySound, EntryMoves
  <1>3. CASE UNCHANGED <<runtime, pc, state, dest, bytesDone, written>>
    BY <1>2, <1>3 DEF EntriesSound
  <1>4. ASSUME NEW c \in Callers, NEW f \in Paths, Call(c, f)
        PROVE  EntriesSound' /\ \A j \in Jobs : EntryMoves(j)
    <2>0. PICK j \in Jobs : j = Job(Source[f])
      BY CurrentJob, DownloadAssumption
    <2>1. KeyOf(j) = Source[f] /\ j[1] = runtime
      BY <2>0, CurrentJob, DownloadAssumption
    <2>2. /\ StartIfAbsent(j)
          /\ dest' = [dest EXCEPT ![j] = IF state[j] = "absent" THEN f ELSE @]
          /\ UNCHANGED <<runtime, bytesDone>>
      BY <1>4, <2>0 DEF Call
    <2>3. runtime \in Nat /\ ~(runtime > runtime)
      BY DEF TypeOK
    <2>4. ASSUME NEW i \in Jobs, i # j PROVE EntrySound(i)' /\ EntryMoves(i)
      BY <1>2, <2>1, <2>2, <2>4 DEF StartIfAbsent, TypeOK
    <2>5. CASE state[j] = "absent"
      <3>1. /\ state'[j] = "pending" /\ pc'[j] = "requesting" /\ dest'[j] = f
            /\ written' = written
        BY <2>1, <2>2, <2>5 DEF StartIfAbsent, TypeOK
      <3>2. EntrySound(j)
        BY <2>1 DEF EntriesSound
      <3>3. EntrySound(j)' /\ EntryMoves(j)
        BY <1>1, <2>1, <2>2, <2>3, <2>5, <3>1, <3>2 DEF EntrySound, EntryMoves, Before
      <3> QED
        BY <2>4, <3>3 DEF EntriesSound
    <2>6. CASE state[j] # "absent"
      <3>1. EntrySound(j)' /\ EntryMoves(j)
        BY <1>2, <2>1, <2>2, <2>6 DEF StartIfAbsent, TypeOK
      <3> QED
        BY <2>4, <3>1 DEF EntriesSound
    <2> QED
      BY <2>5, <2>6
  <1>5. ASSUME NEW j \in Jobs, ThreadStep(j)
        PROVE  EntriesSound' /\ \A i \in Jobs : EntryMoves(i)
    <2>1. runtime' = runtime /\ dest' = dest
      BY <1>5 DEF ThreadStep, Respond, OpenTemp, WriteBlock, EndBody, Rename, MarkDone, DownloadRaises,
                  MarkFailed, Unlink, entryVars
    <2>2. ASSUME NEW i \in Jobs, i # j PROVE EntrySound(i)' /\ EntryMoves(i)
      <3>1. /\ pc'[i] = pc[i] /\ state'[i] = state[i]
            /\ bytesDone'[i] = bytesDone[i] /\ written'[i] = written[i]
        BY <1>5, <2>2 DEF ThreadStep, Respond, OpenTemp, WriteBlock, EndBody, Rename, MarkDone,
                          DownloadRaises, MarkFailed, Unlink, entryVars, TypeOK
      <3> QED
        BY <1>2, <2>1, <3>1
    <2>3. EntrySound(j)' /\ EntryMoves(j)
      <3>1. EntrySound(j)
        BY DEF EntriesSound
      <3>2. CASE WriteBlock(j)
        <4>1. /\ pc'[j] = "reading" /\ pc[j] = "reading" /\ state'[j] = state[j]
              /\ bytesDone'[j] = written[j] + 1 /\ written'[j] = written[j] + 1
          BY <3>2 DEF WriteBlock, Progress, TypeOK
        <4> QED
          BY <1>1, <2>1, <3>1, <4>1 DEF EntrySound, EntryMoves, Before
      <3>5. CASE Respond(j)
        <4>1. /\ pc[j] = "requesting" /\ pc'[j] = "opening" /\ state'[j] = state[j]
              /\ bytesDone'[j] = bytesDone[j] /\ written'[j] = written[j]
          BY <3>5 DEF Respond, entryVars, TypeOK
        <4> QED
          BY <1>1, <2>1, <3>1, <4>1 DEF EntrySound, EntryMoves, Before
      <3>3. CASE OpenTemp(j) \/ EndBody(j) \/ Rename(j) \/ DownloadRaises(j) \/ Unlink(j)
        <4>1. /\ pc[j] \notin {"none"} /\ state'[j] = state[j]
              /\ pc[j] = "unlinking" => pc'[j] = "ended"
              /\ pc[j] # "unlinking" => pc[j] \in {"requesting", "opening", "reading", "renaming"}
              /\ pc'[j] \in {"reading", "renaming", "marking", "failing", "ended"}
              /\ bytesDone'[j] = bytesDone[j] /\ written'[j] = written[j]
          BY <3>3 DEF OpenTemp, EndBody, Rename, DownloadRaises, Unlink, entryVars, TypeOK
        <4> QED
          BY <1>1, <2>1, <3>1, <4>1 DEF EntrySound, EntryMoves, Before
      <3>4. CASE MarkDone(j) \/ MarkFailed(j)
        <4>1. /\ pc[j] \in {"marking", "failing"} /\ state'[j] \in {"done", "failed"}
              /\ pc'[j] \in {"ended", "unlinking"}
              /\ bytesDone'[j] = bytesDone[j] /\ written'[j] = written[j]
          BY <3>4 DEF MarkDone, MarkFailed, TypeOK
        <4> QED
          BY <1>1, <2>1, <3>1, <4>1 DEF EntrySound, EntryMoves, Before
      <3> QED
        BY <1>5, <3>2, <3>3, <3>4, <3>5 DEF ThreadStep
    <2> QED
      BY <2>2, <2>3 DEF EntriesSound
  <1>6. CASE Reload \/ Crash
    <2>1. /\ runtime' = runtime + 1 /\ runtime \in Nat
          /\ UNCHANGED <<dest, state, bytesDone, written>>
          /\ \A j \in Jobs : /\ (pc[j] = "none") <=> (pc'[j] = "none")
                             /\ pc'[j] \in {pc[j], "ended"}
      BY <1>6 DEF Reload, Crash, NewStore, TypeOK
    <2>2. ASSUME NEW j \in Jobs PROVE EntrySound(j)' /\ EntryMoves(j)
      BY <1>1, <2>1 DEF EntriesSound, EntrySound, EntryMoves, Before
    <2> QED
      BY <2>2 DEF EntriesSound
  <1>7. ASSUME NEW c \in Callers,
               CallerStep(c) \/ Discard(c) \/ \E f \in Paths : CallRaises(c, f) \/ UseCached(c, f)
        PROVE  UNCHANGED <<runtime, pc, state, dest, bytesDone, written>>
    BY <1>7 DEF CallerStep, Discard, CallRaises, UseCached, Poll, ReadPayload, ReportFailure,
                entryVars, threadVars
  <1>8. CASE Publish \/ UNCHANGED vars
    BY <1>3, <1>8 DEF Publish, vars, entryVars, threadVars
  <1> QED
    BY <1>3, <1>4, <1>5, <1>6, <1>7, <1>8 DEF Next

\* In every reachable state, entries and threads agree.
THEOREM Entries == Spec => []EntriesSound
  <1>1. Init => EntriesSound
    <2> SUFFICES ASSUME Init, NEW j \in Jobs PROVE EntrySound(j)
      BY DEF EntriesSound
    <2> QED
      BY DEF Init, EntrySound
  <1>2. TypeOK /\ EntriesSound /\ [Next]_vars => EntriesSound'
    BY EntryStep
  <1> QED
    BY <1>1, <1>2, Types, PTL DEF Spec

(***************************************************************************)
(* An entry only moves from pending to done or failed and its progress     *)
(* never goes back, whatever older stores and their threads do             *)
(* (_ArtifactEntry, snapshot).                                             *)
(***************************************************************************)
THEOREM EntriesAdvance == Spec => EntriesMoveForward
  <1>1. TypeOK /\ EntriesSound /\ [Next]_vars =>
            [\A j \in Jobs :
                /\ state[j] \in {"done", "failed"} => state'[j] = state[j]
                /\ bytesDone'[j] >= bytesDone[j]]_vars
    BY EntryStep DEF EntryMoves
  <1> QED
    BY <1>1, Types, Entries, PTL DEF Spec, EntriesMoveForward
----
(***************************************************************************)
(* Files.  A file has the key of the job that created it; the temporary    *)
(* file of a key is never one that is in place; and an entry that is done, *)
(* or about to be, has a file at its destination.                          *)
(***************************************************************************)
Work == {j \in Jobs : pc[j] \in {"reading", "renaming"}}

Placed(j) == pc[j] = "marking" \/ state[j] = "done"

\* The files of key k that exist, or have existed.
FilesOf(k) == {file \in Jobs : KeyOf(file) = k /\ pc[file] \notin Before}

FilesSound ==
    /\ \A k \in Keys : temp[k] # NoFile => temp[k] \in FilesOf(k)
    /\ \A f \in Paths : final[f] # NoFile =>
           final[f] \in FilesOf(Source[f]) /\ final[f] # temp[Source[f]]
    /\ \A j \in Work : fd[j] \in FilesOf(KeyOf(j))
    /\ \A j \in Jobs : Placed(j) => final[dest[j]] # NoFile

\* A step that opens, renames and removes no file.
LEMMA FilesKept ==
    ASSUME TypeOK, FilesSound, UNCHANGED <<temp, final>>, \A j \in Jobs : EntryMoves(j),
           \A j \in Jobs : j \in Work' => j \in Work /\ fd'[j] = fd[j],
           \A j \in Jobs : Placed(j)' => Placed(j) /\ dest'[j] = dest[j]
    PROVE  FilesSound'
  <1>1. \A k : FilesOf(k) \subseteq FilesOf(k)'
    BY DEF FilesOf, EntryMoves
  <1>2. \A k \in Keys : temp'[k] # NoFile => temp'[k] \in FilesOf(k)'
    BY <1>1 DEF FilesSound
  <1>3. \A f \in Paths : final'[f] # NoFile =>
            final'[f] \in FilesOf(Source[f])' /\ final'[f] # temp'[Source[f]]
    BY <1>1 DEF FilesSound
  <1>4. \A j \in Work' : fd'[j] \in FilesOf(KeyOf(j))'
    BY <1>1 DEF FilesSound, Work
  <1>5. \A j \in Jobs : Placed(j)' => final'[dest'[j]] # NoFile
    BY DEF FilesSound
  <1> QED
    BY <1>2, <1>3, <1>4, <1>5 DEF FilesSound

\* Opening the temporary file: no file in place is emptied.
LEMMA OpenFiles ==
    ASSUME TypeOK, EntriesSound, FilesSound, \A i \in Jobs : EntryMoves(i),
           NEW j \in Jobs, OpenTemp(j)
    PROVE  /\ FilesSound'
           /\ fd'[j] \in FilesOf(KeyOf(j))' /\ temp'[KeyOf(j)] = fd'[j]
           /\ blocks' = [blocks EXCEPT ![fd'[j]] = {}]
           /\ \A f \in Paths : final[f] # fd'[j]
  <1>1. PICK k \in Keys : k = KeyOf(j)
    BY JobFacts
  <1>2. PICK file : file = IF temp[k] = NoFile THEN j ELSE temp[k]
    OBVIOUS
  <1>3. /\ pc[j] = "opening" /\ pc' = [pc EXCEPT ![j] = "reading"]
        /\ fd' = [fd EXCEPT ![j] = file]
        /\ temp' = [temp EXCEPT ![k] = file]
        /\ blocks' = [blocks EXCEPT ![file] = {}]
        /\ UNCHANGED <<state, dest, final>>
    BY <1>1, <1>2 DEF OpenTemp, entryVars
  <1>4. \A l : FilesOf(l) \subseteq FilesOf(l)'
    BY DEF FilesOf, EntryMoves
  <1>5. file \in FilesOf(k)'
    BY <1>1, <1>2, <1>3, <1>4 DEF FilesOf, Before, FilesSound, TypeOK
  <1>6. ASSUME NEW f \in Paths PROVE final[f] # file
    <2>1. CASE temp[k] = NoFile
      <3>1. file = j /\ j # NoFile /\ j \notin FilesOf(Source[f])
        BY <1>2, <1>3, <2>1, NoFileAssumption DEF FilesOf, Before
      <3> QED
        BY <3>1 DEF FilesSound
    <2>2. CASE temp[k] # NoFile
      <3>1. file = temp[k] /\ file \in FilesOf(k)
        BY <1>2, <2>2 DEF FilesSound
      <3> QED
        BY <2>2, <3>1 DEF FilesSound, FilesOf
    <2> QED
      BY <2>1, <2>2
  <1>7. \A l \in Keys : temp'[l] # NoFile => temp'[l] \in FilesOf(l)'
    BY <1>3, <1>4, <1>5 DEF FilesSound, TypeOK
  <1>8. \A f \in Paths : final'[f] # NoFile =>
            final'[f] \in FilesOf(Source[f])' /\ final'[f] # temp'[Source[f]]
    BY <1>3, <1>4, <1>6, DownloadAssumption DEF FilesSound, TypeOK
  <1>9. fd'[j] = file /\ temp'[k] = file
    BY <1>3 DEF TypeOK
  <1>10. \A i \in Work' : fd'[i] \in FilesOf(KeyOf(i))'
    BY <1>1, <1>3, <1>4, <1>5, <1>9 DEF FilesSound, Work, TypeOK
  <1>11. \A i \in Jobs : Placed(i)' => final'[dest'[i]] # NoFile
    BY <1>3 DEF FilesSound, Placed, TypeOK
  <1> QED
    BY <1>1, <1>3, <1>5, <1>6, <1>7, <1>8, <1>9, <1>10, <1>11 DEF FilesSound

\* Renaming it: the file at the destination is no longer the temporary one.
LEMMA RenameFiles ==
    ASSUME TypeOK, EntriesSound, FilesSound, \A i \in Jobs : EntryMoves(i),
           NEW j \in Jobs, Rename(j)
    PROVE  FilesSound'
  <1>1. PICK k \in Keys : k = KeyOf(j)
    BY JobFacts
  <1>2. /\ pc[j] = "renaming" /\ state[j] = "pending" /\ UNCHANGED <<fd, state, dest>>
        /\ dest[j] \in Paths /\ Source[dest[j]] = k
    BY <1>1 DEF Rename, EntriesSound, EntrySound, entryVars
  <1>3. CASE temp[k] = NoFile
    <2>1. pc' = [pc EXCEPT ![j] = "failing"] /\ UNCHANGED <<temp, final>>
      BY <1>1, <1>3 DEF Rename
    <2> QED
      BY <1>2, <2>1, FilesKept DEF Work, Placed, TypeOK
  <1>4. CASE temp[k] # NoFile
    <2>1. /\ pc' = [pc EXCEPT ![j] = "marking"]
          /\ final' = [final EXCEPT ![dest[j]] = temp[k]]
          /\ temp' = [temp EXCEPT ![k] = NoFile]
      BY <1>1, <1>4 DEF Rename
    <2>2. \A l : FilesOf(l) \subseteq FilesOf(l)'
      BY DEF FilesOf, EntryMoves
    <2>3. temp[k] \in FilesOf(k)
      BY <1>4 DEF FilesSound
    <2>4. \A l \in Keys : temp'[l] # NoFile => temp'[l] \in FilesOf(l)'
      BY <2>1, <2>2 DEF FilesSound, TypeOK
    <2>5. ASSUME NEW f \in Paths, final'[f] # NoFile
          PROVE  final'[f] \in FilesOf(Source[f])' /\ final'[f] # temp'[Source[f]]
      <3>1. Source[f] \in Keys
        BY DownloadAssumption
      <3>2. CASE f = dest[j]
        <4>1. final'[f] = temp[k] /\ temp'[Source[f]] = NoFile
          BY <1>2, <2>1, <3>2 DEF TypeOK
        <4> QED
          BY <1>2, <1>4, <2>2, <2>3, <3>2, <4>1
      <3>3. CASE f # dest[j]
        <4>1. final'[f] = final[f] /\ temp'[Source[f]] \in {temp[Source[f]], NoFile}
          BY <2>1, <3>1, <3>3 DEF TypeOK
        <4> QED
          BY <2>2, <2>5, <4>1 DEF FilesSound
      <3> QED
        BY <3>2, <3>3
    <2>6. \A i \in Work' : fd'[i] \in FilesOf(KeyOf(i))'
      BY <1>2, <2>1, <2>2 DEF FilesSound, Work, TypeOK
    <2>7. ASSUME NEW i \in Jobs, Placed(i)' PROVE final'[dest'[i]] # NoFile
      <3>1. Placed(i) \/ i = j
        BY <1>2, <2>1, <2>7 DEF Placed, TypeOK
      <3>2. Placed(i) => dest[i] \in Paths /\ final[dest[i]] # NoFile
        BY DEF FilesSound, EntriesSound, EntrySound, Placed
      <3> QED
        BY <1>2, <1>4, <2>1, <3>1, <3>2 DEF TypeOK
    <2> QED
      BY <2>4, <2>5, <2>6, <2>7 DEF FilesSound
  <1> QED
    BY <1>3, <1>4

\* Every step keeps the files sound.
LEMMA FileStep ==
    ASSUME TypeOK, EntriesSound, FilesSound, [Next]_vars
    PROVE  FilesSound'
  <1>1. EntriesSound' /\ \A j \in Jobs : EntryMoves(j)
    BY EntryStep
  <1>2. CASE UNCHANGED <<temp, final, pc, fd, state, dest>>
    BY <1>1, <1>2, FilesKept DEF Work, Placed
  <1>3. ASSUME NEW c \in Callers, NEW f \in Paths, Call(c, f) PROVE FilesSound'
    <2>1. PICK j \in Jobs : j = Job(Source[f])
      BY CurrentJob, DownloadAssumption
    <2>2. /\ StartIfAbsent(j)
          /\ dest' = [dest EXCEPT ![j] = IF state[j] = "absent" THEN f ELSE @]
          /\ UNCHANGED <<temp, final, fd>>
      BY <1>3, <2>1 DEF Call, fileVars
    <2>3. \A i \in Jobs : i \in Work' => i \in Work
      BY <2>2 DEF StartIfAbsent, Work, TypeOK
    <2>4. \A i \in Jobs : Placed(i)' => Placed(i) /\ dest'[i] = dest[i]
      BY <2>2 DEF StartIfAbsent, Placed, TypeOK
    <2> QED
      BY <1>1, <2>2, <2>3, <2>4, FilesKept
  <1>4. ASSUME NEW c \in Callers,
               CallerStep(c) \/ Discard(c) \/ \E f \in Paths : CallRaises(c, f) \/ UseCached(c, f)
        PROVE  FilesSound'
    <2>1. UNCHANGED <<temp, final, pc, fd, state, dest>>
      BY <1>4 DEF CallerStep, Discard, CallRaises, UseCached, Poll, ReadPayload, ReportFailure,
                  entryVars, threadVars, fileVars
    <2> QED
      BY <1>2, <2>1
  <1>5. ASSUME NEW j \in Jobs, OpenTemp(j) PROVE FilesSound'
    BY <1>1, <1>5, OpenFiles
  <1>6. ASSUME NEW j \in Jobs, Rename(j) PROVE FilesSound'
    BY <1>1, <1>6, RenameFiles
  <1>7. ASSUME NEW j \in Jobs,
               \/ Respond(j) \/ WriteBlock(j) \/ EndBody(j) \/ MarkDone(j) \/ DownloadRaises(j)
               \/ MarkFailed(j)
        PROVE  FilesSound'
    <2>1. UNCHANGED <<temp, final, fd, dest>>
      BY <1>7 DEF Respond, WriteBlock, EndBody, MarkDone, DownloadRaises, MarkFailed, entryVars, fileVars
    <2>2. \A i \in Jobs : i \in Work' => i \in Work
      BY <1>7 DEF Respond, WriteBlock, EndBody, MarkDone, DownloadRaises, MarkFailed, Work, TypeOK
    <2>3. \A i \in Jobs : Placed(i)' => Placed(i)
      BY <1>7 DEF Respond, WriteBlock, EndBody, MarkDone, DownloadRaises, MarkFailed, Placed, TypeOK,
                  entryVars
    <2> QED
      BY <1>1, <2>1, <2>2, <2>3, FilesKept
  <1>8. ASSUME NEW j \in Jobs, Unlink(j) PROVE FilesSound'
    <2>1. /\ pc' = [pc EXCEPT ![j] = "ended"] /\ temp' = [temp EXCEPT ![KeyOf(j)] = NoFile]
          /\ UNCHANGED <<final, fd, state, dest>>
      BY <1>8 DEF Unlink, entryVars
    <2>2. \A l : FilesOf(l) \subseteq FilesOf(l)'
      BY <1>1 DEF FilesOf, EntryMoves
    <2>3. \A l \in Keys : temp'[l] \in {temp[l], NoFile}
      BY <2>1 DEF TypeOK
    <2>4. \A i \in Work' : i \in Work
      BY <2>1 DEF Work, TypeOK
    <2>5. \A i \in Jobs : Placed(i)' => Placed(i)
      BY <2>1 DEF Placed, TypeOK
    <2> QED
      BY <2>1, <2>2, <2>3, <2>4, <2>5, DownloadAssumption DEF FilesSound
  <1>9. CASE Reload \/ Crash
    <2>1. /\ UNCHANGED <<temp, final, fd, state, dest>>
          /\ \A i \in Jobs : pc'[i] \in {pc[i], "ended"}
      BY <1>9 DEF Reload, Crash, NewStore, fileVars
    <2> QED
      BY <1>1, <2>1, FilesKept DEF Work, Placed
  <1>10. CASE Publish \/ UNCHANGED vars
    BY <1>2, <1>10 DEF Publish, vars, entryVars, threadVars, fileVars
  <1> QED
    BY <1>3, <1>4, <1>5, <1>6, <1>7, <1>8, <1>9, <1>10 DEF Next, ThreadStep

\* In every reachable state, the files are sound.
THEOREM Files == Spec => []FilesSound
  <1>1. Init => FilesSound
    <2> SUFFICES ASSUME Init PROVE FilesSound
      OBVIOUS
    <2> QED
      BY DEF Init, FilesSound, Work, Placed
  <1>2. TypeOK /\ EntriesSound /\ FilesSound /\ [Next]_vars => FilesSound'
    BY FileStep
  <1> QED
    BY <1>1, <1>2, Types, Entries, PTL DEF Spec

(***************************************************************************)
(* A temporary file belongs to the thread that created it, which is still  *)
(* at work, unless a crash left it: a failed download leaves none behind,  *)
(* also when a reload makes two threads share the path (_run_download).    *)
(***************************************************************************)
THEOREM TempsAreUsed == Spec => []TempHasThread
  <1> DEFINE AtWork == {"reading", "renaming", "failing", "unlinking"}
  <1>1. Init => TempHasThread
    BY DEF Init, TempHasThread
  <1>2. TypeOK /\ EntriesSound /\ FilesSound /\ TempHasThread /\ [Next]_vars => TempHasThread'
    <2> SUFFICES ASSUME TypeOK, EntriesSound, FilesSound, TempHasThread, [Next]_vars,
                        NEW k \in Keys, temp'[k] # NoFile, temp'[k] \notin orphans'
                 PROVE  pc'[temp'[k]] \in AtWork
      BY DEF TempHasThread
    <2>1. temp[k] # NoFile => temp[k] \in Jobs /\ KeyOf(temp[k]) = k /\ pc[temp[k]] # "none"
      BY DEF FilesSound, FilesOf, Before
    <2>2. temp[k] \notin orphans \cup {NoFile} => pc[temp[k]] \in AtWork
      BY DEF TempHasThread
    <2>3. CASE temp'[k] = temp[k] /\ orphans' = orphans /\ pc'[temp[k]] = pc[temp[k]]
      BY <2>2, <2>3
    <2>4. ASSUME NEW j \in Jobs, ThreadStep(j) PROVE pc'[temp'[k]] \in AtWork
      <3>1. orphans' = orphans /\ \A i \in Jobs : i # j => pc'[i] = pc[i]
        BY <2>4 DEF ThreadStep, Respond, OpenTemp, WriteBlock, EndBody, Rename, MarkDone,
                    DownloadRaises, MarkFailed, Unlink, history, TypeOK
      <3>2. CASE KeyOf(j) # k
        <4>1. temp'[k] = temp[k]
          BY <2>4, <3>2 DEF ThreadStep, Respond, OpenTemp, WriteBlock, EndBody, Rename, MarkDone,
                            DownloadRaises, MarkFailed, Unlink, TypeOK, fileVars
        <4>2. temp[k] \in Jobs /\ temp[k] # j
          BY <2>1, <3>2, <4>1
        <4> QED
          BY <2>3, <3>1, <4>1, <4>2
      <3>3. CASE OpenTemp(j) /\ KeyOf(j) = k
        <4>1. pc[j] = "opening" /\ pc'[j] = "reading"
              /\ temp'[k] = IF temp[k] = NoFile THEN j ELSE temp[k]
          BY <3>3 DEF OpenTemp, TypeOK
        <4>2. CASE temp[k] = NoFile
          BY <4>1, <4>2
        <4>3. CASE temp[k] # NoFile
          <5>1. temp[k] \in Jobs /\ pc[temp[k]] \in AtWork
            BY <2>1, <2>2, <3>1, <4>1, <4>3
          <5>2. temp[k] # j
            BY <4>1, <5>1
          <5> QED
            BY <3>1, <4>1, <4>3, <5>1, <5>2
        <4> QED
          BY <4>2, <4>3
      <3>4. CASE \/ Respond(j) \/ WriteBlock(j) \/ EndBody(j) \/ DownloadRaises(j)
                 \/ MarkFailed(j) \/ MarkDone(j)
        <4>1. temp' = temp
          BY <3>4 DEF Respond, WriteBlock, EndBody, DownloadRaises, MarkFailed, MarkDone, fileVars
        <4>2. temp[k] \in Jobs /\ pc[temp[k]] \in AtWork
          BY <2>1, <2>2, <3>1, <4>1
        <4>3. pc[j] \in AtWork => pc'[j] \in AtWork
          BY <3>4 DEF Respond, WriteBlock, EndBody, DownloadRaises, MarkFailed, MarkDone, TypeOK
        <4> QED
          BY <3>1, <4>1, <4>2, <4>3
      <3>5. CASE Rename(j) /\ KeyOf(j) = k
        BY <3>5 DEF Rename, TypeOK
      <3>6. CASE Unlink(j) /\ KeyOf(j) = k
        BY <3>6 DEF Unlink, TypeOK
      <3> QED
        BY <2>4, <3>2, <3>3, <3>4, <3>5, <3>6 DEF ThreadStep
    <2>5. ASSUME NEW c \in Callers, NEW f \in Paths, Call(c, f) PROVE pc'[temp'[k]] \in AtWork
      <3>1. PICK j \in Jobs : j = Job(Source[f])
        BY CurrentJob, DownloadAssumption
      <3>2. StartIfAbsent(j) /\ temp' = temp /\ orphans' = orphans
        BY <2>5, <3>1 DEF Call, fileVars, history
      <3>3. state[j] = "absent" => pc[j] = "none"
        BY DEF EntriesSound, EntrySound
      <3>4. pc'[temp[k]] = pc[temp[k]]
        BY <2>1, <3>2, <3>3 DEF StartIfAbsent, TypeOK
      <3> QED
        BY <2>3, <3>2, <3>4
    <2>6. ASSUME NEW c \in Callers,
                 \/ CallerStep(c) \/ Discard(c)
                 \/ \E f \in Paths : CallRaises(c, f) \/ UseCached(c, f)
          PROVE  temp' = temp /\ pc' = pc /\ orphans' = orphans
      BY <2>6 DEF CallerStep, Discard, CallRaises, UseCached, Poll, ReadPayload, ReportFailure,
                  threadVars, fileVars, history
    <2>7. CASE Reload
      BY <2>3, <2>7 DEF Reload, NewStore, fileVars
    <2>8. ~Crash
      BY DEF Crash, NewStore, fileVars
    <2>9. CASE Publish \/ UNCHANGED vars
      BY <2>3, <2>9 DEF Publish, vars, threadVars, fileVars, history
    <2> QED
      BY <2>3, <2>4, <2>5, <2>6, <2>7, <2>8, <2>9 DEF Next
  <1> QED
    BY <1>1, <1>2, Types, Entries, Files, PTL DEF Spec
----
(***************************************************************************)
(* Contents, of a key that no two threads wrote at once and whose bodies   *)
(* ended in full: at most one thread works on it, its file holds what the  *)
(* thread has written and is not in place, and what is in place is whole.  *)
(* If no thread held a response for it at the last reload, the responses   *)
(* held now, and what the store in use has put in place, are as new as     *)
(* that store.                                                             *)
(***************************************************************************)
Holding(j) == pc[j] \in {"opening", "reading", "renaming"}

OneWorks(k) == \A i, j \in Work : KeyOf(i) = k /\ KeyOf(j) = k => i = j

Filling(k) ==
    \A j \in Work : KeyOf(j) = k =>
        /\ temp[k] \in {fd[j], NoFile}
        /\ blocks[fd[j]] = (1 .. written[j]) \X {version[j]}
        /\ pc[j] = "renaming" => written[j] = Chunks
        /\ \A f \in Paths : Source[f] = k => final[f] # fd[j]

PlacedWhole(k) == \A f \in Paths : Source[f] = k /\ final[f] # NoFile => Whole(blocks[final[f]])

HeldIsNew(k) ==
    k \notin lingering =>
        \A j \in Jobs : KeyOf(j) = k /\ Holding(j) => version[j] >= storeSince

PlacedIsNew(k) ==
    k \notin lingering /\ Placed(Job(k)) =>
        \A b \in blocks[final[dest[Job(k)]]] : b[2] >= storeSince

CleanKey(k) == OneWorks(k) /\ Filling(k) /\ PlacedWhole(k) /\ HeldIsNew(k) /\ PlacedIsNew(k)

ContentsSound == storeSince <= upstream /\ \A k \in Keys \ spoiled : CleanKey(k)

\* A step that does not concern the key.
LEMMA OtherKey ==
    ASSUME TypeOK, FilesSound, EntriesSound, NEW k \in Keys, CleanKey(k),
           UNCHANGED <<runtime, storeSince, lingering>>,
           \A j \in Jobs : KeyOf(j) = k =>
               /\ pc'[j] = pc[j] /\ fd'[j] = fd[j] /\ version'[j] = version[j]
               /\ written'[j] = written[j] /\ state'[j] = state[j] /\ dest'[j] = dest[j]
               /\ blocks'[j] = blocks[j],
           temp'[k] = temp[k], \A f \in Paths : Source[f] = k => final'[f] = final[f]
    PROVE  CleanKey(k)'
  <1>1. \A j \in Jobs : KeyOf(j) = k => (j \in Work' <=> j \in Work)
    BY DEF Work
  <1>2. \A j \in Work : KeyOf(j) = k => fd[j] \in Jobs /\ KeyOf(fd[j]) = k
    BY DEF FilesSound, FilesOf
  <1>3. \A f \in Paths : Source[f] = k /\ final[f] # NoFile =>
            final[f] \in Jobs /\ KeyOf(final[f]) = k
    BY DEF FilesSound, FilesOf
  <1>4. PICK j \in Jobs : j = Job(k) /\ KeyOf(j) = k
    BY CurrentJob
  <1>5. Job(k)' = j
    BY <1>4 DEF Job
  <1>6. OneWorks(k)'
    BY <1>1 DEF CleanKey, OneWorks, Work
  <1>7. Filling(k)'
    BY <1>1, <1>2 DEF CleanKey, Filling, Work
  <1>8. PlacedWhole(k)'
    BY <1>3 DEF CleanKey, PlacedWhole, Whole
  <1>10. HeldIsNew(k)'
    BY DEF CleanKey, HeldIsNew, Holding
  <1>11. PlacedIsNew(k)'
    <2> SUFFICES ASSUME Placed(j)', k \notin lingering
                 PROVE  \A b \in blocks'[final'[dest'[j]]] : b[2] >= storeSince
      BY <1>5 DEF PlacedIsNew, Placed
    <2>1. Placed(j) /\ dest'[j] = dest[j]
      BY <1>4 DEF Placed
    <2>2. dest[j] \in Paths /\ Source[dest[j]] = k /\ final[dest[j]] # NoFile
      BY <1>4, <2>1 DEF EntriesSound, EntrySound, Placed, FilesSound
    <2>3. blocks'[final'[dest'[j]]] = blocks[final[dest[j]]]
      BY <1>3, <2>1, <2>2
    <2> QED
      BY <1>4, <2>1, <2>3 DEF CleanKey, PlacedIsNew
  <1> QED
    BY <1>6, <1>7, <1>8, <1>10, <1>11 DEF CleanKey

\* A step that writes and renames nothing.
LEMMA NothingWritten ==
    ASSUME TypeOK, NEW k \in Keys, CleanKey(k),
           UNCHANGED <<runtime, storeSince, lingering, fd, version, written, final, blocks>>,
           temp'[k] \in {temp[k], NoFile},
           \A j \in Jobs : j \in Work' => j \in Work /\ pc'[j] = pc[j],
           \A j \in Jobs : Holding(j)' => Holding(j),
           \A j \in Jobs : Placed(j)' => Placed(j) /\ dest'[j] = dest[j]
    PROVE  CleanKey(k)'
  <1>1. PICK j \in Jobs : j = Job(k) /\ KeyOf(j) = k
    BY CurrentJob
  <1>2. Job(k)' = j
    BY <1>1 DEF Job
  <1>3. OneWorks(k)'
    BY DEF CleanKey, OneWorks, Work
  <1>4. Filling(k)'
    BY DEF CleanKey, Filling, Work
  <1>5. PlacedWhole(k)'
    BY DEF CleanKey, PlacedWhole, Whole
  <1>6. HeldIsNew(k)'
    BY DEF CleanKey, HeldIsNew
  <1>7. PlacedIsNew(k)'
    BY <1>1, <1>2 DEF CleanKey, PlacedIsNew, Placed
  <1> QED
    BY <1>3, <1>4, <1>5, <1>6, <1>7 DEF CleanKey

\* A thread gets its response: it is of what is published now.
LEMMA RespondClean ==
    ASSUME TypeOK, storeSince <= upstream, NEW j \in Jobs, Respond(j),
           NEW k \in Keys, k = KeyOf(j), CleanKey(k)
    PROVE  CleanKey(k)'
  <1>1. /\ pc[j] = "requesting" /\ pc' = [pc EXCEPT ![j] = "opening"]
        /\ version' = [version EXCEPT ![j] = upstream]
        /\ UNCHANGED <<runtime, state, dest, fd, written, temp, final, blocks, storeSince, lingering>>
    BY DEF Respond, entryVars, fileVars, history
  <1>2. Work' = Work /\ j \notin Work /\ \A i \in Work : pc'[i] = pc[i] /\ version'[i] = version[i]
    BY <1>1 DEF Work, TypeOK
  <1>3. OneWorks(k)'
    BY <1>2 DEF CleanKey, OneWorks
  <1>4. Filling(k)'
    BY <1>1, <1>2 DEF CleanKey, Filling
  <1>5. PlacedWhole(k)'
    BY <1>1 DEF CleanKey, PlacedWhole, Whole
  <1>6. HeldIsNew(k)'
    BY <1>1 DEF CleanKey, HeldIsNew, Holding, TypeOK
  <1>7. PlacedIsNew(k)'
    <2>1. PICK i \in Jobs : i = Job(k) /\ Job(k)' = i
      BY <1>1, CurrentJob DEF Job
    <2>2. Placed(i)' => Placed(i)
      BY <1>1 DEF Placed, TypeOK
    <2> QED
      BY <1>1, <2>1, <2>2 DEF CleanKey, PlacedIsNew, Placed
  <1> QED
    BY <1>3, <1>4, <1>5, <1>6, <1>7 DEF CleanKey

\* A thread opens its temporary file, and no other thread of the key is at work.
LEMMA OpenClean ==
    ASSUME TypeOK, EntriesSound, FilesSound, ContentsSound, \A i \in Jobs : EntryMoves(i),
           NEW j \in Jobs, OpenTemp(j), NEW k \in Keys, k = KeyOf(j), k \notin spoiled'
    PROVE  CleanKey(k)'
  <1>1. Beside(j) = {} /\ k \notin spoiled
    BY DEF OpenTemp
  <1>2. CleanKey(k) /\ storeSince <= upstream /\ storeSince \in Nat /\ upstream \in Nat
    BY <1>1 DEF ContentsSound, TypeOK, Versions
  <1>3. /\ pc[j] = "opening" /\ pc' = [pc EXCEPT ![j] = "reading"]
        /\ UNCHANGED <<runtime, state, dest, version, written, final, storeSince, lingering>>
        /\ \A i \in Jobs \ {j} : fd'[i] = fd[i]
    BY DEF OpenTemp, entryVars, TypeOK
  <1>4. /\ fd'[j] \in Jobs /\ temp'[k] = fd'[j]
        /\ blocks' = [blocks EXCEPT ![fd'[j]] = {}]
        /\ \A f \in Paths : final[f] # fd'[j]
    BY OpenFiles DEF FilesOf
  <1>5. written[j] = 0 /\ state[j] = "pending"
    BY <1>3 DEF EntriesSound, EntrySound, Before
  <1>6. \A i \in Work' : KeyOf(i) = k => i = j
    BY <1>1, <1>3 DEF Work, Beside, TypeOK
  <1>7. pc'[j] = "reading" /\ written'[j] = 0
    BY <1>3, <1>5 DEF TypeOK
  <1>8. \A f \in Paths : final[f] # NoFile => blocks'[final[f]] = blocks[final[f]]
    BY <1>4 DEF TypeOK
  <1>9. OneWorks(k)'
    BY <1>6 DEF OneWorks
  <1>10. Filling(k)'
    <2>1. blocks'[fd'[j]] = {} /\ (1 .. written'[j]) \X {version'[j]} = {}
      BY <1>4, <1>7 DEF TypeOK
    <2> QED
      BY <1>3, <1>4, <1>6, <1>7, <2>1 DEF Filling
  <1>11. PlacedWhole(k)'
    BY <1>2, <1>3, <1>8 DEF CleanKey, PlacedWhole, Whole
  <1>12. HeldIsNew(k)'
    <2>1. \A i \in Jobs : Holding(i)' => Holding(i)
      BY <1>3 DEF Holding, TypeOK
    <2> QED
      BY <1>2, <1>3, <2>1 DEF CleanKey, HeldIsNew
  <1>13. PlacedIsNew(k)'
    <2>1. PICK i \in Jobs : i = Job(k) /\ KeyOf(i) = k
      BY CurrentJob
    <2>2. Job(k)' = i
      BY <1>3, <2>1 DEF Job
    <2> SUFFICES ASSUME Placed(i)', k \notin lingering
                 PROVE  \A b \in blocks'[final'[dest'[i]]] : b[2] >= storeSince
      BY <1>3, <2>2 DEF PlacedIsNew, Placed
    <2>3. i # j /\ Placed(i)
      BY <1>3, <1>5, <1>7 DEF Placed, TypeOK
    <2>4. dest[i] \in Paths /\ final[dest[i]] # NoFile
      BY <2>3 DEF EntriesSound, EntrySound, Placed, FilesSound
    <2> QED
      BY <1>2, <1>3, <1>8, <2>1, <2>3, <2>4 DEF CleanKey, PlacedIsNew
  <1> QED
    BY <1>9, <1>10, <1>11, <1>12, <1>13 DEF CleanKey

\* A thread writes its next block.
LEMMA WriteClean ==
    ASSUME TypeOK, EntriesSound, FilesSound, NEW j \in Jobs, WriteBlock(j),
           NEW k \in Keys, k = KeyOf(j), CleanKey(k)
    PROVE  CleanKey(k)'
  <1>1. /\ pc[j] = "reading" /\ j \in Work /\ written[j] \in Nat
        /\ written' = [written EXCEPT ![j] = @ + 1]
        /\ blocks' = [blocks EXCEPT ![fd[j]] =
               {b \in @ : b[1] # written[j] + 1} \cup {<<written[j] + 1, version[j]>>}]
        /\ UNCHANGED <<runtime, state, dest, pc, fd, version, temp, final, storeSince, lingering>>
    BY DEF WriteBlock, history, Work, TypeOK
  <1>2. fd[j] \in Jobs /\ KeyOf(fd[j]) = k
    BY <1>1 DEF FilesSound, FilesOf
  <1>3. /\ blocks[fd[j]] = (1 .. written[j]) \X {version[j]}
        /\ \A f \in Paths : Source[f] = k => final[f] # fd[j]
        /\ \A i \in Work : KeyOf(i) = k => i = j
    BY <1>1 DEF CleanKey, Filling, OneWorks
  <1>4. blocks'[fd[j]] = (1 .. written'[j]) \X {version[j]}
    <2>1. {b \in (1 .. written[j]) \X {version[j]} : b[1] # written[j] + 1}
              \cup {<<written[j] + 1, version[j]>>} = (1 .. written[j] + 1) \X {version[j]}
      <3>1. 1 .. written[j] + 1 = (1 .. written[j]) \cup {written[j] + 1}
        BY <1>1
      <3>2. \A b \in (1 .. written[j]) \X {version[j]} : b[1] # written[j] + 1
        BY <1>1
      <3> QED
        BY <3>1, <3>2
    <2> QED
      BY <1>1, <1>2, <1>3, <2>1 DEF TypeOK
  <1>5. \A f \in Paths : Source[f] = k => blocks'[final[f]] = blocks[final[f]]
    BY <1>1, <1>3 DEF TypeOK
  <1>6. Work' = Work /\ Job(k)' = Job(k)
    BY <1>1 DEF Work, Job
  <1>7. OneWorks(k)'
    BY <1>6 DEF CleanKey, OneWorks
  <1>8. Filling(k)'
    BY <1>1, <1>3, <1>4, <1>6 DEF CleanKey, Filling, TypeOK
  <1>9. PlacedWhole(k)'
    BY <1>1, <1>5 DEF CleanKey, PlacedWhole, Whole
  <1>10. HeldIsNew(k)'
    BY <1>1 DEF CleanKey, HeldIsNew, Holding
  <1>11. PlacedIsNew(k)'
    <2>1. Job(k) \in Jobs /\ KeyOf(Job(k)) = k
      BY CurrentJob
    <2>2. Placed(Job(k)) => dest[Job(k)] \in Paths /\ Source[dest[Job(k)]] = k
      BY <2>1 DEF EntriesSound, EntrySound, Placed
    <2> QED
      BY <1>1, <1>5, <1>6, <2>1, <2>2 DEF CleanKey, PlacedIsNew, Placed
  <1> QED
    BY <1>7, <1>8, <1>9, <1>10, <1>11 DEF CleanKey

\* A body that ends in full.
LEMMA EndClean ==
    ASSUME TypeOK, NEW j \in Jobs, EndBody(j), NEW k \in Keys, k = KeyOf(j), CleanKey(k),
           k \notin spoiled'
    PROVE  CleanKey(k)'
  <1>1. /\ pc[j] = "reading" /\ pc' = [pc EXCEPT ![j] = "renaming"] /\ written[j] = Chunks
        /\ UNCHANGED <<runtime, state, dest, fd, version, written, temp, final, blocks, storeSince,
                       lingering>>
    BY DEF EndBody, entryVars, fileVars
  <1>2. Work' = Work /\ Job(k)' = Job(k) /\ \A i \in Jobs : Placed(i)' = Placed(i)
    BY <1>1 DEF Work, Job, Placed, TypeOK
  <1>3. \A i \in Jobs : Holding(i)' <=> Holding(i)
    BY <1>1 DEF Holding, TypeOK
  <1>4. Job(k) \in Jobs
    BY CurrentJob
  <1>5. OneWorks(k)'
    BY <1>2 DEF CleanKey, OneWorks
  <1>6. Filling(k)'
    <2>1. \A i \in Work : pc'[i] = "renaming" => pc[i] = "renaming" \/ written[i] = Chunks
      BY <1>1 DEF Work, TypeOK
    <2> QED
      BY <1>1, <1>2, <2>1 DEF CleanKey, Filling
  <1>7. PlacedWhole(k)'
    BY <1>1 DEF CleanKey, PlacedWhole, Whole
  <1>8. HeldIsNew(k)'
    BY <1>1, <1>3 DEF CleanKey, HeldIsNew
  <1>9. PlacedIsNew(k)'
    <2>1. Placed(Job(k))' => Placed(Job(k))
      BY <1>1, <1>2, <1>4 DEF Placed
    <2> QED
      BY <1>1, <1>2, <2>1 DEF CleanKey, PlacedIsNew
  <1> QED
    BY <1>5, <1>6, <1>7, <1>8, <1>9 DEF CleanKey

\* A whole file goes to its destination, over whatever an older store left there.
LEMMA RenameClean ==
    ASSUME TypeOK, EntriesSound, FilesSound, NEW j \in Jobs, Rename(j),
           NEW k \in Keys, k = KeyOf(j), CleanKey(k)
    PROVE  CleanKey(k)'
  <1>1. /\ pc[j] = "renaming" /\ j \in Work /\ state[j] = "pending"
        /\ dest[j] \in Paths /\ Source[dest[j]] = k
        /\ UNCHANGED <<runtime, state, dest, fd, version, written, blocks, storeSince, lingering>>
    BY DEF Rename, entryVars, history, Work, EntriesSound, EntrySound
  <1>2. /\ temp[k] \in {fd[j], NoFile}
        /\ blocks[fd[j]] = (1 .. Chunks) \X {version[j]} /\ version[j] \in Versions
        /\ \A i \in Work : KeyOf(i) = k => i = j
    BY <1>1 DEF CleanKey, Filling, OneWorks, TypeOK
  <1>3. CASE temp[k] = NoFile
    <2>1. pc' = [pc EXCEPT ![j] = "failing"] /\ UNCHANGED <<temp, final>>
      BY <1>3 DEF Rename
    <2>2. \A i \in Jobs : i \in Work' => i \in Work /\ pc'[i] = pc[i]
      BY <2>1 DEF Work, TypeOK
    <2>3. /\ UNCHANGED <<runtime, storeSince, lingering, fd, version, written, final, blocks>>
          /\ temp'[k] \in {temp[k], NoFile}
      BY <1>1, <2>1
    <2>4. \A i \in Jobs : Holding(i)' => Holding(i)
      BY <1>1, <2>1 DEF Holding, TypeOK
    <2>5. \A i \in Jobs : Placed(i)' => Placed(i) /\ dest'[i] = dest[i]
      BY <1>1, <2>1 DEF Placed, TypeOK
    <2> QED
      BY <2>2, <2>3, <2>4, <2>5, NothingWritten
  <1>4. CASE temp[k] # NoFile
    <2>1. /\ pc' = [pc EXCEPT ![j] = "marking"]
          /\ final' = [final EXCEPT ![dest[j]] = fd[j]]
          /\ temp'[k] = NoFile
      BY <1>2, <1>4 DEF Rename, TypeOK
    <2>2. \A i \in Work' : KeyOf(i) # k
      BY <1>2, <2>1 DEF Work, TypeOK
    <2>3. Whole(blocks[fd[j]])
      BY <1>2 DEF Whole, Blocks
    <2>4. OneWorks(k)' /\ Filling(k)'
      BY <2>2 DEF OneWorks, Filling
    <2>7. HeldIsNew(k)'
      <3>1. \A i \in Jobs : Holding(i)' => Holding(i)
        BY <1>1, <2>1 DEF Holding, TypeOK
      <3> QED
        BY <1>1, <3>1 DEF CleanKey, HeldIsNew
    <2>5. PlacedWhole(k)'
      BY <1>1, <2>1, <2>3 DEF CleanKey, PlacedWhole, Whole, TypeOK
    <2>6. PlacedIsNew(k)'
      <3>1. PICK i \in Jobs : i = Job(k) /\ KeyOf(i) = k
        BY CurrentJob
      <3>2. Job(k)' = i
        BY <1>1, <3>1 DEF Job
      <3> SUFFICES ASSUME Placed(i)', k \notin lingering
                   PROVE  \A b \in blocks'[final'[dest'[i]]] : b[2] >= storeSince
        BY <1>1, <3>2 DEF PlacedIsNew, Placed
      <3>3. i # j => Placed(i)
        BY <1>1, <2>1 DEF Placed, TypeOK
      <3>4. version[j] >= storeSince
        BY <1>1 DEF CleanKey, HeldIsNew, Holding
      <3>5. CASE dest[i] = dest[j]
        BY <1>1, <1>2, <2>1, <3>4, <3>5 DEF TypeOK
      <3>6. CASE dest[i] # dest[j]
        <4>1. Placed(i) /\ final'[dest[i]] = final[dest[i]]
          BY <2>1, <3>3, <3>6 DEF TypeOK, EntriesSound, EntrySound, Placed
        <4> QED
          BY <1>1, <3>1, <4>1 DEF CleanKey, PlacedIsNew
      <3> QED
        BY <3>5, <3>6
    <2> QED
      BY <2>4, <2>5, <2>6, <2>7 DEF CleanKey
  <1> QED
    BY <1>3, <1>4

\* A new store has no entries yet, and older threads go on or stop.
LEMMA NewStoreClean ==
    ASSUME TypeOK, EntriesSound, NEW k \in Keys, CleanKey(k), Reload \/ Crash
    PROVE  CleanKey(k)'
  <1>1. /\ runtime' = runtime + 1 /\ runtime + 1 \in 0 .. MaxReloads /\ runtime \in Nat
        /\ UNCHANGED <<dest, state, fd, version, written, temp, final, blocks>>
        /\ \A j \in Jobs : pc'[j] = pc[j] \/ (pc'[j] = "ended" /\ pc[j] # "none")
        /\ \A j \in Jobs : pc[j] = "none" => pc'[j] = "none"
    BY DownloadAssumption DEF Reload, Crash, NewStore, fileVars, TypeOK
  <1>2. PICK j \in Jobs : j = <<runtime + 1, k>> /\ j[1] = runtime + 1
    BY <1>1, JobFacts
  <1>3. Job(k)' = j
    BY <1>1, <1>2 DEF Job
  <1>4. pc'[j] = "none" /\ state'[j] = "absent"
    BY <1>1, <1>2 DEF EntriesSound, EntrySound
  <1>5. \A i \in Work' : i \in Work /\ pc'[i] = pc[i]
    BY <1>1 DEF Work
  <1>6. OneWorks(k)'
    BY <1>5 DEF CleanKey, OneWorks
  <1>7. Filling(k)'
    BY <1>1, <1>5 DEF CleanKey, Filling
  <1>8. PlacedWhole(k)'
    BY <1>1 DEF CleanKey, PlacedWhole, Whole
  <1>9. HeldIsNew(k)'
    <2>1. CASE Reload
      BY <2>1 DEF Reload, Held, HeldIsNew, Holding
    <2>2. CASE Crash
      BY <2>2 DEF Crash, HeldIsNew, Holding
    <2> QED
      BY <2>1, <2>2
  <1>10. PlacedIsNew(k)'
    BY <1>3, <1>4 DEF PlacedIsNew, Placed
  <1> QED
    BY <1>6, <1>7, <1>8, <1>9, <1>10 DEF CleanKey

\* The steps of a thread, for its own key.
LEMMA ThreadClean ==
    ASSUME TypeOK, EntriesSound, FilesSound, ContentsSound, \A i \in Jobs : EntryMoves(i),
           NEW j \in Jobs, ThreadStep(j), NEW k \in Keys, k = KeyOf(j), k \notin spoiled'
    PROVE  CleanKey(k)'
  <1>1. spoiled \subseteq spoiled'
    BY DEF ThreadStep, Respond, OpenTemp, WriteBlock, EndBody, Rename, MarkDone, DownloadRaises, MarkFailed,
           Unlink, history
  <1>2. CleanKey(k)
    BY <1>1 DEF ContentsSound
  <1>3. CASE MarkDone(j) \/ MarkFailed(j) \/ DownloadRaises(j) \/ Unlink(j)
    <2>1. /\ UNCHANGED <<runtime, storeSince, lingering, fd, version, written, final, blocks>>
          /\ temp'[k] \in {temp[k], NoFile}
      BY <1>3 DEF MarkDone, MarkFailed, DownloadRaises, Unlink, entryVars, fileVars, history, TypeOK
    <2>2. dest' = dest /\ \A i \in Jobs : i # j => pc'[i] = pc[i] /\ state'[i] = state[i]
      BY <1>3 DEF MarkDone, MarkFailed, DownloadRaises, Unlink, entryVars, TypeOK
    <2>3. /\ pc'[j] \in {"ended", "unlinking", "failing"}
          /\ state'[j] = "done" => Placed(j)
      BY <1>3 DEF MarkDone, MarkFailed, DownloadRaises, Unlink, entryVars, TypeOK, Placed
    <2>4. \A i \in Jobs : i \in Work' => i \in Work /\ pc'[i] = pc[i]
      BY <2>2, <2>3 DEF Work
    <2>5. \A i \in Jobs : Holding(i)' => Holding(i)
      BY <2>2, <2>3 DEF Holding
    <2>6. \A i \in Jobs : Placed(i)' => Placed(i) /\ dest'[i] = dest[i]
      BY <2>2, <2>3 DEF Placed
    <2> QED
      BY <1>2, <2>1, <2>4, <2>5, <2>6, NothingWritten
  <1> QED
    BY <1>2, <1>3, RespondClean, OpenClean, WriteClean, EndClean, RenameClean
    DEF ThreadStep, ContentsSound

\* The steps of a thread, for the keys of other artifacts.
LEMMA ThreadCleanOther ==
    ASSUME TypeOK, EntriesSound, FilesSound, ContentsSound, \A i \in Jobs : EntryMoves(i),
           NEW j \in Jobs, ThreadStep(j), NEW k \in Keys, k # KeyOf(j), k \notin spoiled'
    PROVE  CleanKey(k)'
  <1>1. spoiled \subseteq spoiled'
    BY DEF ThreadStep, Respond, OpenTemp, WriteBlock, EndBody, Rename, MarkDone, DownloadRaises, MarkFailed,
           Unlink, history
  <1>2. CleanKey(k)
    BY <1>1 DEF ContentsSound
  <1>3. UNCHANGED <<runtime, storeSince, lingering, dest>>
    BY DEF ThreadStep, Respond, OpenTemp, WriteBlock, EndBody, Rename, MarkDone, DownloadRaises, MarkFailed,
           Unlink, entryVars, history
  <1>4. \A i \in Jobs : KeyOf(i) = k =>
            /\ pc'[i] = pc[i] /\ fd'[i] = fd[i] /\ version'[i] = version[i]
            /\ written'[i] = written[i] /\ state'[i] = state[i]
    BY DEF ThreadStep, Respond, OpenTemp, WriteBlock, EndBody, Rename, MarkDone, DownloadRaises, MarkFailed,
           Unlink, entryVars, TypeOK
  <1>5. \A i \in Jobs : KeyOf(i) = k => blocks'[i] = blocks[i]
    <2>1. CASE OpenTemp(j)
      <3>1. PICK file \in Jobs : blocks' = [blocks EXCEPT ![file] = {}] /\ KeyOf(file) = KeyOf(j)
        BY <2>1, JobFacts DEF OpenTemp, FilesSound, FilesOf
      <3> QED
        BY <3>1 DEF TypeOK
    <2>2. CASE WriteBlock(j)
      <3>1. fd[j] \in Jobs /\ KeyOf(fd[j]) = KeyOf(j)
        BY <2>2 DEF WriteBlock, Work, FilesSound, FilesOf
      <3>2. PICK w : blocks' = [blocks EXCEPT ![fd[j]] = w]
        BY <2>2 DEF WriteBlock
      <3> QED
        BY <3>1, <3>2 DEF TypeOK
    <2>3. CASE ~OpenTemp(j) /\ ~WriteBlock(j)
      BY <2>3 DEF ThreadStep, Respond, EndBody, Rename, MarkDone, DownloadRaises, MarkFailed, Unlink, fileVars
    <2> QED
      BY <2>1, <2>2, <2>3
  <1>6. temp'[k] = temp[k]
    BY DEF ThreadStep, Respond, OpenTemp, WriteBlock, EndBody, Rename, MarkDone, DownloadRaises, MarkFailed,
           Unlink, fileVars, TypeOK
  <1>7. \A f \in Paths : Source[f] = k => final'[f] = final[f]
    <2>1. CASE Rename(j)
      <3>1. Source[dest[j]] = KeyOf(j)
        BY <2>1 DEF Rename, EntriesSound, EntrySound
      <3> QED
        BY <2>1, <3>1 DEF Rename, TypeOK
    <2>2. CASE ~Rename(j)
      BY <2>2 DEF ThreadStep, Respond, OpenTemp, WriteBlock, EndBody, MarkDone, DownloadRaises, MarkFailed,
                  Unlink, fileVars
    <2> QED
      BY <2>1, <2>2
  <1> QED
    BY <1>2, <1>3, <1>4, <1>5, <1>6, <1>7, OtherKey

\* Every step keeps the contents of clean keys sound.
LEMMA ContentsStep ==
    ASSUME TypeOK, EntriesSound, FilesSound, ContentsSound, [Next]_vars
    PROVE  ContentsSound'
  <1>1. \A j \in Jobs : EntryMoves(j)
    BY EntryStep
  <1>2. \A j \in Jobs : ThreadStep(j) => UNCHANGED <<storeSince, upstream>>
    BY DEF ThreadStep, Respond, OpenTemp, WriteBlock, EndBody, Rename, MarkDone, DownloadRaises, MarkFailed,
           Unlink, history
  <1>3. \A c \in Callers :
            CallerStep(c) \/ Discard(c)
              \/ (\E f \in Paths : Call(c, f) \/ CallRaises(c, f) \/ UseCached(c, f))
            => UNCHANGED <<upstream, history, runtime, fd, version, written, fileVars>>
    BY DEF CallerStep, Discard, Call, CallRaises, UseCached, Poll, ReadPayload, ReportFailure,
           StartIfAbsent, entryVars, threadVars
  <1>4. storeSince' <= upstream'
    <2>1. upstream \in Nat /\ storeSince \in Nat /\ storeSince <= upstream
      BY DEF ContentsSound, TypeOK, Versions
    <2> QED
      BY <1>2, <1>3, <2>1
         DEF Next, Reload, Crash, NewStore, Publish, vars, history
  <1> SUFFICES ASSUME NEW k \in Keys, k \notin spoiled'
               PROVE  CleanKey(k)'
    BY <1>4 DEF ContentsSound
  <1>5. ASSUME NEW j \in Jobs, ThreadStep(j) PROVE CleanKey(k)'
    BY <1>1, <1>5, ThreadClean, ThreadCleanOther
  <1>6. ASSUME k \notin spoiled,
               UNCHANGED <<runtime, storeSince, lingering, fd, version, written, final, blocks, temp>>,
               \A j \in Jobs : j \in Work' => j \in Work /\ pc'[j] = pc[j],
               \A j \in Jobs : Holding(j)' => Holding(j),
               \A j \in Jobs : Placed(j)' => Placed(j) /\ dest'[j] = dest[j]
        PROVE  CleanKey(k)'
    <2>1. CleanKey(k)
      BY <1>6 DEF ContentsSound
    <2>2. /\ UNCHANGED <<runtime, storeSince, lingering, fd, version, written, final, blocks>>
          /\ temp'[k] \in {temp[k], NoFile}
      BY <1>6
    <2> QED
      BY <1>6, <2>1, <2>2, NothingWritten
  <1>7. ASSUME NEW c \in Callers, NEW f \in Paths, Call(c, f) PROVE CleanKey(k)'
    <2>1. PICK j \in Jobs : j = Job(Source[f])
      BY CurrentJob, DownloadAssumption
    <2>2. StartIfAbsent(j) /\ dest' = [dest EXCEPT ![j] = IF state[j] = "absent" THEN f ELSE @]
      BY <1>7, <2>1 DEF Call
    <2>3. UNCHANGED <<history, runtime, fd, version, written, fileVars>>
      BY <1>3, <1>7
    <2>4. \A i \in Jobs : i \in Work' => i \in Work /\ pc'[i] = pc[i]
      BY <2>2 DEF StartIfAbsent, Work, TypeOK
    <2>5. \A i \in Jobs : Holding(i)' => Holding(i)
      BY <2>2 DEF StartIfAbsent, Holding, TypeOK
    <2>6. \A i \in Jobs : Placed(i)' => Placed(i) /\ dest'[i] = dest[i]
      <3>1. \A i \in Jobs : Placed(i)' => Placed(i)
        BY <2>2 DEF StartIfAbsent, Placed, TypeOK
      <3> QED
        BY <1>1, <3>1 DEF Placed, EntriesSound, EntrySound, EntryMoves
    <2> QED
      BY <1>6, <2>3, <2>4, <2>5, <2>6 DEF history, fileVars
  <1>8. ASSUME NEW c \in Callers,
               CallerStep(c) \/ Discard(c) \/ \E f \in Paths : CallRaises(c, f) \/ UseCached(c, f)
        PROVE  CleanKey(k)'
    <2>1. UNCHANGED <<pc, state, dest>>
      BY <1>8 DEF CallerStep, Discard, CallRaises, UseCached, Poll, ReadPayload, ReportFailure,
                  entryVars, threadVars
    <2> QED
      BY <1>3, <1>6, <1>8, <2>1 DEF history, fileVars, Work, Holding, Placed
  <1>9. CASE Reload \/ Crash
    <2>1. CleanKey(k)
      BY <1>9 DEF ContentsSound, Reload, Crash, NewStore
    <2> QED
      BY <1>9, <2>1, NewStoreClean
  <1>10. CASE Publish \/ UNCHANGED vars
    BY <1>6, <1>10 DEF Publish, vars, entryVars, threadVars, fileVars, history, Work, Holding,
                        Placed
  <1> QED
    BY <1>5, <1>7, <1>8, <1>9, <1>10 DEF Next

\* In every reachable state, the contents of clean keys are sound.
THEOREM Contents == Spec => []ContentsSound
  <1>1. Init => ContentsSound
    <2> SUFFICES ASSUME Init, NEW k \in Keys PROVE CleanKey(k)
      BY DEF Init, ContentsSound
    <2>1. Job(k) \in Jobs
      BY DownloadAssumption DEF Init, Job, Jobs
    <2> QED
      BY <2>1 DEF Init, CleanKey, OneWorks, Filling, PlacedWhole, HeldIsNew, PlacedIsNew, Work,
                  Holding, Placed
  <1>2. TypeOK /\ EntriesSound /\ FilesSound /\ ContentsSound /\ [Next]_vars => ContentsSound'
    BY ContentsStep
  <1> QED
    BY <1>1, <1>2, Types, Entries, Files, PTL DEF Spec

(***************************************************************************)
(* An entry that says done has its whole file in place: _run_download      *)
(* marks it last, and no step of another entry takes the file away.        *)
(***************************************************************************)
THEOREM DoneFilesStay == Spec => []DoneIsInPlace
  <1>1. TypeOK /\ EntriesSound /\ FilesSound /\ ContentsSound => DoneIsInPlace
    <2> SUFFICES ASSUME TypeOK, EntriesSound, FilesSound, ContentsSound, NEW k \in Keys \ spoiled,
                        state[Job(k)] = "done"
                 PROVE  final[dest[Job(k)]] # NoFile /\ Whole(blocks[final[dest[Job(k)]]])
      BY DEF DoneIsInPlace
    <2>1. PICK j \in Jobs : j = Job(k) /\ KeyOf(j) = k
      BY CurrentJob
    <2>2. dest[j] \in Paths /\ Source[dest[j]] = k /\ final[dest[j]] # NoFile
      BY <2>1 DEF EntriesSound, EntrySound, FilesSound, Placed
    <2> QED
      BY <2>1, <2>2 DEF ContentsSound, CleanKey, PlacedWhole
  <1> QED
    BY <1>1, Types, Entries, Files, Contents, PTL
----
(***************************************************************************)
(* Callers.  A session that waits has an entry of the store in use, for    *)
(* its own destination, that does not go back on what it was told; what a  *)
(* session was given is whole.                                             *)
(***************************************************************************)
Waits(c) ==
    caller[c].at = "polling" =>
        /\ state[JobOf(c)] # "absent"
        /\ dest[JobOf(c)] = caller[c].path
        /\ caller[c].seen = "done" => state[JobOf(c)] = "done"

GivenWhole(c) ==
    caller[c].at = "returned" /\ Source[caller[c].path] \notin spoiled => Whole(caller[c].got)

CallerSound(c) ==
    /\ caller[c].at # "raised"
    /\ Waits(c)
    /\ GivenWhole(c)

CallersSound == \A c \in Callers : CallerSound(c)

\* A caller that has ended without a payload.
LEMMA EndedSound ==
    ASSUME TypeOK, NEW c \in Callers, NEW at \in {"failed", "refused", "lost"},
           caller'[c] = Ended(at)
    PROVE  CallerSound(c)'
  <1>1. caller'[c].at = at
    BY EndedTypes
  <1> QED
    BY <1>1 DEF CallerSound, Waits, GivenWhole

\* A session that takes no part in a step that keeps the store.
LEMMA CallerKept ==
    ASSUME TypeOK, PathsKnown, \A j \in Jobs : EntryMoves(j), spoiled \subseteq spoiled',
           runtime' = runtime, NEW c \in Callers, CallerSound(c), caller'[c] = caller[c]
    PROVE  CallerSound(c)'
  <1>1. GivenWhole(c)'
    BY DEF CallerSound, GivenWhole, Whole
  <1>2. Waits(c)'
    <2> SUFFICES ASSUME caller[c].at = "polling" PROVE Waits(c)'
      BY DEF Waits
    <2>1. PICK j \in Jobs : j = JobOf(c)
      BY CurrentJob, DownloadAssumption DEF JobOf, PathsKnown
    <2>2. JobOf(c)' = j
      BY <2>1 DEF JobOf, Job
    <2> QED
      BY <2>1, <2>2 DEF CallerSound, Waits, EntryMoves
  <1> QED
    BY <1>1, <1>2 DEF CallerSound

\* The steps of the session itself.
LEMMA CallerOwnStep ==
    ASSUME TypeOK, PathsKnown, EntriesSound, FilesSound, ContentsSound, NEW c \in Callers,
           CallerSound(c),
           \/ CallerStep(c) \/ Discard(c)
           \/ \E f \in Paths : Call(c, f) \/ CallRaises(c, f) \/ UseCached(c, f)
    PROVE  CallerSound(c)'
  <1>1. caller[c] \in Caller /\ caller \in [Callers -> Caller]
    BY DEF TypeOK
  <1>2. ASSUME NEW f \in Paths, Call(c, f) PROVE CallerSound(c)'
    <2>1. PICK j \in Jobs : j = Job(Source[f])
      BY CurrentJob, DownloadAssumption
    <2>2. /\ Joins(j, f) /\ StartIfAbsent(j) /\ runtime' = runtime
          /\ dest' = [dest EXCEPT ![j] = IF state[j] = "absent" THEN f ELSE @]
          /\ caller'[c] = [caller[c] EXCEPT !.at = "polling", !.path = f, !.seen = state'[j]]
      BY <1>1, <1>2, <2>1 DEF Call
    <2>3. /\ caller'[c].at = "polling" /\ caller'[c].path = f /\ caller'[c].seen = state'[j]
      BY <1>1, <2>2 DEF Caller
    <2>4. JobOf(c)' = j
      BY <2>1, <2>2, <2>3 DEF JobOf, Job
    <2>5. state'[j] # "absent" /\ dest'[j] = f
      BY <2>1, <2>2 DEF Joins, StartIfAbsent, TypeOK
    <2> QED
      BY <2>3, <2>4, <2>5 DEF CallerSound, Waits, GivenWhole
  <1>3. ASSUME NEW f \in Paths, CallRaises(c, f) PROVE CallerSound(c)'
    BY <1>1, <1>3, EndedSound DEF CallRaises
  <1>4. ASSUME NEW f \in Paths, UseCached(c, f) PROVE CallerSound(c)'
    <2>1. /\ caller[c].at = "idle" /\ final[f] # NoFile /\ UNCHANGED <<blocks, spoiled>>
          /\ caller'[c] = [caller[c] EXCEPT !.at = "returned", !.path = f,
                                            !.got = blocks[final[f]]]
      BY <1>1, <1>4 DEF UseCached, fileVars, history
    <2>2. /\ caller'[c].at = "returned" /\ caller'[c].path = f
          /\ caller'[c].got = blocks[final[f]]
      BY <1>1, <2>1 DEF Caller
    <2>3. Source[f] \notin spoiled => Whole(blocks[final[f]])
      BY <2>1, DownloadAssumption DEF ContentsSound, CleanKey, PlacedWhole
    <2> QED
      BY <2>1, <2>2, <2>3 DEF CallerSound, Waits, GivenWhole, Whole
  <1>5. CASE Poll(c)
    <2>1. PICK j \in Jobs : j = JobOf(c)
      BY <1>5, CurrentJob, DownloadAssumption DEF JobOf, Poll, PathsKnown
    <2>2. /\ caller[c].at = "polling" /\ UNCHANGED <<runtime, state, dest>>
          /\ caller'[c] = [caller[c] EXCEPT !.seen = state[j]]
      BY <1>1, <1>5, <2>1 DEF Poll, entryVars
    <2>3. /\ caller'[c].at = "polling" /\ caller'[c].path = caller[c].path
          /\ caller'[c].seen = state[j]
      BY <1>1, <2>2 DEF Caller
    <2>4. JobOf(c)' = j
      BY <2>1, <2>2, <2>3 DEF JobOf, Job
    <2> QED
      BY <2>1, <2>2, <2>3, <2>4 DEF CallerSound, Waits, GivenWhole
  <1>6. CASE ReadPayload(c)
    <2>1. PICK f \in Paths : f = caller[c].path
      BY <1>6 DEF ReadPayload, PathsKnown
    <2>2. PICK k \in Keys : k = Source[f]
      BY DownloadAssumption
    <2>3. PICK j \in Jobs : j = Job(k) /\ KeyOf(j) = k
      BY CurrentJob
    <2>4. JobOf(c) = j
      BY <2>1, <2>2, <2>3 DEF JobOf
    <2>5. state[j] = "done" /\ dest[j] = f
      BY <1>6, <2>1, <2>4 DEF ReadPayload, CallerSound, Waits
    <2>6. final[f] # NoFile
      BY <2>5 DEF FilesSound, Placed
    <2>7. /\ UNCHANGED <<blocks, spoiled>>
          /\ caller'[c] = [caller[c] EXCEPT !.at = "returned", !.seen = "absent",
                                            !.got = blocks[final[f]]]
      BY <1>1, <1>6, <2>1, <2>6 DEF ReadPayload, fileVars, history
    <2>8. /\ caller'[c].at = "returned" /\ caller'[c].path = f
          /\ caller'[c].got = blocks[final[f]]
      BY <1>1, <2>1, <2>7 DEF Caller
    <2>9. k \notin spoiled => Whole(blocks[final[f]])
      BY <2>2, <2>6 DEF ContentsSound, CleanKey, PlacedWhole
    <2> QED
      BY <2>2, <2>7, <2>8, <2>9 DEF CallerSound, Waits, GivenWhole, Whole
  <1>7. CASE ReportFailure(c) \/ Discard(c)
    BY <1>1, <1>7, EndedSound DEF ReportFailure, Discard
  <1> QED
    BY <1>2, <1>3, <1>4, <1>5, <1>6, <1>7 DEF CallerStep

\* Every step keeps what sessions wait for and were given sound.
LEMMA CallersStep ==
    ASSUME TypeOK, PathsKnown, EntriesSound, FilesSound, ContentsSound, CallersSound, [Next]_vars
    PROVE  CallersSound'
  <1> SUFFICES ASSUME NEW c \in Callers, CallerSound(c) PROVE CallerSound(c)'
    BY DEF CallersSound
  <1>1. \A j \in Jobs : EntryMoves(j)
    BY EntryStep
  <1>2. ASSUME NEW d \in Callers,
               \/ CallerStep(d) \/ Discard(d)
               \/ \E f \in Paths : Call(d, f) \/ CallRaises(d, f) \/ UseCached(d, f)
        PROVE  CallerSound(c)'
    <2>1. CASE d = c
      BY <1>2, <2>1, CallerOwnStep
    <2>2. CASE d # c
      <3>1. caller'[c] = caller[c]
        <4>1. \E e : caller' = [caller EXCEPT ![d] = e]
          <5>1. CASE CallerStep(d) \/ Discard(d)
            BY <5>1 DEF CallerStep, Poll, ReadPayload, ReportFailure, Discard
          <5>2. ASSUME NEW f \in Paths, Call(d, f) \/ CallRaises(d, f) \/ UseCached(d, f)
                PROVE  \E e : caller' = [caller EXCEPT ![d] = e]
            BY <5>2 DEF Call, CallRaises, UseCached
          <5> QED
            BY <1>2, <5>1, <5>2
        <4> QED
          BY <2>2, <4>1 DEF TypeOK
      <3>2. runtime' = runtime /\ spoiled' = spoiled
        BY <1>2 DEF CallerStep, Discard, Call, CallRaises, UseCached, Poll, ReadPayload,
                    ReportFailure, entryVars, history
      <3> QED
        BY <1>1, <3>1, <3>2, CallerKept
    <2> QED
      BY <2>1, <2>2
  <1>3. ASSUME NEW j \in Jobs, ThreadStep(j) PROVE CallerSound(c)'
    <2>1. caller' = caller /\ runtime' = runtime /\ spoiled \subseteq spoiled'
      BY <1>3 DEF ThreadStep, Respond, OpenTemp, WriteBlock, EndBody, Rename, MarkDone, DownloadRaises,
                  MarkFailed, Unlink, entryVars, history
    <2> QED
      BY <1>1, <2>1, CallerKept
  <1>4. CASE Reload \/ Crash
    <2>1. /\ spoiled' = spoiled
          /\ caller'[c] = IF caller[c].at = "polling" THEN Ended("lost") ELSE caller[c]
      BY <1>4 DEF Reload, Crash, NewStore
    <2>2. CASE caller[c].at = "polling"
      BY <2>1, <2>2, EndedSound
    <2>3. CASE caller[c].at # "polling"
      BY <2>1, <2>3 DEF CallerSound, Waits, GivenWhole, Whole
    <2> QED
      BY <2>2, <2>3
  <1>5. CASE Publish \/ UNCHANGED vars
    BY <1>1, <1>5, CallerKept DEF Publish, vars, entryVars, history
  <1> QED
    BY <1>2, <1>3, <1>4, <1>5 DEF Next

\* In every reachable state, what sessions wait for and were given is sound.
THEOREM CallersAreSound == Spec => []CallersSound
  <1>1. Init => CallersSound
    BY DEF Init, NoCall, CallersSound, CallerSound, Waits, GivenWhole
  <1>2. TypeOK /\ PathsKnown /\ EntriesSound /\ FilesSound /\ ContentsSound /\ CallersSound
          /\ [Next]_vars => CallersSound'
    BY CallersStep
  <1> QED
    BY <1>1, <1>2, Types, Entries, Files, Contents, PTL DEF Spec

(***************************************************************************)
(* A session that polls never finds the file it was promised missing (the  *)
(* FileNotFoundError of read_file after a done snapshot).                  *)
(***************************************************************************)
THEOREM ReadsSucceed == Spec => []NoReadRaises
  <1>1. CallersSound => NoReadRaises
    BY DEF CallersSound, CallerSound, NoReadRaises
  <1> QED
    BY <1>1, CallersAreSound, PTL

(***************************************************************************)
(* A payload that uboot_download_url returned is the whole file, however   *)
(* reloads, crashes, failures and other sessions fall, unless two threads  *)
(* had its temporary file at once or the body ended early.                 *)
(***************************************************************************)
THEOREM CleanPayloads == Spec => []CleanPayloadIsWhole
  <1>1. CallersSound => CleanPayloadIsWhole
    BY DEF CallersSound, CallerSound, GivenWhole, CleanPayloadIsWhole
  <1> QED
    BY <1>1, CallersAreSound, PTL

\* A session that polls gets a payload only by reading it.
LEMMA ReturnsByReading ==
    ASSUME TypeOK, [Next]_vars, NEW c \in Callers, caller[c].at = "polling",
           caller'[c].at = "returned"
    PROVE  ReadPayload(c)
  <1>1. caller \in [Callers -> Caller]
    BY DEF TypeOK
  <1>2. ASSUME NEW d \in Callers, NEW r, caller' = [caller EXCEPT ![d] = r],
               d = c => r.at # "returned"
        PROVE  FALSE
    BY <1>1, <1>2
  <1>3. caller' # caller
    OBVIOUS
  <1>4. ASSUME NEW d \in Callers, NEW f \in Paths, Call(d, f) \/ CallRaises(d, f) \/ UseCached(d, f)
        PROVE  FALSE
    <2>1. d # c
      BY <1>4 DEF Call, CallRaises, UseCached
    <2> QED
      BY <1>2, <1>4, <2>1 DEF Call, CallRaises, UseCached
  <1>5. ASSUME NEW d \in Callers, Poll(d) PROVE FALSE
    <2>1. [caller[d] EXCEPT !.seen = state[JobOf(d)]].at = "polling"
      BY <1>1, <1>5 DEF Poll, Caller
    <2> QED
      BY <1>2, <1>5, <2>1 DEF Poll
  <1>6. ASSUME NEW d \in Callers, ReportFailure(d) \/ Discard(d) PROVE FALSE
    BY <1>2, <1>6, EndedTypes DEF ReportFailure, Discard
  <1>7. ASSUME NEW d \in Callers, ReadPayload(d), d # c PROVE FALSE
    BY <1>2, <1>7 DEF ReadPayload
  <1>8. ~(Reload \/ Crash)
    BY EndedTypes DEF Reload, Crash, NewStore
  <1>9. ASSUME Publish \/ UNCHANGED vars \/ \E j \in Jobs : ThreadStep(j) PROVE FALSE
    BY <1>3, <1>9 DEF Publish, vars, ThreadStep, Respond, OpenTemp, WriteBlock, EndBody, Rename,
                      MarkDone, DownloadRaises, MarkFailed, Unlink
  <1> QED
    BY <1>4, <1>5, <1>6, <1>7, <1>8, <1>9 DEF Next, CallerStep

(***************************************************************************)
(* A payload that did not come from the cache is not older than the store  *)
(* that serves it: a reload is enough to be given what is published,       *)
(* unless a thread of an older store still held its response then.         *)
(***************************************************************************)
THEOREM ReloadsRefresh == Spec => FreshSinceReload
  <1>1. /\ TypeOK /\ PathsKnown /\ EntriesSound /\ FilesSound /\ ContentsSound /\ CallersSound
        /\ [Next]_vars
        => [\A c \in Callers :
               LET k == Source[caller[c].path]
               IN  caller[c].at = "polling" /\ caller'[c].at = "returned"
                      /\ k \notin spoiled \cup lingering
                      => \A b \in caller'[c].got : b[2] >= storeSince]_vars
    <2> SUFFICES ASSUME TypeOK, PathsKnown, EntriesSound, FilesSound, ContentsSound, CallersSound,
                        [Next]_vars, NEW c \in Callers, caller[c].at = "polling",
                        caller'[c].at = "returned",
                        Source[caller[c].path] \notin spoiled \cup lingering
                 PROVE  \A b \in caller'[c].got : b[2] >= storeSince
      OBVIOUS
    <2>1. caller[c] \in Caller /\ caller \in [Callers -> Caller]
      BY DEF TypeOK
    <2>2. PICK f \in Paths : f = caller[c].path
      BY DEF PathsKnown
    <2>3. PICK k \in Keys : k = Source[f]
      BY DownloadAssumption
    <2>4. PICK j \in Jobs : j = Job(k) /\ KeyOf(j) = k
      BY CurrentJob
    <2>5. ReadPayload(c)
      BY ReturnsByReading
    <2>6. state[j] = "done" /\ dest[j] = f
      BY <2>2, <2>3, <2>4, <2>5 DEF ReadPayload, CallersSound, CallerSound, Waits, JobOf
    <2>7. final[f] # NoFile
      BY <2>6 DEF FilesSound, Placed
    <2>8. caller'[c].got = blocks[final[f]]
      BY <2>1, <2>2, <2>5, <2>7 DEF ReadPayload, Caller
    <2> QED
      BY <2>2, <2>3, <2>4, <2>6, <2>8 DEF ContentsSound, CleanKey, PlacedIsNew, Placed
  <1> QED
    BY <1>1, Types, Entries, Files, Contents, CallersAreSound, PTL DEF Spec, FreshSinceReload
====
