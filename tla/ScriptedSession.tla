---- MODULE ScriptedSession ----
(***************************************************************************)
(* The server side of a session: ScriptedSessionProvider (scripted.py)     *)
(* with the stores it drives, InMemorySessionStore (sessions.py),          *)
(* InMemoryUploadStore (uploads.py) and the reference counts of            *)
(* DownloadJobStore (download_jobs.py).  tftpy calls them from one select  *)
(* loop, so every request is one step.  The user's handler is a coroutine: *)
(* whenever it is resumed it may acquire downloads and then await another  *)
(* script, await something else by mistake, end the session, return, or    *)
(* raise.  An exception that leaves fetch may also end the process: that   *)
(* is a Restart right after the step.                                      *)
(***************************************************************************)
EXTENDS TftpDialogue, FiniteSets

CONSTANTS
    NoSession,    \* no entry in InMemorySessionStore._sessions
    NoReceive,    \* pending_receive is None
    NoBody,       \* nothing uploaded yet, or nothing handed to the handler
    MaxRestarts,  \* bound: restarts and reloads of the server
    MaxStray      \* bound: tokens under which handlers go astray, and times under one

ASSUME NullsAssumption ==
    /\ NoBody \notin Body
    /\ NoReceive \notin [token: Tokens, uploaded: Body \cup {NoBody}]
    /\ MaxRestarts \in Nat
    /\ MaxStray \in Nat

Pending == [token: Tokens, uploaded: Body \cup {NoBody}]

(***************************************************************************)
(* ClientSession.  handler is "none" before the coroutine exists, "parked" *)
(* while it awaits a result, "dead" once an exception has escaped it.      *)
(***************************************************************************)
Session ==
    [token: Tokens,
     preflight: BOOLEAN,
     handler: {"none", "parked", "dead"},
     pending: Pending \cup {NoReceive},
     artifacts: SUBSET Artifacts]

ASSUME NoSessionAssumption == NoSession \notin Session

VARIABLES
    sessions,   \* [Clients -> Session or NoSession]: InMemorySessionStore._sessions
    attached,   \* [Artifacts -> sets of clients]: attached_sessions of each entry
    fresh,      \* the token _new_token returns next
    uploads,    \* open _CapturingUpload files: the WRQ and the runtime that opened it
    epoch       \* which runtime is in use: a restart and a SIGHUP reload build another

serverVars == <<sessions, attached, fresh, uploads, epoch>>

VARIABLES       \* history variables: they record what happened and guard nothing
    owner,      \* [Tokens -> the client whose script carried the token]
    asked,      \* [Tokens -> the kind of that script]
    resumes,    \* [Tokens -> times the handler was resumed by that token]
    received,   \* [Tokens -> the bytes the handler was resumed with]
    strayed     \* tokens whose continuation left the handler awaiting no script

history == <<owner, asked, resumes, received, strayed>>

ServerTypeOK ==
    /\ sessions \in [Clients -> Session \cup {NoSession}]
    /\ attached \in [Artifacts -> SUBSET Clients]
    /\ fresh \in 1 .. MaxToken + 1
    /\ uploads \subseteq [put: Put, epoch: 0 .. MaxRestarts]
    /\ epoch \in 0 .. MaxRestarts

HistoryTypeOK ==
    /\ owner \in [Tokens -> Clients \cup {NoSession}]
    /\ asked \in [Tokens -> {"nothing", "probe", "exec", "recv"}]
    /\ resumes \in [Tokens -> Nat]
    /\ received \in [Tokens -> Body \cup {NoBody}]
    /\ strayed \subseteq Tokens

ServerInit ==
    /\ sessions = [c \in Clients |-> NoSession]
    /\ attached = [a \in Artifacts |-> {}]
    /\ fresh = 1
    /\ uploads = {}
    /\ epoch = 0
    /\ owner = [t \in Tokens |-> NoSession]
    /\ asked = [t \in Tokens |-> "nothing"]
    /\ resumes = [t \in Tokens |-> 0]
    /\ received = [t \in Tokens |-> NoBody]
    /\ strayed = {}

(***************************************************************************)
(* Helpers.                                                                *)
(***************************************************************************)
Live(c) == sessions[c] # NoSession

\* Mutant: any token of a live session will do.
CurrentAnyToken(r) == r.token # NoToken /\ Live(r.client)

\* The check at the top of _resume_session: a session, and its current token.
Current(r) == Live(r.client) /\ r.token = sessions[r.client].token

\* What the handler is resumed with: the upload, if one was asked for, the
\* board says it went well, and bytes have been recorded under this receive.
ReceivedValue(r) ==
    LET pending == sessions[r.client].pending
    IN  IF pending # NoReceive /\ r.report = "ok" THEN pending.uploaded ELSE NoBody

\* Mutant: the token is not new.
DrawSameToken == fresh <= MaxToken /\ fresh' = fresh

\* _new_token, with the bound of the model.
DrawToken == fresh <= MaxToken /\ fresh' = fresh + 1

\* Mutant: the continuation is written before the token is rotated.
OldContinuation(kind) == [kind |-> kind, token |-> fresh - 1]

\* _append_continue and _append_receive: a script that brings the board back with the
\* token drawn in this step.
Continuation(kind) == [kind |-> kind, token |-> fresh]

\* Mutant: the receive is set up before the token is drawn.
ReceiveWithoutToken(kind) ==
    IF kind = "recv" THEN [token |-> NoToken, uploaded |-> NoBody] ELSE NoReceive

\* The PendingReceive of a script that uploads.
NewReceive(kind) == IF kind = "recv" THEN [token |-> fresh, uploaded |-> NoBody] ELSE NoReceive

\* History: a script of the given kind leaves with the token drawn in this step.
Issued(c, kind) ==
    /\ owner' = [owner EXCEPT ![fresh] = c]
    /\ asked' = [asked EXCEPT ![fresh] = kind]

\* DownloadJobStore.acquire by client c for every key in keys.
Attach(keys, c) ==
    [a \in Artifacts |-> IF a \in keys THEN attached[a] \cup {c} ELSE attached[a]]

\* Mutant: the first release detaches everyone.
ReleaseAll(held, c) == [a \in Artifacts |-> IF a \in held THEN {} ELSE attached[a]]

\* _discard_session releases what the session holds; held may include keys
\* acquired earlier in the same step.
Release(held, c) ==
    [a \in Artifacts |-> IF a \in held THEN attached[a] \ {c} ELSE attached[a]]

\* Mutant: the entry goes, the references stay.
DiscardKeepingDownloads(c, held) ==
    /\ sessions' = [sessions EXCEPT ![c] = NoSession]
    /\ UNCHANGED attached

\* Mutant: the downloads are released, the entry stays.
DiscardKeepingEntry(c, held) ==
    /\ attached' = Release(held, c)
    /\ sessions' = [sessions EXCEPT ![c].artifacts = {}]

\* _discard_session: release the downloads, drop the entry.
Discard(c, held) ==
    /\ attached' = Release(held, c)
    /\ sessions' = [sessions EXCEPT ![c] = NoSession]

(***************************************************************************)
(* _start_session: an RRQ without a token.  It replaces whatever session   *)
(* the client had, and serves the preflight probe.                         *)
(***************************************************************************)
StartSession(r) ==
    LET c == r.client
        old == IF Live(c) THEN sessions[c].artifacts ELSE {}
    IN  /\ r.token = NoToken
        /\ DrawToken
        /\ attached' = Release(old, c)
        /\ sessions' = [sessions EXCEPT ![c] =
               [token |-> fresh, preflight |-> TRUE, handler |-> "none",
                pending |-> NoReceive, artifacts |-> {}]]
        /\ Issued(c, "probe")
        /\ Answer(r, Continuation("probe"))
        /\ UNCHANGED <<uploads, epoch, resumes, received, strayed>>

\* _resume_session without a session, or with a token that is not current:
\* FileNotFoundError, which the server answers with a TFTP error.
RejectStale(r) ==
    /\ r.token # NoToken
    /\ ~Current(r)
    /\ Answer(r, [kind |-> "miss", token |-> NoToken])
    /\ UNCHANGED <<serverVars, history>>

\* The preflight reports no hush shell: the session is over before its handler.
FailPreflight(r) ==
    /\ Current(r)
    /\ sessions[r.client].preflight
    /\ r.report # "hush"
    /\ Discard(r.client, sessions[r.client].artifacts)
    /\ Answer(r, [kind |-> "final", token |-> NoToken])
    /\ UNCHANGED <<fresh, uploads, epoch, history>>

\* What the board gets when an exception leaves fetch: a TFTP error if it is a
\* FileNotFoundError (server.py, _open_dynamic_download), nothing otherwise.
AnswerException(r) == NoAnswer(r) \/ Answer(r, [kind |-> "miss", token |-> NoToken])

\* _create_handler raises: the flag is already cleared, the token not rotated.
CreateHandlerRaises(r) ==
    /\ Current(r)
    /\ sessions[r.client].preflight
    /\ r.report = "hush"
    /\ sessions' = [sessions EXCEPT ![r.client].preflight = FALSE]
    /\ AnswerException(r)
    /\ UNCHANGED <<attached, fresh, uploads, epoch, history>>

\* A later request finds no handler (FileNotFoundError), or one that an exception
\* already ended: send raises and nothing is answered.
ResumeWithoutHandler(r) ==
    /\ Current(r)
    /\ ~sessions[r.client].preflight
    /\ \/ /\ sessions[r.client].handler = "none"
          /\ Answer(r, [kind |-> "miss", token |-> NoToken])
       \/ /\ sessions[r.client].handler = "dead"
          /\ NoAnswer(r)
    /\ UNCHANGED <<serverVars, history>>

\* Mutant: a receive resumes only when the board reports success.
CanResumeOkOnly(r) ==
    /\ Current(r)
    /\ IF sessions[r.client].preflight
       THEN r.report = "hush"
       ELSE sessions[r.client].handler = "parked" /\ r.report # "failed"

(***************************************************************************)
(* _advance_session: the handler gets the result of the script that        *)
(* carried r.token, and runs to its next await.                            *)
(***************************************************************************)
CanResume(r) ==
    /\ Current(r)
    /\ IF sessions[r.client].preflight
       THEN r.report = "hush"
       ELSE sessions[r.client].handler = "parked"

\* What every outcome of a resumption does.
Resume(r) ==
    /\ CanResume(r)
    /\ resumes' = [resumes EXCEPT ![r.token] = @ + 1]
    /\ received' = [received EXCEPT ![r.token] =
                        IF ReceivedValue(r) = NoBody THEN @ ELSE ReceivedValue(r)]
    /\ UNCHANGED <<uploads, epoch>>

\* It awaits exec or exec_recv: a new token, and for exec_recv a new
\* PendingReceive under that token.
AwaitInstruction(r, kind, acquired) ==
    LET c == r.client
    IN  /\ Resume(r)
        /\ DrawToken
        /\ attached' = Attach(acquired, c)
        /\ sessions' = [sessions EXCEPT ![c] =
               [token |-> fresh,
                preflight |-> FALSE,
                handler |-> "parked",
                pending |-> NewReceive(kind),
                artifacts |-> @.artifacts \cup acquired]]
        /\ Issued(c, kind)
        /\ Answer(r, Continuation(kind))
        /\ UNCHANGED strayed

\* It awaits exec(final=True), returns (StopIteration) or lets ReceiveFailedError
\* escape: the session is discarded with everything acquired in this step too.
EndSession(r, script, acquired) ==
    LET c == r.client
    IN  /\ Resume(r)
        /\ Discard(c, sessions[c].artifacts \cup acquired)
        /\ Answer(r, script)
        /\ UNCHANGED <<fresh, owner, asked, strayed>>

FinalInstruction(r, acquired) == EndSession(r, [kind |-> "final", token |-> NoToken], acquired)

HandlerReturns(r, acquired) == EndSession(r, [kind |-> "miss", token |-> NoToken], acquired)

\* Any other exception: the entry stays with its token, its receive is gone and its
\* downloads stay attached.
KeepSession(r, handler, acquired) ==
    LET c == r.client
    IN  /\ Resume(r)
        /\ attached' = Attach(acquired, c)
        /\ sessions' = [sessions EXCEPT ![c] =
               [@ EXCEPT !.preflight = FALSE, !.handler = handler, !.pending = NoReceive,
                         !.artifacts = sessions[c].artifacts \cup acquired]]
        /\ UNCHANGED <<fresh, owner, asked>>

\* The exception comes out of the coroutine, which is over.
HandlerRaises(r, acquired) ==
    /\ KeepSession(r, "dead", acquired)
    /\ AnswerException(r)
    /\ UNCHANGED strayed

MayStray(t) == resumes[t] < MaxStray /\ Cardinality(strayed) < MaxStray

\* The coroutine awaits something that is no _ExecutionRequest: the TypeError of
\* _result_from_instruction comes after send, so the coroutine has moved on and waits
\* again, and the token that resumed it is still the current one.
HandlerStrays(r, acquired) ==
    /\ KeepSession(r, "parked", acquired)
    /\ MayStray(r.token)
    /\ NoAnswer(r)
    /\ strayed' = strayed \cup {r.token}

\* Mutant: any receive of the client will do.
ExpectedAnyToken(put) == Live(put.client) /\ sessions[put.client].pending # NoReceive

(***************************************************************************)
(* Uploads.  open and record make the same check, once when the WRQ        *)
(* arrives and again when its file is closed; in between the session may   *)
(* have moved on.                                                          *)
(***************************************************************************)
Expected(put) ==
    /\ Live(put.client)
    /\ sessions[put.client].pending # NoReceive
    /\ sessions[put.client].pending.token = put.token

\* Mutant: a new WRQ forgets the bytes of the one before.
OpenUploadAfresh(put) ==
    /\ Expected(put)
    /\ uploads' = uploads \cup {[put |-> put, epoch |-> epoch]}
    /\ sessions' = [sessions EXCEPT ![put.client].pending.uploaded = NoBody]
    /\ puts' = Without(puts, put)
    /\ UNCHANGED <<attached, fresh, epoch, wire, asking, answers, history>>

\* InMemoryUploadStore.open, called by DynamicContentServer._open_upload.
OpenUpload(put) ==
    /\ Expected(put)
    /\ uploads' = uploads \cup {[put |-> put, epoch |-> epoch]}
    /\ puts' = Without(puts, put)
    /\ UNCHANGED <<sessions, attached, fresh, epoch, wire, asking, answers, history>>

\* FileNotFoundError out of upload_open: no file, no acknowledgement.
RefuseUpload(put) ==
    /\ ~Expected(put)
    /\ puts' = Without(puts, put)
    /\ UNCHANGED <<serverVars, wire, asking, answers, history>>

\* _CapturingUpload.close: whatever has arrived is recorded, if it is still
\* expected; if not, record raises FileNotFoundError out of close and nothing is kept.
\* A file opened by an earlier runtime closes into that runtime's store.
CloseUpload(u, whole) ==
    /\ uploads' = uploads \ {u}
    /\ IF u.epoch = epoch /\ Expected(u.put)
       THEN sessions' = [sessions EXCEPT ![u.put.client].pending.uploaded =
                             [token |-> u.put.token, whole |-> whole]]
       ELSE UNCHANGED sessions
    /\ UNCHANGED <<attached, fresh, epoch, history>>

(***************************************************************************)
(* A crash and restart, and a SIGHUP reload: build_runtime makes a new     *)
(* provider with empty stores.  A reload keeps the transfers in progress.  *)
(***************************************************************************)
NewRuntime ==
    /\ epoch < MaxRestarts
    /\ epoch' = epoch + 1
    /\ sessions' = [c \in Clients |-> NoSession]
    /\ attached' = [a \in Artifacts |-> {}]
    /\ UNCHANGED <<fresh, history, link>>

Restart == NewRuntime /\ uploads' = {}

Reload == NewRuntime /\ UNCHANGED uploads
====
