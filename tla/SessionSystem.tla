---- MODULE SessionSystem ----
(***************************************************************************)
(* The server of ScriptedSession and the boards of UbootBoard over the     *)
(* link of TftpDialogue, and what must hold of the whole.                  *)
(***************************************************************************)
EXTENDS ScriptedSession, UbootBoard, FiniteSets

vars == <<serverVars, history, link, board>>

Init == LinkInit /\ ServerInit /\ BoardInit

\* The server takes an RRQ off the link: DynamicContentServer._open_dynamic_download
\* and ScriptedSessionProvider.fetch choose the case.
AcquireAndAdvance(r) ==
    \E acquired \in SUBSET Artifacts :
        \/ \E kind \in {"exec", "recv"} : AwaitInstruction(r, kind, acquired)
        \/ FinalInstruction(r, acquired)
        \/ HandlerReturns(r, acquired)
        \/ HandlerRaises(r, acquired)
        \/ HandlerStrays(r, acquired)

Handle(r) ==
    /\ \/ StartSession(r)
       \/ RejectStale(r)
       \/ FailPreflight(r)
       \/ CreateHandlerRaises(r)
       \/ ResumeWithoutHandler(r)
       \/ AcquireAndAdvance(r)
    /\ UNCHANGED board

\* The board is in the middle of this very transfer.
Sending(put) == board[put.client].mode = "putting" /\ PutOf(put.client) = put

HandlePut(put) ==
    /\ OpenUpload(put) \/ RefuseUpload(put)
    /\ UNCHANGED board

\* The last block arrives: tftpy acknowledges it, then closes the file, before it
\* looks at any other packet.
FinishUpload(u) ==
    /\ Sending(u.put)
    /\ ~board[u.put.client].acked
    /\ CloseUpload(u, TRUE)
    /\ Acknowledge(u.put.client)
    /\ UNCHANGED link

\* tftpy gives up on the transfer and closes the file all the same.
AbortUpload(u) ==
    /\ Lossy \/ ~Sending(u.put)
    /\ CloseUpload(u, FALSE)
    /\ UNCHANGED <<link, board>>

UnderWay(c) == \E u \in uploads : u.put = PutOf(c)

BoardStep(c) ==
    /\ \/ \E script \in answers[c] : Receive(c, script)
       \/ TimeOut(c)
       \/ Continue(c)
       \/ StartPut(c)
       \/ PutSucceeds(c)
       \/ PutFails(c, UnderWay(c))
    /\ UNCHANGED <<serverVars, history>>

\* tftpy's select loop takes one packet, or gives up on one transfer.
ServerStep ==
    \/ \E r \in wire : Handle(r)
    \/ \E put \in puts : HandlePut(put)
    \/ \E u \in uploads : FinishUpload(u) \/ AbortUpload(u)

Next ==
    \/ ServerStep
    \/ (Restart \/ Reload) /\ UNCHANGED board
    \/ \E c \in Clients : BoardStep(c)
    \/ \E c \in Clients : Boot(c) /\ UNCHANGED <<serverVars, history>>

Spec == Init /\ [][Next]_vars

(***************************************************************************)
(* Fairness: the select loop keeps running, and a board that is on keeps   *)
(* executing.  Nobody has to power a board or restart the server.          *)
(***************************************************************************)
Fairness == WF_vars(ServerStep) /\ \A c \in Clients : WF_vars(BoardStep(c))

FairSpec == Spec /\ Fairness
----
TypeOK == LinkTypeOK /\ ServerTypeOK /\ HistoryTypeOK /\ BoardTypeOK

(***************************************************************************)
(* A handler is resumed at most once for each script it sent: a continuation *)
(* that is retried, delayed or repeated by the link never advances the     *)
(* coroutine twice (_resume_session, token check and rotation).  The only  *)
(* exception is a handler that, when resumed, awaited something that is no *)
(* script: its token was not rotated.                                      *)
(***************************************************************************)
ResumedAtMostOnce == \A t \in Tokens \ strayed : resumes[t] <= 1

(***************************************************************************)
(* The bytes exec_recv returns were uploaded under its own token: not left *)
(* over from an earlier receive, and not sent by another board, although   *)
(* the file may be closed long after its WRQ was accepted (uploads.record).*)
(***************************************************************************)
DeliveredIsOwnUpload ==
    \A t \in Tokens : received[t] # NoBody =>
        /\ received[t].token = t
        /\ asked[t] = "recv"

(***************************************************************************)
(* A board that honestly reports recv=ok under the current token finds its *)
(* upload recorded: exec_recv never raises ReceiveFailedError for an upload *)
(* the server acknowledged.                                                *)
(***************************************************************************)
OkMeansStored ==
    \A r \in wire : r.report = "ok" /\ Current(r) /\ sessions[r.client].pending # NoReceive =>
        sessions[r.client].pending.uploaded # NoBody

(***************************************************************************)
(* The sessions attached to a download are exactly the live ones that hold *)
(* it, through replacement, discard, handler errors and restarts           *)
(* (acquire_download, _discard_session).                                   *)
(***************************************************************************)
ReferencesMatchSessions ==
    \A a \in Artifacts :
        attached[a] = {c \in Clients : Live(c) /\ a \in sessions[c].artifacts}

(***************************************************************************)
(* A token reaches only the board of its session: no RRQ of one board can  *)
(* continue the session of another.                                        *)
(***************************************************************************)
TokensArePrivate ==
    \A r \in wire, c \in Clients :
        Live(c) /\ r.token = sessions[c].token => r.client = c

(***************************************************************************)
(* The promise of InstructionLedger.  A token is open while the session it *)
(* belongs to can still be resumed by it, and loose if it was resumed and  *)
(* went astray.                                                            *)
(***************************************************************************)
Resumable(t) ==
    \E c \in Clients :
        /\ Live(c)
        /\ sessions[c].token = t
        /\ sessions[c].preflight \/ sessions[c].handler = "parked"

LedgerState ==
    [t \in Tokens |-> IF t >= fresh THEN "unused"
                      ELSE IF resumes[t] > 0
                           THEN IF t \in strayed /\ Resumable(t) THEN "loose" ELSE "answered"
                           ELSE IF Resumable(t) THEN "open" ELSE "dropped"]

LedgerResult == [t \in Tokens |-> IF received[t] = NoBody THEN {} ELSE {received[t].token}]

Ledger == INSTANCE InstructionLedger WITH
    Instructions <- Tokens, Boards <- Clients, Nobody <- NoSession,
    state <- LedgerState, holder <- owner, kind <- asked, result <- LedgerResult

\* Every behaviour of the server, the link and the boards keeps the ledger's promise.
LedgerKept == Ledger!Spec
----
(***************************************************************************)
(* On a link that neither loses nor repeats, with a server that stays up.  *)
(***************************************************************************)

\* The board and the server agree on the step they are at: a script being sourced
\* always carries a token its session can be resumed by, and a board stops only when
\* its handler returned, raised, or awaited something that is no script (the scripts of
\* _append_continue, _append_receive).
BoardInStep ==
    \A c \in Clients :
        /\ board[c].mode \in {"running", "putting"} =>
               Live(c) /\ sessions[c].token = board[c].token /\ Resumable(board[c].token)
        /\ board[c].mode = "stopped" => ~\E t \in Tokens \ strayed : owner[t] = c /\ Resumable(t)

\* A board that sourced its last script leaves nothing behind: no session, and no
\* download it is still attached to (_discard_session on every way out).
DoneLeavesNothing ==
    \A c \in Clients : board[c].mode = "done" =>
        ~Live(c) /\ \A a \in Artifacts : c \notin attached[a]

\* A started dialogue comes to its end: the server answers every RRQ it should,
\* and each answer is one the board can go on from, until the last script or until
\* the handler itself gives up.
DialogueEnds ==
    \A c \in Clients : board[c].mode # "off" ~> board[c].mode \in {"done", "stopped"}

\* README: "exec_recv(...) resumes and returns the uploaded bytes to the handler".
\* The bytes handed over are the whole upload the board was acknowledged.
UploadIsWhole == \A t \in Tokens : received[t] # NoBody => received[t].whole
====
