---- MODULE SessionSafety_proofs ----
(***************************************************************************)
(* Proofs about SessionSystem: tokens and resumption, uploads, download    *)
(* references.  Each invariant is inductive together with those before it. *)
(***************************************************************************)
EXTENDS SessionTypes_proofs

USE DEF Tokens, NoToken

(***************************************************************************)
(* Resumption.  What makes a token work once: the live sessions have       *)
(* tokens that were drawn, no two the same one; a token that can still     *)
(* resume a handler has not, unless it went astray then; a token not drawn *)
(* yet has no past.                                                        *)
(***************************************************************************)
TokensAreDrawn == \A c \in Clients : Live(c) => sessions[c].token < fresh

TokensDiffer ==
    \A c, d \in Clients :
        Live(c) /\ Live(d) /\ sessions[c].token = sessions[d].token => c = d

CanStillResume(c) == Live(c) /\ (sessions[c].preflight \/ sessions[c].handler = "parked")

ResumableNotResumed ==
    \A c \in Clients : CanStillResume(c) =>
        resumes[sessions[c].token] = 0 \/ sessions[c].token \in strayed

FreshIsUnused ==
    \A t \in Tokens : t >= fresh => resumes[t] = 0 /\ received[t] = NoBody /\ t \notin strayed

ResumeInv ==
    /\ TokensAreDrawn
    /\ TokensDiffer
    /\ ResumableNotResumed
    /\ FreshIsUnused
    /\ ResumedAtMostOnce

(***************************************************************************)
(* Uploads.  A receive is set up under the current token of its session,   *)
(* for a script that uploads, and only the upload of that token is         *)
(* recorded in it.                                                         *)
(***************************************************************************)
ReceiveIsCurrent ==
    \A c \in Clients : Live(c) /\ sessions[c].pending # NoReceive =>
        LET pending == sessions[c].pending
        IN  /\ pending.token = sessions[c].token
            /\ asked[pending.token] = "recv"
            /\ pending.uploaded # NoBody => pending.uploaded.token = pending.token

UploadInv == ReceiveIsCurrent /\ DeliveredIsOwnUpload

(***************************************************************************)
(* Steps that draw no token and resume nothing: sessions go, or lose their *)
(* right to be resumed, or record an upload.                               *)
(***************************************************************************)
SessionsShrink ==
    \A c \in Clients : sessions'[c] # NoSession =>
        /\ Live(c)
        /\ sessions'[c].token = sessions[c].token
        /\ sessions'[c].preflight \/ sessions'[c].handler = "parked" => CanStillResume(c)

LEMMA ShrinkKeepsResumeInv ==
    ASSUME ResumeInv, SessionsShrink, UNCHANGED <<fresh, resumes, received, strayed>>
    PROVE  ResumeInv'
  <1>1. TokensAreDrawn'
    BY DEF ResumeInv, SessionsShrink, TokensAreDrawn, Live
  <1>2. TokensDiffer'
    BY DEF ResumeInv, SessionsShrink, TokensDiffer, Live
  <1>3. ResumableNotResumed'
    BY DEF ResumeInv, SessionsShrink, ResumableNotResumed, CanStillResume, Live
  <1>4. FreshIsUnused' /\ ResumedAtMostOnce'
    BY DEF ResumeInv, FreshIsUnused, ResumedAtMostOnce
  <1> QED
    BY <1>1, <1>2, <1>3, <1>4 DEF ResumeInv

\* A resumption spends the one right its token has.
LEMMA ResumeOnce ==
    ASSUME ServerTypes, ResumeInv, NEW r \in Request, Resume(r)
    PROVE  /\ r.client \in Clients /\ Live(r.client) /\ r.token = sessions[r.client].token
           /\ r.token \in Tokens /\ r.token < fresh
           /\ resumes[r.token] = 0 \/ r.token \in strayed
           /\ strayed \subseteq strayed' => ResumedAtMostOnce'
           /\ \A t \in Tokens : t # r.token =>
                  resumes'[t] = resumes[t] /\ received'[t] = received[t]
           /\ \A c \in Clients : c # r.client /\ Live(c) => sessions[c].token # r.token
  <1>1. Current(r) /\ CanStillResume(r.client)
    BY DEF Resume, CanResume, CanStillResume, Current
  <1>2. r.client \in Clients /\ r.token \in Tokens /\ r.token = sessions[r.client].token
    BY <1>1, CurrentToken DEF Current
  <1>3. resumes[r.token] = 0 \/ r.token \in strayed
    BY <1>1, <1>2 DEF ResumeInv, ResumableNotResumed
  <1>4. strayed \subseteq strayed' => ResumedAtMostOnce'
    BY <1>2, <1>3 DEF Resume, ServerTypes, HistoryTypeOK, ResumeInv, ResumedAtMostOnce
  <1>5. \A t \in Tokens : t # r.token =>
            resumes'[t] = resumes[t] /\ received'[t] = received[t]
    BY <1>2 DEF Resume, ServerTypes, HistoryTypeOK
  <1>6. Live(r.client) /\ r.token < fresh
    BY <1>1, <1>2 DEF CanStillResume, ResumeInv, TokensAreDrawn
  <1>7. \A c \in Clients : c # r.client /\ Live(c) => sessions[c].token # r.token
    BY <1>1, <1>2, <1>6 DEF ResumeInv, TokensDiffer
  <1> QED
    BY <1>1, <1>2, <1>3, <1>4, <1>5, <1>6, <1>7

LEMMA StartSessionResumeInv ==
    ASSUME ServerTypes, ResumeInv, NEW r \in Request, StartSession(r)
    PROVE  ResumeInv'
  <1> DEFINE c == r.client
             new == [token |-> fresh, preflight |-> TRUE, handler |-> "none",
                     pending |-> NoReceive, artifacts |-> {}]
  <1>1. c \in Clients /\ fresh \in Tokens /\ fresh' = fresh + 1 /\ fresh \in Nat
    BY BoundsAssumption DEF Request, StartSession, DrawToken, ServerTypes, ServerTypeOK
  <1>2. sessions'[c] = new /\ \A d \in Clients : d # c => sessions'[d] = sessions[d]
    BY <1>1 DEF StartSession, ServerTypes, ServerTypeOK
  <1>3. UNCHANGED <<resumes, received, strayed>>
    BY DEF StartSession
  <1>4. \A d \in Clients : Live(d) => sessions[d].token < fresh /\ sessions[d].token \in Nat
    BY LiveSession DEF ResumeInv, TokensAreDrawn, ServerTypes
  <1>5. TokensAreDrawn'
    BY <1>1, <1>2, <1>4 DEF TokensAreDrawn, Live
  <1>6. TokensDiffer'
    BY <1>1, <1>2, <1>4 DEF ResumeInv, TokensDiffer, Live
  <1>7. ResumableNotResumed'
    BY <1>1, <1>2, <1>3 DEF ResumeInv, ResumableNotResumed, FreshIsUnused, CanStillResume, Live
  <1>8. FreshIsUnused' /\ ResumedAtMostOnce'
    BY <1>1, <1>3 DEF ResumeInv, FreshIsUnused, ResumedAtMostOnce
  <1> QED
    BY <1>5, <1>6, <1>7, <1>8 DEF ResumeInv

LEMMA AwaitInstructionResumeInv ==
    ASSUME ServerTypes, ResumeInv, NEW r \in Request, NEW kind, NEW acquired,
           AwaitInstruction(r, kind, acquired)
    PROVE  ResumeInv'
  <1> DEFINE c == r.client
  <1>1. Resume(r) /\ strayed' = strayed
    BY DEF AwaitInstruction
  <1>2. c \in Clients /\ fresh \in Tokens /\ fresh' = fresh + 1 /\ fresh \in Nat
    BY <1>1, ResumeOnce, BoundsAssumption
    DEF AwaitInstruction, DrawToken, ServerTypes, ServerTypeOK
  <1>3. /\ sessions'[c].token = fresh /\ ~sessions'[c].preflight
        /\ \A d \in Clients : d # c => sessions'[d] = sessions[d]
    BY <1>2 DEF AwaitInstruction, ServerTypes, ServerTypeOK
  <1>4. \A d \in Clients : Live(d) => sessions[d].token < fresh /\ sessions[d].token \in Tokens
    BY LiveSession DEF ResumeInv, TokensAreDrawn, ServerTypes
  <1>5. TokensAreDrawn'
    BY <1>2, <1>3, <1>4 DEF TokensAreDrawn, Live
  <1>6. TokensDiffer'
    BY <1>2, <1>3, <1>4 DEF ResumeInv, TokensDiffer, Live
  <1>7. resumes'[fresh] = 0
    BY <1>1, <1>2, ResumeOnce DEF ResumeInv, FreshIsUnused
  <1>8. ResumableNotResumed'
    BY <1>1, <1>2, <1>3, <1>4, <1>7, ResumeOnce
    DEF ResumeInv, ResumableNotResumed, CanStillResume, Live
  <1>9. FreshIsUnused' /\ ResumedAtMostOnce'
    BY <1>1, <1>2, ResumeOnce DEF ResumeInv, FreshIsUnused
  <1> QED
    BY <1>5, <1>6, <1>8, <1>9 DEF ResumeInv

\* The two ways a handler ends: the session goes, or keeps its token with a dead handler.
LEMMA HandlerEndsResumeInv ==
    ASSUME ServerTypes, ResumeInv, NEW r \in Request, NEW acquired,
           \/ \E script : EndSession(r, script, acquired)
           \/ HandlerRaises(r, acquired)
    PROVE  ResumeInv'
  <1> DEFINE c == r.client
  <1>1. Resume(r) /\ fresh' = fresh /\ strayed' = strayed
    BY DEF EndSession, HandlerRaises, KeepSession
  <1>2. c \in Clients /\ sessions[c] \in Session
    BY <1>1, CurrentToken DEF Resume, CanResume
  <1>3. \A d \in Clients : d # c => sessions'[d] = sessions[d]
    BY <1>2 DEF EndSession, Discard, HandlerRaises, KeepSession, ServerTypes, ServerTypeOK
  <1>4. \/ sessions'[c] = NoSession
        \/ /\ sessions'[c].token = sessions[c].token
           /\ sessions'[c].preflight = FALSE
           /\ sessions'[c].handler = "dead"
    <2>1. CASE \E script : EndSession(r, script, acquired)
      BY <1>2, <2>1 DEF EndSession, Discard, ServerTypes, ServerTypeOK
    <2>2. CASE HandlerRaises(r, acquired)
      BY <1>2, <2>2 DEF HandlerRaises, KeepSession, Session, ServerTypes, ServerTypeOK
    <2> QED
      BY <2>1, <2>2
  <1>5. TokensAreDrawn'
    BY <1>1, <1>3, <1>4, ResumeOnce DEF ResumeInv, TokensAreDrawn, Live
  <1>6. TokensDiffer'
    BY <1>1, <1>3, <1>4, ResumeOnce DEF ResumeInv, TokensDiffer, Live
  <1>7. ResumableNotResumed'
    <2> SUFFICES ASSUME NEW d \in Clients, CanStillResume(d)'
                 PROVE  resumes'[sessions'[d].token] = 0 \/ sessions'[d].token \in strayed'
      BY DEF ResumableNotResumed
    <2>1. d # c
      BY <1>4 DEF CanStillResume, Live
    <2>2. CanStillResume(d) /\ sessions'[d].token = sessions[d].token
      BY <1>3, <2>1 DEF CanStillResume, Live
    <2>3. sessions[d].token \in Tokens /\ sessions[d].token # r.token
      BY <1>1, <2>1, <2>2, ResumeOnce, LiveSession DEF CanStillResume, ServerTypes
    <2> QED
      BY <1>1, <2>2, <2>3, ResumeOnce DEF ResumeInv, ResumableNotResumed
  <1>8. FreshIsUnused' /\ ResumedAtMostOnce'
    BY <1>1, ResumeOnce DEF ResumeInv, FreshIsUnused, ServerTypes, ServerTypeOK
  <1> QED
    BY <1>5, <1>6, <1>7, <1>8 DEF ResumeInv

\* A handler that goes astray: its session keeps the token, and with it the right to be
\* resumed, but the token is known to have strayed.
LEMMA HandlerStraysResumeInv ==
    ASSUME ServerTypes, ResumeInv, NEW r \in Request, NEW acquired, HandlerStrays(r, acquired)
    PROVE  ResumeInv'
  <1> DEFINE c == r.client
  <1>1. Resume(r) /\ fresh' = fresh /\ strayed' = strayed \cup {r.token}
    BY DEF HandlerStrays, KeepSession
  <1>2. c \in Clients /\ sessions[c] \in Session
    BY <1>1, CurrentToken DEF Resume, CanResume
  <1>3. \A d \in Clients : d # c => sessions'[d] = sessions[d]
    BY <1>2 DEF HandlerStrays, KeepSession, ServerTypes, ServerTypeOK
  <1>4. sessions'[c].token = sessions[c].token
    BY <1>2 DEF HandlerStrays, KeepSession, Session, ServerTypes, ServerTypeOK
  <1>5. TokensAreDrawn'
    BY <1>1, <1>3, <1>4, ResumeOnce DEF ResumeInv, TokensAreDrawn, Live
  <1>6. TokensDiffer'
    BY <1>1, <1>3, <1>4, ResumeOnce DEF ResumeInv, TokensDiffer, Live
  <1>7. ResumableNotResumed'
    <2> SUFFICES ASSUME NEW d \in Clients, CanStillResume(d)'
                 PROVE  resumes'[sessions'[d].token] = 0 \/ sessions'[d].token \in strayed'
      BY DEF ResumableNotResumed
    <2>1. CASE d = c
      BY <1>1, <1>4, <2>1, ResumeOnce
    <2>2. CASE d # c
      <3>1. CanStillResume(d) /\ sessions'[d].token = sessions[d].token
        BY <1>3, <2>2 DEF CanStillResume, Live
      <3>2. sessions[d].token \in Tokens /\ sessions[d].token # r.token
        BY <1>1, <2>2, <3>1, ResumeOnce, LiveSession DEF CanStillResume, ServerTypes
      <3> QED
        BY <1>1, <3>1, <3>2, ResumeOnce DEF ResumeInv, ResumableNotResumed
    <2> QED
      BY <2>1, <2>2
  <1>8. FreshIsUnused' /\ ResumedAtMostOnce'
    BY <1>1, ResumeOnce DEF ResumeInv, FreshIsUnused, ServerTypes, ServerTypeOK
  <1> QED
    BY <1>5, <1>6, <1>7, <1>8 DEF ResumeInv

\* An upload that is recorded touches nothing but the receive of its session.
LEMMA CloseUploadEffect ==
    ASSUME ServerTypes, NEW u \in uploads, NEW whole \in BOOLEAN, CloseUpload(u, whole)
    PROVE  /\ UNCHANGED <<attached, fresh, epoch, history>>
           /\ \A c \in Clients :
                 /\ Live(c) <=> sessions'[c] # NoSession
                 /\ Live(c) => /\ sessions'[c].token = sessions[c].token
                               /\ sessions'[c].preflight = sessions[c].preflight
                               /\ sessions'[c].handler = sessions[c].handler
                               /\ sessions'[c].artifacts = sessions[c].artifacts
                 /\ \/ sessions'[c] = sessions[c]
                    \/ /\ Live(c)
                       /\ sessions[c].pending # NoReceive
                       /\ sessions[c].pending.token = u.put.token
                       /\ sessions'[c].pending.token = u.put.token
                       /\ sessions'[c].pending.uploaded = [token |-> u.put.token, whole |-> whole]
  <1>1. UNCHANGED <<attached, fresh, epoch, history>>
    BY DEF CloseUpload
  <1>2. CASE u.epoch = epoch /\ Expected(u.put)
    <2> DEFINE c == u.put.client
               body == [token |-> u.put.token, whole |-> whole]
    <2>1. c \in Clients /\ Live(c) /\ sessions[c].pending # NoReceive
           /\ sessions[c].pending.token = u.put.token
      BY <1>2 DEF Expected, ServerTypes, ServerTypeOK, Put
    <2>2. sessions[c] \in Session /\ sessions[c].pending \in Pending
      BY <2>1, LiveSession DEF ServerTypes
    <2> DEFINE pending == [sessions[c].pending EXCEPT !.uploaded = body]
               after == [sessions[c] EXCEPT !.pending = pending]
    <2>3. sessions' = [sessions EXCEPT ![c] = after]
      BY <1>2 DEF CloseUpload
    <2>4. pending.token = u.put.token /\ pending.uploaded = body
      BY <2>1, <2>2 DEF Pending
    <2>5. /\ after.token = sessions[c].token
          /\ after.preflight = sessions[c].preflight
          /\ after.handler = sessions[c].handler
          /\ after.artifacts = sessions[c].artifacts
          /\ after.pending = pending
      BY <2>2 DEF Session
    <2>6. after # NoSession
      <3>1. u.put.token \in Tokens
        BY DEF ServerTypes, ServerTypeOK, Put
      <3>2. pending \in Pending
        BY <2>2, <3>1 DEF Pending, Body
      <3>3. after \in Session
        BY <2>2, <3>2 DEF Session
      <3> QED
        BY <3>3, NoSessionAssumption
    <2>7. sessions'[c] = after /\ \A d \in Clients : d # c => sessions'[d] = sessions[d]
      BY <2>1, <2>3 DEF ServerTypes, ServerTypeOK
    <2> HIDE DEF pending, after
    <2> QED
      BY <1>1, <2>1, <2>4, <2>5, <2>6, <2>7 DEF Live
  <1>3. CASE ~(u.epoch = epoch /\ Expected(u.put))
    BY <1>1, <1>3 DEF CloseUpload, Live
  <1> QED
    BY <1>2, <1>3

\* What a step of an upload changes of the sessions.
CloseAny == \E u \in uploads, whole \in BOOLEAN : CloseUpload(u, whole)

\* The steps of the server that answer no instruction and hand none out.
Quiet ==
    \/ \E r \in Request : RejectStale(r) \/ ResumeWithoutHandler(r)
    \/ \E put \in Put : OpenUpload(put) \/ RefuseUpload(put)
    \/ UNCHANGED <<serverVars, history>>

Shrinking ==
    \/ \E r \in Request : FailPreflight(r) \/ CreateHandlerRaises(r)
    \/ NewRuntime

LEMMA QuietEffect ==
    ASSUME Quiet
    PROVE  UNCHANGED <<sessions, attached, fresh, history>>
  BY DEF Quiet, RejectStale, ResumeWithoutHandler, OpenUpload, RefuseUpload, serverVars

LEMMA ShrinkingEffect ==
    ASSUME ServerTypes, Shrinking
    PROVE  /\ SessionsShrink
           /\ UNCHANGED <<fresh, history>>
           /\ \A c \in Clients : sessions'[c] # NoSession =>
                 /\ sessions'[c].pending = sessions[c].pending
                 /\ sessions'[c].artifacts = sessions[c].artifacts
  <1>1. ASSUME NEW r \in Request, FailPreflight(r)
        PROVE  \A c \in Clients : sessions'[c] \in {sessions[c], NoSession}
    BY <1>1 DEF FailPreflight, Discard, ServerTypes, ServerTypeOK, Request
  <1>2. ASSUME NEW r \in Request, CreateHandlerRaises(r)
        PROVE  \A c \in Clients :
                   \/ sessions'[c] = sessions[c]
                   \/ /\ CanStillResume(c)
                      /\ sessions'[c].token = sessions[c].token
                      /\ sessions'[c].pending = sessions[c].pending
                      /\ sessions'[c].artifacts = sessions[c].artifacts
    <2> DEFINE c == r.client
    <2>1. c \in Clients /\ Live(c) /\ sessions[c] \in Session /\ sessions[c].preflight
      BY <1>2, CurrentToken DEF CreateHandlerRaises, Current
    <2> DEFINE after == [sessions[c] EXCEPT !.preflight = FALSE]
    <2>2. sessions' = [sessions EXCEPT ![c] = after]
      BY <1>2 DEF CreateHandlerRaises
    <2>3. /\ after.token = sessions[c].token
          /\ after.pending = sessions[c].pending
          /\ after.artifacts = sessions[c].artifacts
      BY <2>1 DEF Session
    <2> HIDE DEF after
    <2> QED
      BY <2>1, <2>2, <2>3 DEF CanStillResume, ServerTypes, ServerTypeOK
  <1>3. ASSUME NewRuntime
        PROVE  \A c \in Clients : sessions'[c] = NoSession
    BY <1>3 DEF NewRuntime
  <1>4. UNCHANGED <<fresh, history>>
    BY DEF Shrinking, FailPreflight, CreateHandlerRaises, NewRuntime
  <1>5. CASE \E r \in Request : FailPreflight(r)
    BY <1>1, <1>4, <1>5 DEF SessionsShrink, CanStillResume, Live
  <1>6. CASE \E r \in Request : CreateHandlerRaises(r)
    BY <1>2, <1>4, <1>6 DEF SessionsShrink, CanStillResume, Live
  <1>7. CASE NewRuntime
    BY <1>3, <1>4, <1>7 DEF SessionsShrink
  <1> QED
    BY <1>5, <1>6, <1>7 DEF Shrinking

(***************************************************************************)
(* The next-state relation, as the proofs below take it apart.             *)
(***************************************************************************)
LEMMA NextCases ==
    ASSUME TypeInv, [Next]_vars
    PROVE  \/ Quiet
           \/ Shrinking
           \/ CloseAny
           \/ \E r \in Request : StartSession(r)
           \/ \E r \in Request, acquired \in SUBSET Artifacts :
                 \/ \E kind \in {"exec", "recv"} : AwaitInstruction(r, kind, acquired)
                 \/ \E script : EndSession(r, script, acquired)
                 \/ HandlerRaises(r, acquired)
                 \/ HandlerStrays(r, acquired)
  <1>1. wire \subseteq Request /\ puts \subseteq Put
    BY DEF TypeInv, TypeOK, LinkTypeOK
  <1>2. ASSUME NEW r \in wire, Handle(r)
        PROVE  \/ Quiet
               \/ Shrinking
               \/ StartSession(r)
               \/ \E acquired \in SUBSET Artifacts :
                     \/ \E kind \in {"exec", "recv"} : AwaitInstruction(r, kind, acquired)
                     \/ \E script : EndSession(r, script, acquired)
                     \/ HandlerRaises(r, acquired)
                     \/ HandlerStrays(r, acquired)
    <2>1. CASE RejectStale(r) \/ ResumeWithoutHandler(r)
      BY <1>1, <2>1 DEF Quiet
    <2>2. CASE FailPreflight(r) \/ CreateHandlerRaises(r)
      BY <1>1, <2>2 DEF Shrinking
    <2>3. CASE AcquireAndAdvance(r)
      BY <2>3 DEF AcquireAndAdvance, FinalInstruction, HandlerReturns
    <2> QED
      BY <1>2, <2>1, <2>2, <2>3 DEF Handle
  <1>3. ASSUME NEW put \in puts, HandlePut(put)
        PROVE  Quiet
    BY <1>1, <1>3 DEF HandlePut, Quiet
  <1>4. ASSUME NEW u \in uploads, FinishUpload(u) \/ AbortUpload(u)
        PROVE  CloseAny
    BY <1>4 DEF FinishUpload, AbortUpload, CloseAny
  <1>5. CASE Restart \/ Reload
    BY <1>5 DEF Restart, Reload, Shrinking
  <1>6. CASE UNCHANGED <<serverVars, history>>
    BY <1>6 DEF Quiet
  <1>7. CASE UNCHANGED vars
    BY <1>7 DEF vars, Quiet
  <1> QED
    BY <1>1, <1>2, <1>3, <1>4, <1>5, <1>6, <1>7 DEF Next, ServerStep, BoardStep
----
(***************************************************************************)
(* The invariant of resumption is inductive.                               *)
(***************************************************************************)
LEMMA InitResumeInv == Init => ResumeInv
  BY DEF Init, ServerInit, ResumeInv, TokensAreDrawn, TokensDiffer, ResumableNotResumed,
         CanStillResume, FreshIsUnused, ResumedAtMostOnce, Live

LEMMA NextResumeInv == TypeInv /\ ResumeInv /\ [Next]_vars => ResumeInv'
  <1> SUFFICES ASSUME TypeInv, ResumeInv, [Next]_vars PROVE ResumeInv'
    OBVIOUS
  <1>1. ServerTypes
    BY DEF TypeInv, TypeOK, ServerTypes
  <1>2. CASE Quiet
    <2>1. SessionsShrink /\ UNCHANGED <<fresh, history>>
      BY <1>2, QuietEffect DEF SessionsShrink, CanStillResume, Live
    <2> QED
      BY <2>1, ShrinkKeepsResumeInv DEF history
  <1>3. CASE Shrinking
    BY <1>1, <1>3, ShrinkingEffect, ShrinkKeepsResumeInv DEF history
  <1>4. CASE CloseAny
    <2>1. SessionsShrink /\ UNCHANGED <<fresh, history>>
      BY <1>1, <1>4, CloseUploadEffect DEF CloseAny, SessionsShrink, CanStillResume, Live
    <2> QED
      BY <2>1, ShrinkKeepsResumeInv DEF history
  <1>5. CASE \E r \in Request : StartSession(r)
    BY <1>1, <1>5, StartSessionResumeInv
  <1>6. ASSUME NEW r \in Request, NEW acquired \in SUBSET Artifacts,
               \E kind \in {"exec", "recv"} : AwaitInstruction(r, kind, acquired)
        PROVE  ResumeInv'
    BY <1>1, <1>6, AwaitInstructionResumeInv
  <1>7. ASSUME NEW r \in Request, NEW acquired \in SUBSET Artifacts,
               (\E script : EndSession(r, script, acquired)) \/ HandlerRaises(r, acquired)
        PROVE  ResumeInv'
    BY <1>1, <1>7, HandlerEndsResumeInv
  <1>8. ASSUME NEW r \in Request, NEW acquired \in SUBSET Artifacts, HandlerStrays(r, acquired)
        PROVE  ResumeInv'
    BY <1>1, <1>8, HandlerStraysResumeInv
  <1> QED
    BY <1>2, <1>3, <1>4, <1>5, <1>6, <1>7, <1>8, NextCases

(***************************************************************************)
(* A handler is resumed at most once for each script it sent, whatever the *)
(* link repeats and however often boards and server start over, except by  *)
(* a token under which it awaited something that is no script.             *)
(***************************************************************************)
THEOREM AtMostOnce == Spec => []ResumedAtMostOnce
  <1>1. Init => TypeInv /\ ResumeInv
    BY InitTypes, InitResumeInv
  <1>2. TypeInv /\ ResumeInv /\ [Next]_vars => (TypeInv /\ ResumeInv)'
    BY NextTypes, NextResumeInv
  <1>3. ResumeInv => ResumedAtMostOnce
    BY DEF ResumeInv
  <1> QED
    BY <1>1, <1>2, <1>3, PTL DEF Spec
----
(***************************************************************************)
(* The invariant of uploads is inductive, given that of resumption.        *)
(***************************************************************************)
LEMMA InitUploadInv == Init => UploadInv
  BY DEF Init, ServerInit, UploadInv, ReceiveIsCurrent, DeliveredIsOwnUpload, Live

LEMMA SameReceivesKeepUploadInv ==
    ASSUME UploadInv, UNCHANGED <<asked, received>>,
           \A c \in Clients : sessions'[c] # NoSession =>
               /\ Live(c)
               /\ sessions'[c].token = sessions[c].token
               /\ sessions'[c].pending \in {sessions[c].pending, NoReceive}
    PROVE  UploadInv'
  <1>1. ReceiveIsCurrent'
    BY DEF UploadInv, ReceiveIsCurrent, Live
  <1>2. DeliveredIsOwnUpload'
    BY DEF UploadInv, DeliveredIsOwnUpload
  <1> QED
    BY <1>1, <1>2 DEF UploadInv

\* What a resumption hands over was uploaded under the token that resumes.
LEMMA ResumeDelivers ==
    ASSUME ServerTypes, ResumeInv, UploadInv, NEW r \in Request, Resume(r),
           \A t \in Tokens : t < fresh => asked'[t] = asked[t]
    PROVE  DeliveredIsOwnUpload'
  <1> SUFFICES ASSUME NEW t \in Tokens, received'[t] # NoBody
               PROVE  received'[t].token = t /\ asked'[t] = "recv"
    BY DEF DeliveredIsOwnUpload
  <1>1. r.token \in Tokens /\ r.token < fresh /\ r.client \in Clients
         /\ Live(r.client) /\ r.token = sessions[r.client].token
    BY ResumeOnce
  <1>2. CASE t = r.token
    <2> DEFINE pending == sessions[r.client].pending
    <2>1. received'[t] = IF ReceivedValue(r) = NoBody THEN received[t] ELSE ReceivedValue(r)
      BY <1>1, <1>2 DEF Resume, ServerTypes, HistoryTypeOK
    <2>2. CASE ReceivedValue(r) = NoBody
      BY <1>1, <1>2, <2>1, <2>2 DEF UploadInv, DeliveredIsOwnUpload
    <2>3. CASE ReceivedValue(r) # NoBody
      <3>1. pending # NoReceive /\ received'[t] = pending.uploaded
        BY <1>2, <2>1, <2>3 DEF ReceivedValue
      <3>2. pending.token = r.token /\ asked[pending.token] = "recv"
             /\ pending.uploaded.token = pending.token
        BY <1>1, <3>1 DEF UploadInv, ReceiveIsCurrent
      <3> QED
        BY <1>1, <1>2, <3>1, <3>2
    <2> QED
      BY <2>2, <2>3
  <1>3. CASE t # r.token
    <2>1. received'[t] = received[t]
      BY <1>3, ResumeOnce
    <2>2. t < fresh
      BY <2>1 DEF ResumeInv, FreshIsUnused, ServerTypes, ServerTypeOK
    <2> QED
      BY <2>1, <2>2 DEF UploadInv, DeliveredIsOwnUpload
  <1> QED
    BY <1>2, <1>3

LEMMA CloseKeepsUploadInv ==
    ASSUME ServerTypes, UploadInv, NEW u \in uploads, NEW whole \in BOOLEAN,
           CloseUpload(u, whole)
    PROVE  UploadInv'
  <1>1. UNCHANGED <<asked, received>>
    BY CloseUploadEffect DEF history
  <1>2. DeliveredIsOwnUpload'
    BY <1>1 DEF UploadInv, DeliveredIsOwnUpload
  <1>3. ASSUME NEW c \in Clients, Live(c)', sessions'[c].pending # NoReceive
        PROVE  /\ sessions'[c].pending.token = sessions'[c].token
               /\ asked'[sessions'[c].pending.token] = "recv"
               /\ sessions'[c].pending.uploaded # NoBody =>
                     sessions'[c].pending.uploaded.token = sessions'[c].pending.token
    <2>1. Live(c) /\ sessions'[c].token = sessions[c].token
      BY <1>3, CloseUploadEffect DEF Live
    <2>2. CASE sessions'[c] = sessions[c]
      BY <1>1, <1>3, <2>1, <2>2 DEF UploadInv, ReceiveIsCurrent
    <2>3. CASE /\ sessions[c].pending # NoReceive
               /\ sessions[c].pending.token = u.put.token
               /\ sessions'[c].pending.token = u.put.token
               /\ sessions'[c].pending.uploaded = [token |-> u.put.token, whole |-> whole]
      BY <1>1, <2>1, <2>3 DEF UploadInv, ReceiveIsCurrent
    <2> QED
      BY <2>2, <2>3, CloseUploadEffect
  <1>4. ReceiveIsCurrent'
    BY <1>3 DEF ReceiveIsCurrent
  <1> QED
    BY <1>2, <1>4 DEF UploadInv

LEMMA StartSessionUploadInv ==
    ASSUME ServerTypes, ResumeInv, UploadInv, NEW r \in Request, StartSession(r)
    PROVE  UploadInv'
  <1> DEFINE c == r.client
  <1>1. c \in Clients /\ fresh \in Tokens
    BY BoundsAssumption DEF Request, StartSession, DrawToken, ServerTypes, ServerTypeOK
  <1>2. /\ sessions'[c].pending = NoReceive
        /\ \A d \in Clients : d # c => sessions'[d] = sessions[d]
    BY <1>1 DEF StartSession, ServerTypes, ServerTypeOK
  <1>3. \A t \in Tokens : t # fresh => asked'[t] = asked[t]
    BY <1>1 DEF StartSession, Issued, ServerTypes, HistoryTypeOK
  <1>4. received' = received
    BY DEF StartSession
  <1>5. ReceiveIsCurrent'
    <2> SUFFICES ASSUME NEW d \in Clients, Live(d)', sessions'[d].pending # NoReceive
                 PROVE  /\ sessions'[d].pending.token = sessions'[d].token
                        /\ asked'[sessions'[d].pending.token] = "recv"
                        /\ sessions'[d].pending.uploaded # NoBody =>
                              sessions'[d].pending.uploaded.token = sessions'[d].pending.token
      BY DEF ReceiveIsCurrent
    <2>1. sessions'[d] = sessions[d] /\ Live(d)
      BY <1>2 DEF Live
    <2>2. sessions[d].token \in Tokens /\ sessions[d].token # fresh
      BY <1>1, <2>1, LiveSession DEF ResumeInv, TokensAreDrawn, ServerTypes
    <2> QED
      BY <1>3, <2>1, <2>2 DEF UploadInv, ReceiveIsCurrent
  <1>6. DeliveredIsOwnUpload'
    BY <1>1, <1>3, <1>4 DEF UploadInv, DeliveredIsOwnUpload, ResumeInv, FreshIsUnused
  <1> QED
    BY <1>5, <1>6 DEF UploadInv

LEMMA AwaitInstructionUploadInv ==
    ASSUME ServerTypes, ResumeInv, UploadInv, NEW r \in Request,
           NEW kind \in {"exec", "recv"}, NEW acquired, AwaitInstruction(r, kind, acquired)
    PROVE  UploadInv'
  <1> DEFINE c == r.client
  <1>1. Resume(r)
    BY DEF AwaitInstruction
  <1>2. c \in Clients /\ fresh \in Tokens
    BY <1>1, ResumeOnce, BoundsAssumption
    DEF AwaitInstruction, DrawToken, ServerTypes, ServerTypeOK
  <1>3. /\ sessions'[c].token = fresh
        /\ sessions'[c].pending = NewReceive(kind)
        /\ \A d \in Clients : d # c => sessions'[d] = sessions[d]
    BY <1>2 DEF AwaitInstruction, ServerTypes, ServerTypeOK
  <1>4. asked'[fresh] = kind /\ \A t \in Tokens : t # fresh => asked'[t] = asked[t]
    BY <1>2 DEF AwaitInstruction, Issued, ServerTypes, HistoryTypeOK
  <1>5. ReceiveIsCurrent'
    <2> SUFFICES ASSUME NEW d \in Clients, Live(d)', sessions'[d].pending # NoReceive
                 PROVE  /\ sessions'[d].pending.token = sessions'[d].token
                        /\ asked'[sessions'[d].pending.token] = "recv"
                        /\ sessions'[d].pending.uploaded # NoBody =>
                              sessions'[d].pending.uploaded.token = sessions'[d].pending.token
      BY DEF ReceiveIsCurrent
    <2>1. CASE d = c
      BY <1>3, <1>4, <2>1 DEF NewReceive
    <2>2. CASE d # c
      <3>1. sessions'[d] = sessions[d] /\ Live(d)
        BY <1>3, <2>2 DEF Live
      <3>2. sessions[d].token \in Tokens /\ sessions[d].token # fresh
        BY <1>2, <3>1, LiveSession DEF ResumeInv, TokensAreDrawn, ServerTypes
      <3> QED
        BY <1>4, <3>1, <3>2 DEF UploadInv, ReceiveIsCurrent
    <2> QED
      BY <2>1, <2>2
  <1>6. DeliveredIsOwnUpload'
    BY <1>1, <1>2, <1>4, ResumeDelivers
  <1> QED
    BY <1>5, <1>6 DEF UploadInv

LEMMA HandlerEndsUploadInv ==
    ASSUME ServerTypes, ResumeInv, UploadInv, NEW r \in Request, NEW acquired,
           \/ \E script : EndSession(r, script, acquired)
           \/ \E handler : KeepSession(r, handler, acquired)
    PROVE  UploadInv'
  <1> DEFINE c == r.client
  <1>1. Resume(r) /\ asked' = asked
    BY DEF EndSession, KeepSession
  <1>2. c \in Clients /\ sessions[c] \in Session
    BY <1>1, CurrentToken DEF Resume, CanResume
  <1>3. /\ \A d \in Clients : d # c => sessions'[d] = sessions[d]
        /\ sessions'[c] = NoSession \/ sessions'[c].pending = NoReceive
    <2>1. CASE \E script : EndSession(r, script, acquired)
      BY <1>2, <2>1 DEF EndSession, Discard, ServerTypes, ServerTypeOK
    <2>2. ASSUME NEW handler, KeepSession(r, handler, acquired)
          PROVE  /\ \A d \in Clients : d # c => sessions'[d] = sessions[d]
                 /\ sessions'[c].pending = NoReceive
      BY <1>2, <2>2 DEF KeepSession, Session, ServerTypes, ServerTypeOK
    <2> QED
      BY <2>1, <2>2
  <1>4. ReceiveIsCurrent'
    BY <1>1, <1>3 DEF UploadInv, ReceiveIsCurrent, Live
  <1>5. DeliveredIsOwnUpload'
    BY <1>1, ResumeDelivers
  <1> QED
    BY <1>4, <1>5 DEF UploadInv

LEMMA NextUploadInv == TypeInv /\ ResumeInv /\ UploadInv /\ [Next]_vars => UploadInv'
  <1> SUFFICES ASSUME TypeInv, ResumeInv, UploadInv, [Next]_vars PROVE UploadInv'
    OBVIOUS
  <1>1. ServerTypes
    BY DEF TypeInv, TypeOK, ServerTypes
  <1>2. CASE Quiet
    BY <1>2, QuietEffect, SameReceivesKeepUploadInv DEF Live, history
  <1>3. CASE Shrinking
    BY <1>1, <1>3, ShrinkingEffect, SameReceivesKeepUploadInv DEF SessionsShrink, history
  <1>4. CASE CloseAny
    BY <1>1, <1>4, CloseKeepsUploadInv DEF CloseAny
  <1>5. CASE \E r \in Request : StartSession(r)
    BY <1>1, <1>5, StartSessionUploadInv
  <1>6. ASSUME NEW r \in Request, NEW acquired \in SUBSET Artifacts,
               \E kind \in {"exec", "recv"} : AwaitInstruction(r, kind, acquired)
        PROVE  UploadInv'
    BY <1>1, <1>6, AwaitInstructionUploadInv
  <1>7. ASSUME NEW r \in Request, NEW acquired \in SUBSET Artifacts,
               \/ \E script : EndSession(r, script, acquired)
               \/ HandlerRaises(r, acquired)
               \/ HandlerStrays(r, acquired)
        PROVE  UploadInv'
    BY <1>1, <1>7, HandlerEndsUploadInv DEF HandlerRaises, HandlerStrays
  <1> QED
    BY <1>2, <1>3, <1>4, <1>5, <1>6, <1>7, NextCases

(***************************************************************************)
(* The bytes exec_recv returns were uploaded under the token of its own    *)
(* script: never those of another receive, session or board, however late  *)
(* the file of a WRQ is closed.                                            *)
(***************************************************************************)
THEOREM OwnUpload == Spec => []DeliveredIsOwnUpload
  <1> DEFINE Inv == TypeInv /\ ResumeInv /\ UploadInv
  <1>1. Init => Inv
    BY InitTypes, InitResumeInv, InitUploadInv
  <1>2. Inv /\ [Next]_vars => Inv'
    BY NextTypes, NextResumeInv, NextUploadInv
  <1>3. Inv => DeliveredIsOwnUpload
    BY DEF UploadInv
  <1> QED
    BY <1>1, <1>2, <1>3, PTL DEF Spec
----
(***************************************************************************)
(* Download references, session by session.                                *)
(***************************************************************************)
Holds(c, a) == Live(c) /\ a \in sessions[c].artifacts

RefersTo == \A a \in Artifacts, c \in Clients : c \in attached[a] <=> Holds(c, a)

LEMMA RefersToMatches ==
    ASSUME ServerTypes
    PROVE  RefersTo <=> ReferencesMatchSessions
  <1>1. ASSUME RefersTo, NEW a \in Artifacts
        PROVE  attached[a] = {c \in Clients : Live(c) /\ a \in sessions[c].artifacts}
    BY <1>1 DEF RefersTo, Holds, ServerTypes, ServerTypeOK
  <1>2. ASSUME ReferencesMatchSessions, NEW a \in Artifacts, NEW c \in Clients
        PROVE  c \in attached[a] <=> Holds(c, a)
    BY <1>2 DEF ReferencesMatchSessions, Holds
  <1> QED
    BY <1>1, <1>2 DEF RefersTo, ReferencesMatchSessions

\* One session c changes its holdings from those it had to held.
LEMMA OneHolder ==
    ASSUME ServerTypes, RefersTo, NEW c \in Clients, NEW held,
           \A d \in Clients : d # c => sessions'[d] = sessions[d],
           \A a \in Artifacts : attached'[a] = IF a \in held THEN attached[a] \cup {c}
                                              ELSE attached[a] \ {c},
           \A a \in Artifacts : Holds(c, a)' <=> a \in held
    PROVE  RefersTo'
  <1> SUFFICES ASSUME NEW a \in Artifacts, NEW d \in Clients
               PROVE  d \in attached'[a] <=> Holds(d, a)'
    BY DEF RefersTo
  <1>1. CASE d = c
    BY <1>1
  <1>2. CASE d # c
    <2>1. Holds(d, a)' <=> Holds(d, a)
      BY <1>2 DEF Holds, Live
    <2>2. d \in attached'[a] <=> d \in attached[a]
      BY <1>2
    <2> QED
      BY <2>1, <2>2 DEF RefersTo
  <1> QED
    BY <1>1, <1>2

\* _discard_session, whatever the step acquired before it.
LEMMA DiscardReferences ==
    ASSUME ServerTypes, RefersTo, NEW c \in Clients, NEW held, Discard(c, held),
           Live(c) => sessions[c].artifacts \subseteq held
    PROVE  RefersTo'
  <1>1. /\ ~Live(c)'
        /\ \A d \in Clients : d # c => sessions'[d] = sessions[d]
    BY DEF Discard, Live, ServerTypes, ServerTypeOK
  <1> DEFINE none == {}
  <1>2. \A a \in Artifacts : attached'[a] = IF a \in none THEN attached[a] \cup {c}
                                            ELSE attached[a] \ {c}
    BY DEF Discard, Release, RefersTo, Holds
  <1>3. \A a \in Artifacts : Holds(c, a)' <=> a \in none
    BY <1>1 DEF Holds
  <1> HIDE DEF none
  <1> QED
    BY <1>1, <1>2, <1>3, OneHolder

\* acquire_download, by a session that stays.
LEMMA AttachReferences ==
    ASSUME ServerTypes, RefersTo, NEW c \in Clients, NEW acquired, Live(c), Live(c)',
           \A d \in Clients : d # c => sessions'[d] = sessions[d],
           sessions'[c].artifacts = sessions[c].artifacts \cup acquired,
           attached' = Attach(acquired, c)
    PROVE  RefersTo'
  <1> DEFINE held == sessions[c].artifacts \cup acquired
  <1>1. \A a \in Artifacts : attached'[a] = IF a \in held THEN attached[a] \cup {c}
                                            ELSE attached[a] \ {c}
    BY DEF Attach, RefersTo, Holds
  <1>2. \A a \in Artifacts : Holds(c, a)' <=> a \in held
    BY DEF Holds
  <1> QED
    BY <1>1, <1>2, OneHolder

LEMMA StartSessionReferences ==
    ASSUME ServerTypes, RefersTo, NEW r \in Request, StartSession(r)
    PROVE  RefersTo'
  <1> DEFINE c == r.client
             old == IF Live(c) THEN sessions[c].artifacts ELSE {}
  <1>1. c \in Clients
    BY DEF Request
  <1>2. /\ sessions'[c].artifacts = {}
        /\ \A d \in Clients : d # c => sessions'[d] = sessions[d]
    BY <1>1 DEF StartSession, ServerTypes, ServerTypeOK
  <1>3. \A a \in Artifacts : attached'[a] = attached[a] \ {c}
    BY <1>1 DEF StartSession, Release, RefersTo, Holds
  <1>4. \A a \in Artifacts : ~Holds(c, a)'
    BY <1>2 DEF Holds
  <1> QED
    BY <1>1, <1>2, <1>3, <1>4, OneHolder

LEMMA AwaitInstructionReferences ==
    ASSUME ServerTypes, RefersTo, NEW r \in Request, NEW kind \in {"exec", "recv"},
           NEW acquired \in SUBSET Artifacts, AwaitInstruction(r, kind, acquired)
    PROVE  RefersTo'
  <1> DEFINE c == r.client
  <1>1. c \in Clients /\ Live(c) /\ ServerTypes'
    BY CurrentToken, AwaitInstructionTypes DEF AwaitInstruction, Resume, CanResume, Current
  <1>2. /\ sessions'[c].artifacts = sessions[c].artifacts \cup acquired
        /\ \A d \in Clients : d # c => sessions'[d] = sessions[d]
    BY <1>1 DEF AwaitInstruction, ServerTypes, ServerTypeOK
  <1>3. Live(c)'
    <2> DEFINE after == [token |-> fresh, preflight |-> FALSE, handler |-> "parked",
                         pending |-> NewReceive(kind),
                         artifacts |-> sessions[c].artifacts \cup acquired]
    <2>1. fresh \in Tokens /\ sessions[c] \in Session
      BY <1>1, LiveSession, BoundsAssumption
      DEF AwaitInstruction, DrawToken, ServerTypes, ServerTypeOK
    <2>2. NewReceive(kind) \in Pending \cup {NoReceive}
      BY <2>1 DEF NewReceive, Pending
    <2>3. after \in Session
      BY <2>1, <2>2 DEF Session
    <2>4. sessions'[c] = after
      BY <1>1 DEF AwaitInstruction, ServerTypes, ServerTypeOK
    <2> QED
      BY <2>3, <2>4, NoSessionAssumption DEF Live
  <1>4. attached' = Attach(acquired, c)
    BY DEF AwaitInstruction
  <1> QED
    BY <1>1, <1>2, <1>3, <1>4, AttachReferences

LEMMA KeepSessionReferences ==
    ASSUME ServerTypes, RefersTo, NEW r \in Request, NEW handler \in {"parked", "dead"},
           NEW acquired \in SUBSET Artifacts, KeepSession(r, handler, acquired)
    PROVE  RefersTo'
  <1> DEFINE c == r.client
             after == [sessions[c] EXCEPT !.preflight = FALSE, !.handler = handler,
                                          !.pending = NoReceive,
                                          !.artifacts = sessions[c].artifacts \cup acquired]
  <1>1. c \in Clients /\ Live(c) /\ sessions[c] \in Session
    BY CurrentToken DEF KeepSession, Resume, CanResume, Current
  <1>2. sessions' = [sessions EXCEPT ![c] = after]
    BY DEF KeepSession
  <1>3. after \in Session /\ after.artifacts = sessions[c].artifacts \cup acquired
    BY <1>1 DEF Session
  <1> HIDE DEF after
  <1>4. sessions'[c] = after /\ \A d \in Clients : d # c => sessions'[d] = sessions[d]
    BY <1>1, <1>2 DEF ServerTypes, ServerTypeOK
  <1>5. Live(c)' /\ sessions'[c].artifacts = sessions[c].artifacts \cup acquired
    BY <1>3, <1>4, NoSessionAssumption DEF Live
  <1>6. attached' = Attach(acquired, c)
    BY DEF KeepSession
  <1> QED
    BY <1>1, <1>4, <1>5, <1>6, AttachReferences

LEMMA ShrinkingReferences ==
    ASSUME ServerTypes, RefersTo, Shrinking
    PROVE  RefersTo'
  <1>1. ASSUME NEW r \in Request, FailPreflight(r)
        PROVE  RefersTo'
    <2>1. r.client \in Clients
      BY DEF Request
    <2> QED
      BY <1>1, <2>1, DiscardReferences DEF FailPreflight
  <1>2. ASSUME NEW r \in Request, CreateHandlerRaises(r)
        PROVE  RefersTo'
    <2> DEFINE c == r.client
               after == [sessions[c] EXCEPT !.preflight = FALSE]
    <2>1. c \in Clients /\ Live(c) /\ sessions[c] \in Session
      BY <1>2, CurrentToken DEF CreateHandlerRaises, Current
    <2>2. sessions' = [sessions EXCEPT ![c] = after] /\ attached' = attached
      BY <1>2 DEF CreateHandlerRaises
    <2>3. after \in Session /\ after.artifacts = sessions[c].artifacts
      BY <2>1 DEF Session
    <2> HIDE DEF after
    <2>4. sessions'[c] = after /\ \A d \in Clients : d # c => sessions'[d] = sessions[d]
      BY <2>1, <2>2 DEF ServerTypes, ServerTypeOK
    <2>5. \A d \in Clients : Live(d)' <=> Live(d)
      BY <2>1, <2>3, <2>4, NoSessionAssumption DEF Live
    <2>6. \A d \in Clients : Live(d) => sessions'[d].artifacts = sessions[d].artifacts
      BY <2>3, <2>4
    <2> QED
      BY <2>2, <2>5, <2>6 DEF RefersTo, Holds
  <1>3. ASSUME NewRuntime
        PROVE  RefersTo'
    BY <1>3 DEF NewRuntime, RefersTo, Holds, Live
  <1> QED
    BY <1>1, <1>2, <1>3 DEF Shrinking

LEMMA NextReferences == TypeInv /\ RefersTo /\ [Next]_vars => RefersTo'
  <1> SUFFICES ASSUME TypeInv, RefersTo, [Next]_vars PROVE RefersTo'
    OBVIOUS
  <1>1. ServerTypes
    BY DEF TypeInv, TypeOK, ServerTypes
  <1>2. CASE Quiet
    BY <1>2, QuietEffect DEF RefersTo, Holds, Live
  <1>3. CASE Shrinking
    BY <1>1, <1>3, ShrinkingReferences
  <1>4. CASE CloseAny
    BY <1>1, <1>4, CloseUploadEffect DEF CloseAny, RefersTo, Holds, Live
  <1>5. CASE \E r \in Request : StartSession(r)
    BY <1>1, <1>5, StartSessionReferences
  <1>6. ASSUME NEW r \in Request, NEW acquired \in SUBSET Artifacts,
               \E kind \in {"exec", "recv"} : AwaitInstruction(r, kind, acquired)
        PROVE  RefersTo'
    BY <1>1, <1>6, AwaitInstructionReferences
  <1>7. ASSUME NEW r \in Request, NEW acquired \in SUBSET Artifacts, NEW script,
               EndSession(r, script, acquired)
        PROVE  RefersTo'
    <2>1. r.client \in Clients
      BY DEF Request
    <2>2. sessions[r.client].artifacts \subseteq sessions[r.client].artifacts \cup acquired
      OBVIOUS
    <2> QED
      BY <1>1, <1>7, <2>1, <2>2, DiscardReferences DEF EndSession
  <1>8. ASSUME NEW r \in Request, NEW acquired \in SUBSET Artifacts,
               HandlerRaises(r, acquired) \/ HandlerStrays(r, acquired)
        PROVE  RefersTo'
    BY <1>1, <1>8, KeepSessionReferences DEF HandlerRaises, HandlerStrays
  <1> QED
    BY <1>2, <1>3, <1>4, <1>5, <1>6, <1>7, <1>8, NextCases

(***************************************************************************)
(* The sessions attached to a download are exactly the live ones that hold *)
(* it, on every way a session can end, be replaced, or fail.               *)
(***************************************************************************)
THEOREM References == Spec => []ReferencesMatchSessions
  <1>1. Init => TypeInv /\ RefersTo
    <2>1. Init => RefersTo
      BY DEF Init, ServerInit, RefersTo, Holds, Live
    <2> QED
      BY <2>1, InitTypes
  <1>2. TypeInv /\ RefersTo /\ [Next]_vars => (TypeInv /\ RefersTo)'
    BY NextTypes, NextReferences
  <1>3. TypeInv /\ RefersTo => ReferencesMatchSessions
    BY RefersToMatches DEF TypeInv, TypeOK, ServerTypes
  <1> QED
    BY <1>1, <1>2, <1>3, PTL DEF Spec
====
