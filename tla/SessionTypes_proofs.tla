---- MODULE SessionTypes_proofs ----
(***************************************************************************)
(* Proofs about SessionSystem: type correctness.                           *)
(***************************************************************************)
EXTENDS SessionSystem, TLAPS

ServerTypes == ServerTypeOK /\ HistoryTypeOK

USE DEF Tokens, NoToken

(***************************************************************************)
(* The session of a live client is a Session, so its fields have types.    *)
(***************************************************************************)
LEMMA LiveSession ==
    ASSUME ServerTypeOK, NEW c \in Clients, Live(c)
    PROVE  /\ sessions[c] \in Session
           /\ sessions[c].token \in Tokens
           /\ sessions[c].preflight \in BOOLEAN
           /\ sessions[c].handler \in {"none", "parked", "dead"}
           /\ sessions[c].pending \in Pending \cup {NoReceive}
           /\ sessions[c].artifacts \in SUBSET Artifacts
  BY DEF ServerTypeOK, Live, Session

LEMMA StartSessionTypes ==
    ASSUME ServerTypes, NEW r \in Request, StartSession(r)
    PROVE  ServerTypes'
  <1> DEFINE c == r.client
  <1>1. c \in Clients
    BY DEF Request
  <1>2. fresh \in Tokens /\ fresh' \in 1 .. MaxToken + 1
    BY BoundsAssumption DEF StartSession, DrawToken, ServerTypes, ServerTypeOK
  <1>3. [token |-> fresh, preflight |-> TRUE, handler |-> "none",
         pending |-> NoReceive, artifacts |-> {}] \in Session
    BY <1>2 DEF Session
  <1>4. sessions' \in [Clients -> Session \cup {NoSession}]
    BY <1>1, <1>3 DEF StartSession, ServerTypes, ServerTypeOK
  <1>5. attached' \in [Artifacts -> SUBSET Clients]
    BY <1>1 DEF StartSession, Release, ServerTypes, ServerTypeOK
  <1>6. owner' \in [Tokens -> Clients \cup {NoSession}]
         /\ asked' \in [Tokens -> {"nothing", "probe", "exec", "recv"}]
    BY <1>1, <1>2 DEF StartSession, Issued, ServerTypes, HistoryTypeOK
  <1> QED
    BY <1>2, <1>4, <1>5, <1>6 DEF StartSession, ServerTypes, ServerTypeOK, HistoryTypeOK

LEMMA FailPreflightTypes ==
    ASSUME ServerTypes, NEW r \in Request, FailPreflight(r)
    PROVE  ServerTypes'
  <1>1. r.client \in Clients
    BY DEF Request
  <1>2. sessions' \in [Clients -> Session \cup {NoSession}]
    BY <1>1 DEF FailPreflight, Discard, ServerTypes, ServerTypeOK
  <1>3. attached' \in [Artifacts -> SUBSET Clients]
    BY <1>1 DEF FailPreflight, Discard, Release, ServerTypes, ServerTypeOK
  <1> QED
    BY <1>2, <1>3 DEF FailPreflight, history, ServerTypes, ServerTypeOK, HistoryTypeOK

LEMMA CreateHandlerRaisesTypes ==
    ASSUME ServerTypes, NEW r \in Request, CreateHandlerRaises(r)
    PROVE  ServerTypes'
  <1>1. r.client \in Clients /\ sessions[r.client] \in Session
    BY LiveSession DEF Request, ServerTypes, CreateHandlerRaises, Current
  <1>2. [sessions[r.client] EXCEPT !.preflight = FALSE] \in Session
    BY <1>1 DEF Session
  <1>3. sessions' \in [Clients -> Session \cup {NoSession}]
    BY <1>1, <1>2 DEF CreateHandlerRaises, ServerTypes, ServerTypeOK
  <1> QED
    BY <1>3 DEF CreateHandlerRaises, history, ServerTypes, ServerTypeOK, HistoryTypeOK

(***************************************************************************)
(* What a request carries over to the handler it resumes.                  *)
(***************************************************************************)
LEMMA ReceivedValueType ==
    ASSUME ServerTypes, NEW r \in Request, Current(r)
    PROVE  ReceivedValue(r) \in Body \cup {NoBody}
  <1>1. r.client \in Clients /\ sessions[r.client].pending \in Pending \cup {NoReceive}
    BY LiveSession DEF Request, ServerTypes, Current
  <1> QED
    BY <1>1 DEF ReceivedValue, Pending

LEMMA CurrentToken ==
    ASSUME ServerTypes, NEW r \in Request, Current(r)
    PROVE  r.client \in Clients /\ r.token \in Tokens /\ sessions[r.client] \in Session
  BY LiveSession DEF Request, ServerTypes, Current

LEMMA ResumeTypes ==
    ASSUME ServerTypes, NEW r \in Request, Resume(r)
    PROVE  /\ resumes' \in [Tokens -> Nat]
           /\ received' \in [Tokens -> Body \cup {NoBody}]
           /\ uploads' = uploads
           /\ epoch' = epoch
  <1>1. Current(r)
    BY DEF Resume, CanResume
  <1>2. r.token \in Tokens
    BY <1>1, CurrentToken
  <1>3. resumes[r.token] + 1 \in Nat
    BY <1>2 DEF ServerTypes, HistoryTypeOK
  <1> QED
    BY <1>1, <1>2, <1>3, ReceivedValueType DEF Resume, ServerTypes, HistoryTypeOK

LEMMA AwaitInstructionTypes ==
    ASSUME ServerTypes, NEW r \in Request, NEW kind \in {"exec", "recv"},
           NEW acquired \in SUBSET Artifacts, AwaitInstruction(r, kind, acquired)
    PROVE  ServerTypes'
  <1> DEFINE c == r.client
  <1>1. Resume(r) /\ Current(r)
    BY DEF AwaitInstruction, Resume, CanResume
  <1>2. c \in Clients /\ sessions[c] \in Session
    BY <1>1, CurrentToken
  <1>3. fresh \in Tokens /\ fresh' \in 1 .. MaxToken + 1
    BY BoundsAssumption DEF AwaitInstruction, DrawToken, ServerTypes, ServerTypeOK
  <1>4. NewReceive(kind) \in Pending \cup {NoReceive}
    BY <1>3 DEF NewReceive, Pending
  <1>5. [token |-> fresh, preflight |-> FALSE, handler |-> "parked",
         pending |-> NewReceive(kind),
         artifacts |-> sessions[c].artifacts \cup acquired] \in Session
    BY <1>2, <1>3, <1>4 DEF Session
  <1>6. sessions' \in [Clients -> Session \cup {NoSession}]
    BY <1>2, <1>5 DEF AwaitInstruction, ServerTypes, ServerTypeOK
  <1>7. attached' \in [Artifacts -> SUBSET Clients]
    BY <1>2 DEF AwaitInstruction, Attach, ServerTypes, ServerTypeOK
  <1>8. owner' \in [Tokens -> Clients \cup {NoSession}]
         /\ asked' \in [Tokens -> {"nothing", "probe", "exec", "recv"}]
    BY <1>2, <1>3 DEF AwaitInstruction, Issued, ServerTypes, HistoryTypeOK
  <1> QED
    BY <1>1, <1>3, <1>6, <1>7, <1>8, ResumeTypes
    DEF AwaitInstruction, ServerTypes, ServerTypeOK, HistoryTypeOK

LEMMA EndSessionTypes ==
    ASSUME ServerTypes, NEW r \in Request, NEW script,
           NEW acquired \in SUBSET Artifacts, EndSession(r, script, acquired)
    PROVE  ServerTypes'
  <1>1. Resume(r) /\ Current(r)
    BY DEF EndSession, Resume, CanResume
  <1>2. r.client \in Clients
    BY <1>1, CurrentToken
  <1>3. sessions' \in [Clients -> Session \cup {NoSession}]
    BY <1>2 DEF EndSession, Discard, ServerTypes, ServerTypeOK
  <1>4. attached' \in [Artifacts -> SUBSET Clients]
    BY <1>2 DEF EndSession, Discard, Release, ServerTypes, ServerTypeOK
  <1> QED
    BY <1>1, <1>3, <1>4, ResumeTypes DEF EndSession, ServerTypes, ServerTypeOK, HistoryTypeOK

LEMMA KeepSessionTypes ==
    ASSUME ServerTypes, NEW r \in Request, NEW handler \in {"parked", "dead"},
           NEW acquired \in SUBSET Artifacts, KeepSession(r, handler, acquired),
           strayed' \subseteq strayed \cup {r.token}
    PROVE  ServerTypes'
  <1> DEFINE c == r.client
             after == [sessions[c] EXCEPT !.preflight = FALSE, !.handler = handler,
                                          !.pending = NoReceive,
                                          !.artifacts = sessions[c].artifacts \cup acquired]
  <1>1. Resume(r) /\ Current(r)
    BY DEF KeepSession, Resume, CanResume
  <1>2. c \in Clients /\ r.token \in Tokens /\ sessions[c] \in Session
    BY <1>1, CurrentToken
  <1>3. after \in Session
    BY <1>2 DEF Session
  <1>4. sessions' = [sessions EXCEPT ![c] = after]
    BY DEF KeepSession
  <1>5. sessions' \in [Clients -> Session \cup {NoSession}]
    BY <1>2, <1>3, <1>4 DEF ServerTypes, ServerTypeOK
  <1>6. attached' \in [Artifacts -> SUBSET Clients]
    BY <1>2 DEF KeepSession, Attach, ServerTypes, ServerTypeOK
  <1>7. strayed' \subseteq Tokens
    BY <1>2 DEF ServerTypes, HistoryTypeOK
  <1> QED
    BY <1>1, <1>5, <1>6, <1>7, ResumeTypes DEF KeepSession, ServerTypes, ServerTypeOK, HistoryTypeOK

LEMMA HandlerFailsTypes ==
    ASSUME ServerTypes, NEW r \in Request, NEW acquired \in SUBSET Artifacts,
           HandlerRaises(r, acquired) \/ HandlerStrays(r, acquired)
    PROVE  ServerTypes'
  BY KeepSessionTypes DEF HandlerRaises, HandlerStrays

(***************************************************************************)
(* The steps of an upload.                                                 *)
(***************************************************************************)
LEMMA HandlePutTypes ==
    ASSUME ServerTypes, NEW put \in Put, OpenUpload(put) \/ RefuseUpload(put)
    PROVE  ServerTypes'
  <1>1. CASE OpenUpload(put)
    <2>1. [put |-> put, epoch |-> epoch] \in [put: Put, epoch: 0 .. MaxRestarts]
      BY DEF ServerTypes, ServerTypeOK
    <2> QED
      BY <1>1, <2>1 DEF OpenUpload, history, ServerTypes, ServerTypeOK, HistoryTypeOK
  <1>2. CASE RefuseUpload(put)
    BY <1>2 DEF RefuseUpload, serverVars, history, ServerTypes, ServerTypeOK, HistoryTypeOK
  <1> QED
    BY <1>1, <1>2

LEMMA CloseUploadTypes ==
    ASSUME ServerTypes, NEW u \in uploads, NEW whole \in BOOLEAN, CloseUpload(u, whole)
    PROVE  ServerTypes'
  <1> DEFINE c == u.put.client
             body == [token |-> u.put.token, whole |-> whole]
  <1>1. u.put \in Put /\ c \in Clients
    BY DEF ServerTypes, ServerTypeOK, Put
  <1>2. body \in Body
    BY <1>1 DEF Body, Put
  <1>3. sessions' \in [Clients -> Session \cup {NoSession}]
    <2>1. CASE u.epoch = epoch /\ Expected(u.put)
      <3>1. sessions[c] \in Session /\ sessions[c].pending \in Pending
        BY <1>1, <2>1, LiveSession DEF Expected, ServerTypes
      <3>2. [sessions[c].pending EXCEPT !.uploaded = body] \in Pending
        BY <1>2, <3>1 DEF Pending
      <3>3. [sessions[c] EXCEPT !.pending = [sessions[c].pending EXCEPT !.uploaded = body]] \in Session
        BY <3>1, <3>2 DEF Session
      <3>4. sessions' = [sessions EXCEPT ![c] =
                            [sessions[c] EXCEPT !.pending =
                                [sessions[c].pending EXCEPT !.uploaded = body]]]
        BY <2>1 DEF CloseUpload
      <3> QED
        BY <1>1, <3>3, <3>4 DEF ServerTypes, ServerTypeOK
    <2>2. CASE ~(u.epoch = epoch /\ Expected(u.put))
      BY <2>2 DEF CloseUpload, ServerTypes, ServerTypeOK
    <2> QED
      BY <2>1, <2>2
  <1> QED
    BY <1>3 DEF CloseUpload, history, ServerTypes, ServerTypeOK, HistoryTypeOK

LEMMA NewRuntimeTypes ==
    ASSUME ServerTypes, Restart \/ Reload
    PROVE  ServerTypes'
  <1>1. ServerTypeOK'
    BY NullsAssumption DEF Restart, Reload, NewRuntime, ServerTypes, ServerTypeOK
  <1>2. HistoryTypeOK'
    BY DEF Restart, Reload, NewRuntime, history, ServerTypes, HistoryTypeOK
  <1> QED
    BY <1>1, <1>2 DEF ServerTypes

(***************************************************************************)
(* The link.                                                               *)
(***************************************************************************)
LEMMA WithoutSubset ==
    ASSUME NEW packets, NEW p
    PROVE  Without(packets, p) \subseteq packets
  BY DEF Without

LEMMA AnswerTypes ==
    ASSUME LinkTypeOK, NEW r \in Request, NEW script \in Script, Answer(r, script)
    PROVE  LinkTypeOK'
  <1>1. r.client \in Clients
    BY DEF Request
  <1>2. answers' \in [Clients -> SUBSET Script]
    BY <1>1 DEF Answer, LinkTypeOK
  <1> QED
    BY <1>2, WithoutSubset DEF Answer, LinkTypeOK

LEMMA NoAnswerTypes ==
    ASSUME LinkTypeOK, NEW r, NoAnswer(r)
    PROVE  LinkTypeOK'
  BY WithoutSubset DEF NoAnswer, LinkTypeOK

LEMMA OpenTypes ==
    ASSUME LinkTypeOK, NEW c \in Clients, NEW r \in Request, Open(c, r)
    PROVE  LinkTypeOK'
  BY DEF Open, LinkTypeOK

LEMMA CloseTypes ==
    ASSUME LinkTypeOK, NEW c \in Clients, Close(c)
    PROVE  LinkTypeOK'
  BY DEF Close, LinkTypeOK

LEMMA ContinuationType ==
    ASSUME ServerTypes, fresh <= MaxToken, NEW kind \in {"probe", "exec", "recv"}
    PROVE  Continuation(kind) \in Script
  BY BoundsAssumption DEF Continuation, Script, ServerTypes, ServerTypeOK

LEMMA HandleTypes ==
    ASSUME LinkTypeOK, ServerTypes, NEW r \in Request, Handle(r)
    PROVE  LinkTypeOK' /\ ServerTypes'
  <1>1. [kind |-> "miss", token |-> NoToken] \in Script
         /\ [kind |-> "final", token |-> NoToken] \in Script
    BY DEF Script
  <1>2. CASE StartSession(r)
    <2>1. Continuation("probe") \in Script
      BY <1>2, ContinuationType DEF StartSession, DrawToken
    <2> QED
      BY <1>2, <2>1, AnswerTypes, StartSessionTypes DEF StartSession
  <1>3. CASE RejectStale(r)
    <2>1. ServerTypes'
      BY <1>3 DEF RejectStale, serverVars, history, ServerTypes, ServerTypeOK, HistoryTypeOK
    <2> QED
      BY <1>1, <1>3, <2>1, AnswerTypes DEF RejectStale
  <1>4. CASE FailPreflight(r)
    BY <1>1, <1>4, AnswerTypes, FailPreflightTypes DEF FailPreflight
  <1>5. CASE CreateHandlerRaises(r)
    BY <1>1, <1>5, AnswerTypes, NoAnswerTypes, CreateHandlerRaisesTypes
    DEF CreateHandlerRaises, AnswerException
  <1>6. CASE ResumeWithoutHandler(r)
    <2>1. ServerTypes'
      BY <1>6 DEF ResumeWithoutHandler, serverVars, history, ServerTypes, ServerTypeOK, HistoryTypeOK
    <2> QED
      BY <1>1, <1>6, <2>1, AnswerTypes, NoAnswerTypes DEF ResumeWithoutHandler
  <1>7. CASE AcquireAndAdvance(r)
    <2>1. PICK acquired \in SUBSET Artifacts :
              \/ \E kind \in {"exec", "recv"} : AwaitInstruction(r, kind, acquired)
              \/ FinalInstruction(r, acquired)
              \/ HandlerReturns(r, acquired)
              \/ HandlerRaises(r, acquired)
              \/ HandlerStrays(r, acquired)
      BY <1>7 DEF AcquireAndAdvance
    <2>2. ASSUME NEW kind \in {"exec", "recv"}, AwaitInstruction(r, kind, acquired)
          PROVE  LinkTypeOK' /\ ServerTypes'
      <3>1. Continuation(kind) \in Script
        BY <2>2, ContinuationType DEF AwaitInstruction, DrawToken
      <3> QED
        BY <2>2, <3>1, AnswerTypes, AwaitInstructionTypes DEF AwaitInstruction
    <2>3. ASSUME NEW script \in Script, EndSession(r, script, acquired)
          PROVE  LinkTypeOK' /\ ServerTypes'
      BY <2>3, AnswerTypes, EndSessionTypes DEF EndSession
    <2>4. CASE HandlerRaises(r, acquired) \/ HandlerStrays(r, acquired)
      BY <1>1, <2>4, AnswerTypes, NoAnswerTypes, HandlerFailsTypes
      DEF HandlerRaises, HandlerStrays, AnswerException
    <2> QED
      BY <1>1, <2>1, <2>2, <2>3, <2>4 DEF FinalInstruction, HandlerReturns
  <1> QED
    BY <1>2, <1>3, <1>4, <1>5, <1>6, <1>7 DEF Handle

(***************************************************************************)
(* TypeOK alone is not inductive: a board puts its token into the requests *)
(* it sends, so the scripts under way to it must carry one, and the number *)
(* of its boot, which is 0 only before the first.                          *)
(***************************************************************************)
ScriptsHaveTokens ==
    \A c \in Clients : \A script \in answers[c] :
        script.kind \in {"probe", "exec", "recv"} => script.token # NoToken

BoardsAreOn ==
    \A c \in Clients :
        /\ board[c].mode # "off" => board[c].boot # 0
        /\ board[c].mode \in {"running", "putting"} => board[c].token # NoToken

TypeInv == TypeOK /\ ScriptsHaveTokens /\ BoardsAreOn

LEMMA AnswerKeepsTokens ==
    ASSUME ScriptsHaveTokens, LinkTypeOK, NEW r \in Request, NEW script \in Script,
           script.kind \in {"probe", "exec", "recv"} => script.token # NoToken,
           Answer(r, script)
    PROVE  ScriptsHaveTokens'
  <1> SUFFICES ASSUME NEW c \in Clients, NEW s \in answers'[c],
                      s.kind \in {"probe", "exec", "recv"}
               PROVE  s.token # NoToken
    BY DEF ScriptsHaveTokens
  <1>1. s \in answers[c] \/ s = script
    BY DEF Answer, LinkTypeOK
  <1> QED
    BY <1>1 DEF ScriptsHaveTokens

LEMMA ContinuationToken ==
    ASSUME ServerTypes, NEW kind \in {"probe", "exec", "recv"}
    PROVE  Continuation(kind).token # NoToken
  BY BoundsAssumption DEF Continuation, ServerTypes, ServerTypeOK

LEMMA HandleKeepsTokens ==
    ASSUME LinkTypeOK, ServerTypes, ScriptsHaveTokens, NEW r \in Request, Handle(r)
    PROVE  ScriptsHaveTokens'
  <1>1. ASSUME NEW kind \in {"miss", "final"}, Answer(r, [kind |-> kind, token |-> NoToken])
        PROVE  ScriptsHaveTokens'
    <2>1. [kind |-> kind, token |-> NoToken] \in Script
      BY DEF Script
    <2> QED
      BY <1>1, <2>1, AnswerKeepsTokens
  <1>2. ASSUME NEW kind \in {"probe", "exec", "recv"}, DrawToken, Answer(r, Continuation(kind))
        PROVE  ScriptsHaveTokens'
    <2>1. Continuation(kind) \in Script
      BY <1>2, ContinuationType DEF DrawToken
    <2> QED
      BY <1>2, <2>1, AnswerKeepsTokens, ContinuationToken
  <1>3. ASSUME NoAnswer(r)
        PROVE  ScriptsHaveTokens'
    BY <1>3 DEF NoAnswer, ScriptsHaveTokens
  <1>4. CASE StartSession(r)
    BY <1>2, <1>4 DEF StartSession
  <1>5. CASE RejectStale(r) \/ FailPreflight(r)
    BY <1>1, <1>5 DEF RejectStale, FailPreflight
  <1>6. CASE CreateHandlerRaises(r) \/ ResumeWithoutHandler(r)
    BY <1>1, <1>3, <1>6 DEF CreateHandlerRaises, AnswerException, ResumeWithoutHandler
  <1>7. CASE AcquireAndAdvance(r)
    <2>1. PICK acquired \in SUBSET Artifacts :
              \/ \E kind \in {"exec", "recv"} : AwaitInstruction(r, kind, acquired)
              \/ FinalInstruction(r, acquired)
              \/ HandlerReturns(r, acquired)
              \/ HandlerRaises(r, acquired)
              \/ HandlerStrays(r, acquired)
      BY <1>7 DEF AcquireAndAdvance
    <2>2. ASSUME NEW kind \in {"exec", "recv"}, AwaitInstruction(r, kind, acquired)
          PROVE  ScriptsHaveTokens'
      BY <1>2, <2>2 DEF AwaitInstruction
    <2>3. CASE FinalInstruction(r, acquired) \/ HandlerReturns(r, acquired)
      BY <1>1, <2>3 DEF FinalInstruction, HandlerReturns, EndSession
    <2>4. CASE HandlerRaises(r, acquired) \/ HandlerStrays(r, acquired)
      BY <1>1, <1>3, <2>4 DEF HandlerRaises, HandlerStrays, AnswerException
    <2> QED
      BY <2>1, <2>2, <2>3, <2>4
  <1> QED
    BY <1>4, <1>5, <1>6, <1>7 DEF Handle

(***************************************************************************)
(* The boards.                                                             *)
(***************************************************************************)
BoardSide == LinkTypeOK /\ BoardTypeOK /\ ScriptsHaveTokens /\ BoardsAreOn

LEMMA AskTypes ==
    ASSUME BoardSide, NEW c \in Clients, NEW report \in Reports,
           board[c].mode # "off", Ask(c, report)
    PROVE  BoardSide'
  <1>1. [client |-> c, boot |-> board[c].boot, token |-> board[c].token,
         report |-> report] \in Request
    BY BoundsAssumption DEF BoardSide, Request, BoardTypeOK, BoardState, BoardsAreOn
  <1>2. LinkTypeOK'
    BY <1>1, OpenTypes DEF Ask, BoardSide
  <1>3. BoardTypeOK' /\ BoardsAreOn'
    BY DEF Ask, BoardSide, BoardTypeOK, BoardState, Modes, BoardsAreOn
  <1>4. ScriptsHaveTokens'
    BY DEF Ask, Open, BoardSide, LinkTypeOK, ScriptsHaveTokens
  <1> QED
    BY <1>2, <1>3, <1>4 DEF BoardSide

LEMMA BootTypes ==
    ASSUME BoardSide, NEW c \in Clients, Boot(c)
    PROVE  BoardSide'
  <1>1. board[c].boot + 1 \in 1 .. MaxBoots
    BY BoundsAssumption DEF Boot, BoardSide, BoardTypeOK, BoardState
  <1>2. [client |-> c, boot |-> board[c].boot + 1, token |-> NoToken,
         report |-> "start"] \in Request
    BY <1>1 DEF Request, Reports
  <1>3. LinkTypeOK'
    BY <1>2, OpenTypes DEF Boot, BoardSide
  <1>4. board' = [board EXCEPT ![c] =
            [mode |-> "waiting", boot |-> board[c].boot + 1, token |-> NoToken,
             kind |-> "none", attempt |-> 0, acked |-> FALSE]]
    BY DEF Boot
  <1>5. BoardTypeOK'
    BY <1>1, <1>4, BoundsAssumption DEF BoardSide, BoardTypeOK, BoardState, Modes
  <1>6. BoardsAreOn'
    BY <1>1, <1>4 DEF BoardSide, BoardTypeOK, BoardsAreOn
  <1>7. ScriptsHaveTokens'
    BY DEF Boot, Open, BoardSide, LinkTypeOK, ScriptsHaveTokens
  <1> QED
    BY <1>3, <1>5, <1>6, <1>7 DEF BoardSide

LEMMA CloseKeepsTokens ==
    ASSUME BoardSide, NEW c \in Clients, Close(c)
    PROVE  LinkTypeOK' /\ ScriptsHaveTokens'
  BY CloseTypes DEF Close, BoardSide, LinkTypeOK, ScriptsHaveTokens

LEMMA ReceiveTypes ==
    ASSUME BoardSide, NEW c \in Clients, NEW script \in answers[c], Receive(c, script)
    PROVE  BoardSide'
  <1>1. script \in Script
    BY DEF BoardSide, LinkTypeOK
  <1>2. LinkTypeOK' /\ ScriptsHaveTokens'
    BY CloseKeepsTokens DEF Receive
  <1>3. board[c] \in BoardState /\ board[c].boot # 0
    BY DEF Receive, BoardSide, BoardTypeOK, BoardsAreOn
  <1>4. CASE script.kind \in {"miss", "final"}
    <2>1. PICK mode \in {"stopped", "done"} :
              board' = [board EXCEPT ![c] = [board[c] EXCEPT !.mode = mode]]
      BY <1>4 DEF Receive
    <2>2. BoardTypeOK' /\ BoardsAreOn'
      BY <1>3, <2>1 DEF BoardSide, BoardTypeOK, BoardState, Modes, BoardsAreOn
    <2> QED
      BY <1>2, <2>2 DEF BoardSide
  <1>5. CASE script.kind \in {"probe", "exec", "recv"}
    <2>1. board' = [board EXCEPT ![c] =
              [board[c] EXCEPT !.mode = "running", !.token = script.token,
                               !.kind = script.kind, !.attempt = 0, !.acked = FALSE]]
      BY <1>5 DEF Receive
    <2>2. script.token # NoToken
      BY <1>5 DEF BoardSide, ScriptsHaveTokens
    <2> DEFINE after ==
            [board[c] EXCEPT !.mode = "running", !.token = script.token,
                             !.kind = script.kind, !.attempt = 0, !.acked = FALSE]
    <2>3. after \in BoardState /\ after.boot = board[c].boot /\ after.token = script.token
      <3>1. script.token \in Tokens \cup {NoToken}
        BY <1>1 DEF Script
      <3>2. 0 \in 0 .. MaxPuts
        BY BoundsAssumption
      <3> QED
        BY <1>3, <1>5, <3>1, <3>2 DEF BoardState, Modes
    <2>4. board' = [board EXCEPT ![c] = after]
      BY <2>1
    <2> HIDE DEF after
    <2>5. BoardTypeOK'
      BY <2>3, <2>4 DEF BoardSide, BoardTypeOK
    <2>6. BoardsAreOn'
      BY <1>3, <2>2, <2>3, <2>4 DEF BoardSide, BoardTypeOK, BoardsAreOn
    <2> QED
      BY <1>2, <2>5, <2>6 DEF BoardSide
  <1> QED
    BY <1>1, <1>4, <1>5 DEF Script

LEMMA StartPutTypes ==
    ASSUME BoardSide, NEW c \in Clients, StartPut(c)
    PROVE  BoardSide'
  <1>1. board[c] \in BoardState /\ board[c].token \in Tokens
         /\ board[c].attempt + 1 \in 1 .. MaxPuts
    BY BoundsAssumption DEF StartPut, BoardSide, BoardTypeOK, BoardState, BoardsAreOn
  <1>2. [client |-> c, token |-> board[c].token, attempt |-> board[c].attempt + 1] \in Put
    BY <1>1 DEF Put
  <1>3. LinkTypeOK' /\ ScriptsHaveTokens'
    BY <1>2 DEF StartPut, PutOf, BoardSide, LinkTypeOK, ScriptsHaveTokens
  <1> DEFINE next == board[c].attempt + 1
             after == [board[c] EXCEPT !.mode = "putting", !.attempt = next, !.acked = FALSE]
  <1>4. after \in BoardState /\ after.boot = board[c].boot /\ after.token = board[c].token
    <2>1. next \in 0 .. MaxPuts
      BY <1>1, BoundsAssumption
    <2> HIDE DEF next
    <2> QED
      BY <1>1, <2>1 DEF BoardState, Modes
  <1>5. board' = [board EXCEPT ![c] = after]
    BY DEF StartPut
  <1> HIDE DEF after
  <1>6. board[c].boot # 0
    BY DEF StartPut, BoardSide, BoardsAreOn
  <1>7. BoardTypeOK'
    BY <1>4, <1>5 DEF BoardSide, BoardTypeOK
  <1>8. BoardsAreOn'
    BY <1>1, <1>4, <1>5, <1>6 DEF BoardSide, BoardTypeOK, BoardsAreOn
  <1> QED
    BY <1>3, <1>7, <1>8 DEF BoardSide

LEMMA BoardStepTypes ==
    ASSUME BoardSide, NEW c \in Clients, BoardStep(c)
    PROVE  BoardSide'
  <1>1. CASE \E script \in answers[c] : Receive(c, script)
    BY <1>1, ReceiveTypes
  <1>2. CASE TimeOut(c)
    <2>1. BoardTypeOK' /\ BoardsAreOn'
      BY <1>2 DEF TimeOut, BoardSide, BoardTypeOK, BoardState, Modes, BoardsAreOn
    <2> QED
      BY <1>2, <2>1, CloseKeepsTokens DEF TimeOut, BoardSide
  <1>3. CASE Continue(c)
    BY <1>3, AskTypes DEF Continue, Reports
  <1>4. CASE StartPut(c)
    BY <1>4, StartPutTypes
  <1>5. CASE PutSucceeds(c)
    BY <1>5, AskTypes DEF PutSucceeds, Reports
  <1>6. CASE PutFails(c, UnderWay(c))
    BY <1>6, AskTypes DEF PutFails, Reports
  <1> QED
    BY <1>1, <1>2, <1>3, <1>4, <1>5, <1>6 DEF BoardStep

LEMMA AcknowledgeTypes ==
    ASSUME BoardTypeOK, BoardsAreOn, NEW c \in Clients, Acknowledge(c)
    PROVE  BoardTypeOK' /\ BoardsAreOn'
  BY DEF Acknowledge, BoardTypeOK, BoardState, BoardsAreOn
----
(***************************************************************************)
(* Type correctness.                                                       *)
(***************************************************************************)
LEMMA InitTypes == Init => TypeInv
  <1> SUFFICES ASSUME Init PROVE TypeInv
    OBVIOUS
  <1>1. LinkTypeOK /\ ScriptsHaveTokens
    BY DEF Init, LinkInit, LinkTypeOK, ScriptsHaveTokens
  <1>2. ServerTypeOK /\ HistoryTypeOK
    BY BoundsAssumption, NullsAssumption DEF Init, ServerInit, ServerTypeOK, HistoryTypeOK
  <1>3. BoardTypeOK /\ BoardsAreOn
    BY BoundsAssumption DEF Init, BoardInit, BoardTypeOK, BoardState, Modes, BoardsAreOn
  <1> QED
    BY <1>1, <1>2, <1>3 DEF TypeInv, TypeOK

LEMMA NextTypes == TypeInv /\ [Next]_vars => TypeInv'
  <1> SUFFICES ASSUME TypeInv, [Next]_vars PROVE TypeInv'
    OBVIOUS
  <1> USE DEF TypeInv, TypeOK
  <1>1. ASSUME NEW r \in wire, Handle(r)
        PROVE  TypeInv'
    <2>1. r \in Request
      BY DEF LinkTypeOK
    <2>2. LinkTypeOK' /\ ServerTypes' /\ ScriptsHaveTokens'
      BY <1>1, <2>1, HandleTypes, HandleKeepsTokens DEF ServerTypes
    <2> QED
      BY <1>1, <2>2 DEF Handle, ServerTypes, BoardTypeOK, BoardsAreOn
  <1>2. ASSUME NEW put \in puts, HandlePut(put)
        PROVE  TypeInv'
    <2>1. put \in Put
      BY DEF LinkTypeOK
    <2>2. ServerTypes'
      BY <1>2, <2>1, HandlePutTypes DEF HandlePut, ServerTypes
    <2>3. LinkTypeOK' /\ ScriptsHaveTokens'
      BY <1>2, WithoutSubset DEF HandlePut, OpenUpload, RefuseUpload, LinkTypeOK, ScriptsHaveTokens
    <2> QED
      BY <1>2, <2>2, <2>3 DEF HandlePut, ServerTypes, BoardTypeOK, BoardsAreOn
  <1>3. ASSUME NEW u \in uploads, FinishUpload(u)
        PROVE  TypeInv'
    <2>1. ServerTypes'
      BY <1>3, CloseUploadTypes DEF FinishUpload, ServerTypes
    <2>2. u.put.client \in Clients
      BY DEF ServerTypeOK, Put
    <2>3. BoardTypeOK' /\ BoardsAreOn'
      BY <1>3, <2>2, AcknowledgeTypes DEF FinishUpload
    <2> QED
      BY <1>3, <2>1, <2>3 DEF FinishUpload, link, ServerTypes, LinkTypeOK, ScriptsHaveTokens
  <1>4. ASSUME NEW u \in uploads, AbortUpload(u)
        PROVE  TypeInv'
    <2>1. ServerTypes'
      BY <1>4, CloseUploadTypes DEF AbortUpload, ServerTypes
    <2> QED
      BY <1>4, <2>1 DEF AbortUpload, link, ServerTypes, LinkTypeOK, ScriptsHaveTokens,
                        BoardTypeOK, BoardsAreOn
  <1>5. CASE (Restart \/ Reload) /\ UNCHANGED board
    <2>1. ServerTypes'
      BY <1>5, NewRuntimeTypes DEF ServerTypes
    <2> QED
      BY <1>5, <2>1 DEF Restart, Reload, NewRuntime, link, ServerTypes, LinkTypeOK,
                        ScriptsHaveTokens, BoardTypeOK, BoardsAreOn
  <1>6. ASSUME NEW c \in Clients, BoardStep(c) \/ Boot(c), UNCHANGED <<serverVars, history>>
        PROVE  TypeInv'
    <2>1. BoardSide'
      BY <1>6, BoardStepTypes, BootTypes DEF BoardSide
    <2> QED
      BY <1>6, <2>1 DEF BoardSide, serverVars, history, ServerTypeOK, HistoryTypeOK
  <1>7. CASE UNCHANGED vars
    BY <1>7 DEF vars, serverVars, history, link, LinkTypeOK, ServerTypeOK, HistoryTypeOK,
                BoardTypeOK, ScriptsHaveTokens, BoardsAreOn
  <1> QED
    BY <1>1, <1>2, <1>3, <1>4, <1>5, <1>6, <1>7 DEF Next, ServerStep, BoardStep

(***************************************************************************)
(* Every variable of the server, the link and the boards keeps its type, in *)
(* any behaviour and for any bounds: every request a board makes and every *)
(* script it is served is one the other side has a case for.               *)
(***************************************************************************)
THEOREM TypeCorrect == Spec => []TypeOK
  <1>1. Spec => []TypeInv
    BY InitTypes, NextTypes, PTL DEF Spec
  <1>2. TypeInv => TypeOK
    BY DEF TypeInv
  <1> QED
    BY <1>1, <1>2, PTL
====
