---- MODULE SessionLedger_proofs ----
(***************************************************************************)
(* SessionSystem implements InstructionLedger under the refinement mapping *)
(* LedgerState, owner, asked, LedgerResult: every step of the server, the  *)
(* link and the boards is a step of the ledger or leaves it alone.  Then   *)
(* what is under way on the link, and, if the link is reliable, that board *)
(* and server never lose step.                                             *)
(***************************************************************************)
EXTENDS SessionSafety_proofs

USE DEF Tokens, NoToken

(***************************************************************************)
(* One more fact the mapping rests on: the current token of a session was  *)
(* handed to its board.                                                    *)
(***************************************************************************)
OwnersKnown == \A c \in Clients : Live(c) => owner[sessions[c].token] = c

LedgerInv == TypeInv /\ ResumeInv /\ UploadInv /\ OwnersKnown

StateIs ==
    \A t \in Tokens :
        /\ Resumable(t) => t < fresh
        /\ LedgerState[t] = IF t >= fresh THEN "unused"
                            ELSE IF Resumable(t)
                                 THEN IF resumes[t] = 0 THEN "open" ELSE "loose"
                                 ELSE IF resumes[t] = 0 THEN "dropped" ELSE "answered"

\* A session can be resumed by a token exactly if it is the current one of a session
\* whose handler waits for it.
LEMMA ResumableIs ==
    \A t : Resumable(t) <=> \E c \in Clients : CanStillResume(c) /\ sessions[c].token = t
  BY DEF Resumable, CanStillResume

LEMMA StateValues == ServerTypes /\ ResumeInv => StateIs
  <1> SUFFICES ASSUME ServerTypes, ResumeInv, NEW t \in Tokens
               PROVE  /\ Resumable(t) => t < fresh
                      /\ LedgerState[t] = IF t >= fresh THEN "unused"
                                          ELSE IF Resumable(t)
                                               THEN IF resumes[t] = 0 THEN "open" ELSE "loose"
                                               ELSE IF resumes[t] = 0 THEN "dropped" ELSE "answered"
    BY DEF StateIs
  <1>1. fresh \in Nat /\ t \in Nat /\ resumes[t] \in Nat
    BY BoundsAssumption DEF ServerTypes, ServerTypeOK, HistoryTypeOK
  <1>2. LedgerState[t] = IF t >= fresh THEN "unused"
                         ELSE IF resumes[t] > 0
                              THEN IF t \in strayed /\ Resumable(t) THEN "loose" ELSE "answered"
                              ELSE IF Resumable(t) THEN "open" ELSE "dropped"
    BY DEF LedgerState
  <1>3. Resumable(t) => t < fresh /\ (resumes[t] = 0 \/ t \in strayed)
    <2> SUFFICES ASSUME NEW c \in Clients, CanStillResume(c), sessions[c].token = t
                 PROVE  t < fresh /\ (resumes[t] = 0 \/ t \in strayed)
      BY ResumableIs
    <2> QED
      BY DEF CanStillResume, ResumeInv, TokensAreDrawn, ResumableNotResumed
  <1> QED
    BY <1>1, <1>2, <1>3

LEMMA InitLedgerInv == Init => LedgerInv
  <1>1. Init => OwnersKnown
    BY DEF Init, ServerInit, OwnersKnown, Live
  <1> QED
    BY <1>1, InitTypes, InitResumeInv, InitUploadInv DEF LedgerInv

(***************************************************************************)
(* The effect of each kind of step on sessions, owners and results.        *)
(***************************************************************************)
Drawn(c) ==
    /\ c \in Clients
    /\ fresh \in Tokens
    /\ fresh' = fresh + 1
    /\ Live(c)'
    /\ sessions'[c].token = fresh
    /\ CanStillResume(c)'
    /\ owner' = [owner EXCEPT ![fresh] = c]
    /\ \A d \in Clients : d # c => sessions'[d] = sessions[d]

LEMMA StartSessionDraws ==
    ASSUME ServerTypes, NEW r \in Request, StartSession(r)
    PROVE  Drawn(r.client)
  <1> DEFINE c == r.client
             new == [token |-> fresh, preflight |-> TRUE, handler |-> "none",
                     pending |-> NoReceive, artifacts |-> {}]
  <1>1. c \in Clients /\ fresh \in Tokens /\ fresh' = fresh + 1
    BY BoundsAssumption DEF Request, StartSession, DrawToken, ServerTypes, ServerTypeOK
  <1>2. sessions'[c] = new /\ \A d \in Clients : d # c => sessions'[d] = sessions[d]
    BY <1>1 DEF StartSession, ServerTypes, ServerTypeOK
  <1>3. new \in Session
    BY <1>1 DEF Session
  <1>4. new.token = fresh /\ new.preflight
    OBVIOUS
  <1> HIDE DEF new
  <1>5. Live(c)' /\ CanStillResume(c)'
    BY <1>2, <1>3, <1>4, NoSessionAssumption DEF Live, CanStillResume
  <1>6. owner' = [owner EXCEPT ![fresh] = c]
    BY DEF StartSession, Issued
  <1> QED
    BY <1>1, <1>2, <1>4, <1>5, <1>6 DEF Drawn

LEMMA AwaitInstructionDraws ==
    ASSUME ServerTypes, NEW r \in Request, NEW kind \in {"exec", "recv"},
           NEW acquired \in SUBSET Artifacts, AwaitInstruction(r, kind, acquired)
    PROVE  Drawn(r.client)
  <1> DEFINE c == r.client
             new == [token |-> fresh, preflight |-> FALSE, handler |-> "parked",
                     pending |-> NewReceive(kind),
                     artifacts |-> sessions[c].artifacts \cup acquired]
  <1>1. c \in Clients /\ sessions[c] \in Session
    BY CurrentToken DEF AwaitInstruction, Resume, CanResume
  <1>2. fresh \in Tokens /\ fresh' = fresh + 1
    BY BoundsAssumption DEF AwaitInstruction, DrawToken, ServerTypes, ServerTypeOK
  <1>3. sessions'[c] = new /\ \A d \in Clients : d # c => sessions'[d] = sessions[d]
    BY <1>1 DEF AwaitInstruction, ServerTypes, ServerTypeOK
  <1>4. new \in Session
    <2>1. NewReceive(kind) \in Pending \cup {NoReceive}
      BY <1>2 DEF NewReceive, Pending
    <2> QED
      BY <1>1, <1>2, <2>1 DEF Session
  <1>5. new.token = fresh /\ new.handler = "parked"
    OBVIOUS
  <1> HIDE DEF new
  <1>6. Live(c)' /\ CanStillResume(c)'
    BY <1>3, <1>4, <1>5, NoSessionAssumption DEF Live, CanStillResume
  <1>7. owner' = [owner EXCEPT ![fresh] = c]
    BY DEF AwaitInstruction, Issued
  <1> QED
    BY <1>1, <1>2, <1>3, <1>5, <1>6, <1>7 DEF Drawn

\* What a resumption does to the counts and results.
LEMMA ResumeResult ==
    ASSUME ServerTypes, ResumeInv, UploadInv, NEW r \in Request, Resume(r)
    PROVE  /\ CanStillResume(r.client)
           /\ resumes'[r.token] # 0
           /\ \/ received'[r.token] = received[r.token]
              \/ /\ received'[r.token] # NoBody
                 /\ received'[r.token].token = r.token
                 /\ asked[r.token] = "recv"
  <1>1. CanStillResume(r.client) /\ Current(r)
    BY DEF Resume, CanResume, CanStillResume, Current
  <1>2. r.client \in Clients /\ r.token \in Tokens /\ r.token = sessions[r.client].token
    BY ResumeOnce
  <1>3. resumes[r.token] \in Nat /\ resumes'[r.token] = resumes[r.token] + 1
    BY <1>2 DEF Resume, ServerTypes, HistoryTypeOK
  <1>4. received'[r.token] =
            IF ReceivedValue(r) = NoBody THEN received[r.token] ELSE ReceivedValue(r)
    BY <1>2 DEF Resume, ServerTypes, HistoryTypeOK
  <1>5. ReceivedValue(r) # NoBody =>
            ReceivedValue(r).token = r.token /\ asked[r.token] = "recv"
    <2> SUFFICES ASSUME ReceivedValue(r) # NoBody
                 PROVE  ReceivedValue(r).token = r.token /\ asked[r.token] = "recv"
      OBVIOUS
    <2>1. sessions[r.client].pending # NoReceive
           /\ ReceivedValue(r) = sessions[r.client].pending.uploaded
      BY DEF ReceivedValue
    <2> QED
      BY <1>1, <1>2, <2>1 DEF UploadInv, ReceiveIsCurrent, CanStillResume
  <1> QED
    BY <1>1, <1>3, <1>4, <1>5

(***************************************************************************)
(* Which tokens can still be used after a step.                            *)
(***************************************************************************)
LEMMA DrawnResumable ==
    ASSUME ServerTypes, ResumeInv, NEW c, Drawn(c), NEW t \in Tokens
    PROVE  /\ t = fresh => Resumable(t)'
           /\ t # fresh => (Resumable(t)' <=> Resumable(t) /\ ~(Live(c) /\ t = sessions[c].token))
  <1>1. t = fresh => Resumable(t)'
    BY DEF Drawn, Resumable, CanStillResume
  <1>2. ASSUME t # fresh, Resumable(t)'
        PROVE  Resumable(t) /\ ~(Live(c) /\ t = sessions[c].token)
    <2>1. PICK d \in Clients : CanStillResume(d)' /\ sessions'[d].token = t
      BY <1>2 DEF Resumable, CanStillResume
    <2>2. d # c /\ sessions'[d] = sessions[d]
      BY <1>2, <2>1 DEF Drawn
    <2>3. CanStillResume(d) /\ sessions[d].token = t
      BY <2>1, <2>2 DEF CanStillResume, Live
    <2> QED
      BY <2>2, <2>3 DEF Resumable, CanStillResume, ResumeInv, TokensDiffer, Drawn
  <1>3. ASSUME Resumable(t), ~(Live(c) /\ t = sessions[c].token)
        PROVE  Resumable(t)'
    <2>1. PICK d \in Clients : CanStillResume(d) /\ sessions[d].token = t
      BY <1>3 DEF Resumable, CanStillResume
    <2>2. d # c /\ sessions'[d] = sessions[d]
      BY <1>3, <2>1 DEF Drawn, CanStillResume
    <2> QED
      BY <2>1, <2>2 DEF Resumable, CanStillResume, Live
  <1> QED
    BY <1>1, <1>2, <1>3

LEMMA EndedResumable ==
    ASSUME ServerTypes, ResumeInv, NEW r \in Request, NEW acquired,
           \/ \E script : EndSession(r, script, acquired)
           \/ HandlerRaises(r, acquired),
           NEW t \in Tokens
    PROVE  Resumable(t)' <=> Resumable(t) /\ t # r.token
  <1> DEFINE c == r.client
  <1>1. c \in Clients /\ sessions[c] \in Session /\ r.token = sessions[c].token
    BY CurrentToken DEF EndSession, HandlerRaises, KeepSession, Resume, CanResume, Current
  <1>2. \A d \in Clients : d # c => sessions'[d] = sessions[d]
    BY <1>1 DEF EndSession, Discard, HandlerRaises, KeepSession, ServerTypes, ServerTypeOK
  <1>3. ~CanStillResume(c)'
    <2>1. CASE \E script : EndSession(r, script, acquired)
      BY <1>1, <2>1 DEF EndSession, Discard, CanStillResume, Live, ServerTypes, ServerTypeOK
    <2>2. CASE HandlerRaises(r, acquired)
      <3>1. sessions'[c].preflight = FALSE /\ sessions'[c].handler = "dead"
        BY <1>1, <2>2 DEF HandlerRaises, KeepSession, Session, ServerTypes, ServerTypeOK
      <3> QED
        BY <3>1 DEF CanStillResume
    <2> QED
      BY <2>1, <2>2
  <1>4. Resume(r)
    BY DEF EndSession, HandlerRaises, KeepSession
  <1>5. ASSUME Resumable(t)'
        PROVE  Resumable(t) /\ t # r.token
    <2>1. PICK d \in Clients : CanStillResume(d)' /\ sessions'[d].token = t
      BY <1>5 DEF Resumable, CanStillResume
    <2>2. d # c /\ sessions'[d] = sessions[d]
      BY <1>2, <1>3, <2>1
    <2>3. CanStillResume(d) /\ sessions[d].token = t
      BY <2>1, <2>2 DEF CanStillResume, Live
    <2> QED
      BY <1>4, <2>2, <2>3, ResumeOnce DEF Resumable, CanStillResume
  <1>6. ASSUME Resumable(t), t # r.token
        PROVE  Resumable(t)'
    <2>1. PICK d \in Clients : CanStillResume(d) /\ sessions[d].token = t
      BY <1>6 DEF Resumable, CanStillResume
    <2>2. d # c /\ sessions'[d] = sessions[d]
      BY <1>1, <1>2, <1>6, <2>1
    <2> QED
      BY <2>1, <2>2 DEF Resumable, CanStillResume, Live
  <1> QED
    BY <1>5, <1>6

\* A handler that goes astray leaves its session as resumable as it was.
LEMMA StrayedResumable ==
    ASSUME ServerTypes, NEW r \in Request, NEW acquired \in SUBSET Artifacts,
           HandlerStrays(r, acquired)
    PROVE  /\ r.client \in Clients /\ CanStillResume(r.client)
           /\ CanStillResume(r.client)' /\ sessions'[r.client].token = sessions[r.client].token
           /\ \A d \in Clients : d # r.client => sessions'[d] = sessions[d]
           /\ \A t : Resumable(t)' <=> Resumable(t)
  <1> DEFINE c == r.client
             after == [sessions[c] EXCEPT !.preflight = FALSE, !.handler = "parked",
                                          !.pending = NoReceive,
                                          !.artifacts = sessions[c].artifacts \cup acquired]
  <1>1. Current(r) /\ CanStillResume(c)
    BY DEF HandlerStrays, KeepSession, Resume, CanResume, CanStillResume, Current
  <1>2. c \in Clients /\ sessions[c] \in Session
    BY <1>1, CurrentToken
  <1>3. after \in Session /\ after.token = sessions[c].token /\ after.handler = "parked"
    BY <1>2 DEF Session
  <1>4. sessions' = [sessions EXCEPT ![c] = after]
    BY DEF HandlerStrays, KeepSession
  <1> HIDE DEF after
  <1>5. sessions'[c] = after /\ \A d \in Clients : d # c => sessions'[d] = sessions[d]
    BY <1>2, <1>4 DEF ServerTypes, ServerTypeOK
  <1>6. CanStillResume(c)' /\ sessions'[c].token = sessions[c].token
    BY <1>3, <1>5, NoSessionAssumption DEF CanStillResume, Live
  <1>7. \A d \in Clients : /\ CanStillResume(d)' <=> CanStillResume(d)
                           /\ CanStillResume(d) => sessions'[d].token = sessions[d].token
    BY <1>1, <1>5, <1>6 DEF CanStillResume, Live
  <1>8. \A t : Resumable(t)' <=> Resumable(t)
    BY <1>7 DEF Resumable, CanStillResume
  <1> QED
    BY <1>1, <1>2, <1>5, <1>6, <1>8

(***************************************************************************)
(* The steps.                                                              *)
(***************************************************************************)
StepTypes == ServerTypes /\ ServerTypes' /\ StateIs /\ StateIs'

\* A resumable token is open or loose, and no other is.
LEMMA ResumableState ==
    ASSUME StepTypes, NEW t \in Tokens
    PROVE  LedgerState[t] \in {"open", "loose"} <=> Resumable(t)
  <1>1. fresh \in Nat /\ t \in Nat
    BY BoundsAssumption DEF StepTypes, ServerTypes, ServerTypeOK
  <1> QED
    BY <1>1 DEF StepTypes, StateIs

\* A step that only takes rights away is Abandon.
LEMMA ShrinkIsAbandon ==
    ASSUME StepTypes, SessionsShrink, UNCHANGED <<fresh, history>>
    PROVE  Ledger!Next
  <1> DEFINE drop == {t \in Tokens : Resumable(t) /\ ~Resumable(t)'}
  <1>1. \A t \in Tokens : Resumable(t)' => Resumable(t)
    <2> SUFFICES ASSUME NEW t \in Tokens, NEW c \in Clients,
                        CanStillResume(c)', sessions'[c].token = t
                 PROVE  Resumable(t)
      BY DEF Resumable, CanStillResume
    <2> QED
      BY DEF SessionsShrink, Resumable, CanStillResume, Live
  <1>2. \A t \in Tokens :
            LedgerState'[t] = IF t \in drop
                              THEN IF LedgerState[t] = "open" THEN "dropped" ELSE "answered"
                              ELSE LedgerState[t]
    <2> SUFFICES ASSUME NEW t \in Tokens
                 PROVE  LedgerState'[t] =
                            IF t \in drop
                            THEN IF LedgerState[t] = "open" THEN "dropped" ELSE "answered"
                            ELSE LedgerState[t]
      OBVIOUS
    <2>1. t \in drop <=> Resumable(t) /\ ~Resumable(t)'
      OBVIOUS
    <2>2. resumes' = resumes /\ fresh' = fresh
      BY DEF history
    <2>3. (Resumable(t)' => Resumable(t)) /\ (Resumable(t) => t < fresh)
      BY <1>1 DEF StepTypes, StateIs
    <2>4. /\ fresh \in Nat /\ t \in Nat
          /\ LedgerState[t] = IF t >= fresh THEN "unused"
                              ELSE IF Resumable(t)
                                   THEN IF resumes[t] = 0 THEN "open" ELSE "loose"
                                   ELSE IF resumes[t] = 0 THEN "dropped" ELSE "answered"
          /\ LedgerState'[t] = IF t >= fresh THEN "unused"
                               ELSE IF Resumable(t)'
                                    THEN IF resumes[t] = 0 THEN "open" ELSE "loose"
                                    ELSE IF resumes[t] = 0 THEN "dropped" ELSE "answered"
      BY <2>2, BoundsAssumption DEF StepTypes, StateIs, ServerTypes, ServerTypeOK
    <2> HIDE DEF drop
    <2> QED
      BY <2>1, <2>3, <2>4
  <1>3. drop \subseteq {i \in Tokens : LedgerState[i] \in {"open", "loose"}}
    <2> SUFFICES ASSUME NEW i \in Tokens, Resumable(i)
                 PROVE  LedgerState[i] \in {"open", "loose"}
      OBVIOUS
    <2> QED
      BY ResumableState
  <1>4. LedgerState' = [i \in Tokens |->
            IF i \in {} THEN "open" ELSE IF i \in {} THEN "answered"
            ELSE IF i \in drop THEN IF LedgerState[i] = "open" THEN "dropped" ELSE "answered"
            ELSE LedgerState[i]]
    BY <1>2 DEF LedgerState
  <1>5. owner' = [i \in Tokens |-> IF i \in {} THEN NoSession ELSE owner[i]]
    BY DEF history, StepTypes, ServerTypes, HistoryTypeOK
  <1>6. asked' = asked /\ LedgerResult' = LedgerResult
    BY DEF history, LedgerResult
  <1> HIDE DEF drop
  <1>7. Ledger!Abandon(drop)
    BY <1>3, <1>4, <1>5, <1>6 DEF Ledger!Abandon, Ledger!Move
  <1> QED
    BY <1>3, <1>7 DEF Ledger!Next

\* A new session is Begin.
LEMMA StartIsBegin ==
    ASSUME StepTypes, ResumeInv, OwnersKnown, NEW r \in Request, StartSession(r)
    PROVE  Ledger!Next
  <1> DEFINE c == r.client
             open == Ledger!OpenOf(c)
  <1>1. Drawn(c)
    BY StartSessionDraws DEF StepTypes
  <1>2. c \in Clients /\ fresh \in Tokens /\ fresh' = fresh + 1 /\ resumes' = resumes
    BY <1>1 DEF Drawn, StartSession
  <1>3. \A t \in Tokens : t \in open <=> Live(c) /\ t = sessions[c].token /\ Resumable(t)
    <2> SUFFICES ASSUME NEW t \in Tokens
                 PROVE  t \in open <=> Live(c) /\ t = sessions[c].token /\ Resumable(t)
      OBVIOUS
    <2>1. t \in open <=> Resumable(t) /\ owner[t] = c
      BY ResumableState DEF Ledger!OpenOf
    <2>2. ASSUME Resumable(t), owner[t] = c
          PROVE  Live(c) /\ t = sessions[c].token
      BY <2>2 DEF Resumable, OwnersKnown
    <2>3. Live(c) /\ t = sessions[c].token => owner[t] = c
      BY <1>2 DEF OwnersKnown
    <2> QED
      BY <2>1, <2>2, <2>3
  <1>4. \A t \in Tokens :
            LedgerState'[t] = IF t = fresh THEN "open"
                              ELSE IF t \in open
                                   THEN IF LedgerState[t] = "open" THEN "dropped" ELSE "answered"
                                   ELSE LedgerState[t]
    <2> SUFFICES ASSUME NEW t \in Tokens
                 PROVE  LedgerState'[t] =
                            IF t = fresh THEN "open"
                            ELSE IF t \in open
                                 THEN IF LedgerState[t] = "open" THEN "dropped" ELSE "answered"
                                 ELSE LedgerState[t]
      OBVIOUS
    <2>0. fresh \in Nat /\ t \in Nat
      BY BoundsAssumption DEF StepTypes, ServerTypes, ServerTypeOK
    <2>1. CASE t = fresh
      <3>1. Resumable(t)' /\ resumes'[t] = 0
        BY <1>1, <1>2, <2>0, <2>1, DrawnResumable DEF StepTypes, ResumeInv, FreshIsUnused
      <3> QED
        BY <1>2, <2>0, <2>1, <3>1 DEF StepTypes, StateIs
    <2>2. CASE t # fresh
      <3>1. t >= fresh' <=> t >= fresh
        BY <1>2, <2>0, <2>2
      <3>2. Resumable(t)' <=> Resumable(t) /\ t \notin open
        BY <1>1, <1>3, <2>2, DrawnResumable DEF StepTypes
      <3>3. t \in open => Resumable(t)
        BY <1>3
      <3> HIDE DEF open
      <3> QED
        BY <1>2, <2>0, <2>2, <3>1, <3>2, <3>3 DEF StepTypes, StateIs
    <2> QED
      BY <2>1, <2>2
  <1>5. LedgerState[fresh] = "unused"
    BY <1>2, BoundsAssumption DEF StepTypes, StateIs, ServerTypes, ServerTypeOK
  <1>6. LedgerState' = [i \in Tokens |->
            IF i \in {fresh} THEN "open" ELSE IF i \in {} THEN "answered"
            ELSE IF i \in open THEN IF LedgerState[i] = "open" THEN "dropped" ELSE "answered"
            ELSE LedgerState[i]]
    BY <1>4 DEF LedgerState
  <1>7. owner' = [i \in Tokens |-> IF i \in {fresh} THEN c ELSE owner[i]]
    BY <1>1 DEF Drawn, StepTypes, ServerTypes, HistoryTypeOK
  <1>8. asked' = [asked EXCEPT ![fresh] = "probe"] /\ LedgerResult' = LedgerResult
    BY DEF StartSession, Issued, LedgerResult
  <1>9. Ledger!Begin(c, fresh)
    BY <1>2, <1>5, <1>6, <1>7, <1>8 DEF Ledger!Begin, Ledger!Move
  <1> QED
    BY <1>2, <1>9 DEF Ledger!Next

\* A resumption answers the token it came with, and may return its upload.
LEMMA ResumeReturns ==
    ASSUME StepTypes, ResumeInv, UploadInv, OwnersKnown,
           NEW r \in Request, Resume(r)
    PROVE  /\ r.client \in Clients /\ r.token \in Tokens /\ r.token < fresh
           /\ r.token \in Ledger!OpenOf(r.client)
           /\ Ledger!Returns(r.token)
           /\ resumes'[r.token] # 0
           /\ \A t \in Tokens : t # r.token => resumes'[t] = resumes[t]
  <1> DEFINE i == r.token
  <1>1. /\ r.client \in Clients /\ i \in Tokens /\ i < fresh
        /\ Live(r.client) /\ i = sessions[r.client].token
        /\ \A t \in Tokens : t # i => resumes'[t] = resumes[t] /\ received'[t] = received[t]
    BY ResumeOnce DEF StepTypes
  <1>2. /\ CanStillResume(r.client)
        /\ resumes'[i] # 0
        /\ \/ received'[i] = received[i]
           \/ received'[i] # NoBody /\ received'[i].token = i /\ asked[i] = "recv"
    BY ResumeResult DEF StepTypes
  <1>3. i \in Ledger!OpenOf(r.client)
    <2>1. Resumable(i) /\ owner[i] = r.client
      BY <1>1, <1>2 DEF Resumable, CanStillResume, OwnersKnown
    <2> QED
      BY <1>1, <2>1, ResumableState DEF Ledger!OpenOf
  <1>4. Ledger!Returns(i)
    <2>1. \A t \in Tokens : t # i => LedgerResult'[t] = LedgerResult[t]
      BY <1>1 DEF LedgerResult
    <2>2. CASE received'[i] = received[i]
      <3>1. LedgerResult'[i] = LedgerResult[i]
        BY <1>1, <2>2 DEF LedgerResult
      <3>2. LedgerResult' = LedgerResult
        BY <2>1, <3>1 DEF LedgerResult
      <3> QED
        BY <3>2 DEF Ledger!Returns
    <2>3. CASE received'[i] # NoBody /\ received'[i].token = i /\ asked[i] = "recv"
      <3>1. LedgerResult'[i] = {i}
        BY <1>1, <2>3 DEF LedgerResult
      <3>2. LedgerResult' = [LedgerResult EXCEPT ![i] = {i}]
        BY <2>1, <3>1 DEF LedgerResult
      <3> QED
        BY <2>3, <3>2 DEF Ledger!Returns
    <2> QED
      BY <1>2, <2>2, <2>3
  <1> QED
    BY <1>1, <1>2, <1>3, <1>4

\* The handler goes on to its next script: AnswerAndIssue.
LEMMA AwaitIsAnswerAndIssue ==
    ASSUME StepTypes, ResumeInv, UploadInv, OwnersKnown,
           NEW r \in Request, NEW kind \in {"exec", "recv"},
           NEW acquired \in SUBSET Artifacts, AwaitInstruction(r, kind, acquired)
    PROVE  Ledger!Next
  <1> DEFINE c == r.client
             i == r.token
  <1>1. Drawn(c)
    BY AwaitInstructionDraws DEF StepTypes
  <1>2. /\ c \in Clients /\ i \in Tokens /\ i < fresh
        /\ i \in Ledger!OpenOf(c)
        /\ Ledger!Returns(i)
        /\ resumes'[i] # 0
        /\ \A t \in Tokens : t # i => resumes'[t] = resumes[t]
    BY ResumeReturns DEF AwaitInstruction
  <1>3. fresh \in Tokens /\ fresh' = fresh + 1
    BY <1>1 DEF Drawn
  <1>4. Live(c) /\ i = sessions[c].token
    BY ResumeOnce DEF AwaitInstruction, StepTypes
  <1>5. \A t \in Tokens :
            LedgerState'[t] = IF t = fresh THEN "open"
                              ELSE IF t = i THEN "answered" ELSE LedgerState[t]
    <2> SUFFICES ASSUME NEW t \in Tokens
                 PROVE  LedgerState'[t] = IF t = fresh THEN "open"
                                          ELSE IF t = i THEN "answered" ELSE LedgerState[t]
      OBVIOUS
    <2>0. fresh \in Nat /\ t \in Nat
      BY BoundsAssumption DEF StepTypes, ServerTypes, ServerTypeOK
    <2>1. CASE t = fresh
      <3>1. Resumable(t)' /\ resumes'[t] = 0
        BY <1>1, <1>2, <2>0, <2>1, DrawnResumable DEF StepTypes, ResumeInv, FreshIsUnused
      <3> QED
        BY <1>3, <2>0, <2>1, <3>1 DEF StepTypes, StateIs
    <2>2. CASE t = i /\ t # fresh
      <3>1. t < fresh' /\ ~Resumable(t)'
        BY <1>1, <1>2, <1>3, <1>4, <2>0, <2>2, DrawnResumable DEF StepTypes
      <3> QED
        BY <1>2, <1>3, <2>0, <2>2, <3>1 DEF StepTypes, StateIs
    <2>3. CASE t # i /\ t # fresh
      <3>1. t >= fresh' <=> t >= fresh
        BY <1>3, <2>0, <2>3
      <3>2. Resumable(t)' <=> Resumable(t)
        BY <1>1, <1>4, <2>3, DrawnResumable DEF StepTypes
      <3> QED
        BY <1>2, <2>3, <3>1, <3>2 DEF StepTypes, StateIs
    <2> QED
      BY <2>1, <2>2, <2>3
  <1>6. LedgerState[fresh] = "unused"
    BY <1>3, BoundsAssumption DEF StepTypes, StateIs, ServerTypes, ServerTypeOK
  <1>7. LedgerState' = [t \in Tokens |->
            IF t \in {fresh} THEN "open" ELSE IF t \in {i} THEN "answered"
            ELSE IF t \in {} THEN IF LedgerState[t] = "open" THEN "dropped" ELSE "answered"
            ELSE LedgerState[t]]
    BY <1>5 DEF LedgerState
  <1>8. owner' = [t \in Tokens |-> IF t \in {fresh} THEN c ELSE owner[t]]
    BY <1>1 DEF Drawn, StepTypes, ServerTypes, HistoryTypeOK
  <1>9. asked' \in {[asked EXCEPT ![fresh] = "exec"], [asked EXCEPT ![fresh] = "recv"]}
    BY DEF AwaitInstruction, Issued
  <1>10. Ledger!AnswerAndIssue(c, i, fresh)
    BY <1>2, <1>3, <1>6, <1>7, <1>8, <1>9 DEF Ledger!AnswerAndIssue, Ledger!Move
  <1> QED
    BY <1>2, <1>3, <1>10 DEF Ledger!Next

\* The handler ends, or raises: AnswerAndClose.
LEMMA EndIsAnswerAndClose ==
    ASSUME StepTypes, ResumeInv, UploadInv, OwnersKnown,
           NEW r \in Request, NEW acquired,
           \/ \E script : EndSession(r, script, acquired)
           \/ HandlerRaises(r, acquired)
    PROVE  Ledger!Next
  <1> DEFINE c == r.client
             i == r.token
  <1>1. Resume(r) /\ UNCHANGED <<fresh, owner, asked>>
    BY DEF EndSession, HandlerRaises, KeepSession
  <1>2. /\ c \in Clients /\ i \in Tokens /\ i < fresh
        /\ i \in Ledger!OpenOf(c)
        /\ Ledger!Returns(i)
        /\ resumes'[i] # 0
        /\ \A t \in Tokens : t # i => resumes'[t] = resumes[t]
    BY <1>1, ResumeReturns
  <1>3. \A t \in Tokens : LedgerState'[t] = IF t = i THEN "answered" ELSE LedgerState[t]
    <2> SUFFICES ASSUME NEW t \in Tokens
                 PROVE  LedgerState'[t] = IF t = i THEN "answered" ELSE LedgerState[t]
      OBVIOUS
    <2>0. fresh \in Nat /\ t \in Nat
      BY BoundsAssumption DEF StepTypes, ServerTypes, ServerTypeOK
    <2>1. Resumable(t)' <=> Resumable(t) /\ t # i
      BY EndedResumable DEF StepTypes
    <2>2. CASE t = i
      BY <1>1, <1>2, <2>0, <2>1, <2>2 DEF StepTypes, StateIs
    <2>3. CASE t # i
      BY <1>1, <1>2, <2>0, <2>1, <2>3 DEF StepTypes, StateIs
    <2> QED
      BY <2>2, <2>3
  <1>4. LedgerState' = [t \in Tokens |->
            IF t \in {} THEN "open" ELSE IF t \in {i} THEN "answered"
            ELSE IF t \in {} THEN IF LedgerState[t] = "open" THEN "dropped" ELSE "answered"
            ELSE LedgerState[t]]
    BY <1>3 DEF LedgerState
  <1>5. owner' = [t \in Tokens |-> IF t \in {} THEN c ELSE owner[t]]
    BY <1>1 DEF StepTypes, ServerTypes, HistoryTypeOK
  <1>6. Ledger!AnswerAndClose(c, i)
    BY <1>1, <1>2, <1>4, <1>5 DEF Ledger!AnswerAndClose, Ledger!Move
  <1> QED
    BY <1>2, <1>6 DEF Ledger!Next

\* The handler goes astray: AnswerAstray.
LEMMA StrayIsAnswerAstray ==
    ASSUME StepTypes, ResumeInv, UploadInv, OwnersKnown,
           NEW r \in Request, NEW acquired \in SUBSET Artifacts, HandlerStrays(r, acquired)
    PROVE  Ledger!Next
  <1> DEFINE c == r.client
             i == r.token
  <1>1. Resume(r) /\ UNCHANGED <<fresh, owner, asked>>
    BY DEF HandlerStrays, KeepSession
  <1>2. /\ c \in Clients /\ i \in Tokens /\ i < fresh
        /\ i \in Ledger!OpenOf(c)
        /\ Ledger!Returns(i)
        /\ resumes'[i] # 0
        /\ \A t \in Tokens : t # i => resumes'[t] = resumes[t]
    BY <1>1, ResumeReturns
  <1>3. \A t \in Tokens : LedgerState'[t] = IF t = i THEN "loose" ELSE LedgerState[t]
    <2> SUFFICES ASSUME NEW t \in Tokens
                 PROVE  LedgerState'[t] = IF t = i THEN "loose" ELSE LedgerState[t]
      OBVIOUS
    <2>0. fresh \in Nat /\ t \in Nat
      BY BoundsAssumption DEF StepTypes, ServerTypes, ServerTypeOK
    <2>1. (Resumable(t)' <=> Resumable(t)) /\ Resumable(i)
      BY <1>2, ResumableState, StrayedResumable DEF StepTypes, Ledger!OpenOf
    <2>2. CASE t = i
      BY <1>1, <1>2, <2>0, <2>1, <2>2 DEF StepTypes, StateIs
    <2>3. CASE t # i
      BY <1>1, <1>2, <2>0, <2>1, <2>3 DEF StepTypes, StateIs
    <2> QED
      BY <2>2, <2>3
  <1>4. LedgerState' = [LedgerState EXCEPT ![i] = "loose"]
    BY <1>2, <1>3 DEF LedgerState
  <1>5. Ledger!AnswerAstray(c, i)
    BY <1>1, <1>2, <1>4 DEF Ledger!AnswerAstray
  <1> QED
    BY <1>2, <1>5 DEF Ledger!Next

(***************************************************************************)
(* The further invariant is inductive.                                     *)
(***************************************************************************)
LEMMA DrawnKeepsOwners ==
    ASSUME ServerTypes, ResumeInv, OwnersKnown, NEW c, Drawn(c)
    PROVE  OwnersKnown'
  <1> SUFFICES ASSUME NEW d \in Clients, Live(d)'
               PROVE  owner'[sessions'[d].token] = d
    BY DEF OwnersKnown
  <1>1. CASE d = c
    BY <1>1 DEF Drawn, ServerTypes, HistoryTypeOK
  <1>2. CASE d # c
    <2>1. sessions'[d] = sessions[d] /\ Live(d)
      BY <1>2 DEF Drawn, Live
    <2>2. sessions[d].token \in Tokens /\ sessions[d].token # fresh
      BY <2>1, LiveSession DEF ResumeInv, TokensAreDrawn, ServerTypes, Drawn
    <2> QED
      BY <2>1, <2>2 DEF Drawn, OwnersKnown, ServerTypes, HistoryTypeOK
  <1> QED
    BY <1>1, <1>2

LEMMA EndKeepsOwners ==
    ASSUME ServerTypes, OwnersKnown, NEW r \in Request, NEW acquired,
           \/ \E script : EndSession(r, script, acquired)
           \/ HandlerRaises(r, acquired)
    PROVE  OwnersKnown'
  <1> DEFINE c == r.client
  <1>1. c \in Clients /\ sessions[c] \in Session /\ Live(c) /\ owner' = owner
    BY CurrentToken DEF EndSession, HandlerRaises, KeepSession, Resume, CanResume, Current
  <1>2. \A d \in Clients : d # c => sessions'[d] = sessions[d]
    BY <1>1 DEF EndSession, Discard, HandlerRaises, KeepSession, ServerTypes, ServerTypeOK
  <1>3. sessions'[c] = NoSession \/ sessions'[c].token = sessions[c].token
    <2>1. CASE \E script : EndSession(r, script, acquired)
      BY <1>1, <2>1 DEF EndSession, Discard, ServerTypes, ServerTypeOK
    <2>2. CASE HandlerRaises(r, acquired)
      BY <1>1, <2>2 DEF HandlerRaises, KeepSession, Session, ServerTypes, ServerTypeOK
    <2> QED
      BY <2>1, <2>2
  <1> QED
    BY <1>1, <1>2, <1>3 DEF OwnersKnown, Live

\* What each kind of step contributes: the invariant again, and a step of the ledger.
StepOK == OwnersKnown' /\ Ledger!Next

LEMMA ShrinkStep ==
    ASSUME StepTypes, OwnersKnown, SessionsShrink, UNCHANGED <<fresh, history>>
    PROVE  StepOK
  <1>1. OwnersKnown'
    BY DEF SessionsShrink, OwnersKnown, Live, history
  <1> QED
    BY <1>1, ShrinkIsAbandon DEF StepOK

LEMMA NextLedger == LedgerInv /\ [Next]_vars => LedgerInv' /\ Ledger!Next
  <1> SUFFICES ASSUME LedgerInv, [Next]_vars
               PROVE  LedgerInv' /\ Ledger!Next
    OBVIOUS
  <1>1. TypeInv' /\ ResumeInv' /\ UploadInv'
    BY NextTypes, NextResumeInv, NextUploadInv DEF LedgerInv
  <1>2. StepTypes
    <2>1. ServerTypes /\ StateIs
      BY StateValues DEF LedgerInv, TypeInv, TypeOK, ServerTypes
    <2>2. (ServerTypes /\ ResumeInv => StateIs)'
      BY StateValues, PTL
    <2>3. ServerTypes'
      BY <1>1 DEF TypeInv, TypeOK, ServerTypes
    <2> QED
      BY <1>1, <2>1, <2>2, <2>3 DEF StepTypes
  <1>3. CASE Quiet
    <2>1. SessionsShrink /\ UNCHANGED <<fresh, history>>
      BY <1>3, QuietEffect DEF SessionsShrink, CanStillResume, Live
    <2> QED
      BY <1>1, <1>2, <2>1, ShrinkStep DEF LedgerInv, StepOK
  <1>4. CASE Shrinking
    <2>1. SessionsShrink /\ UNCHANGED <<fresh, history>>
      BY <1>2, <1>4, ShrinkingEffect DEF StepTypes
    <2> QED
      BY <1>1, <1>2, <2>1, ShrinkStep DEF LedgerInv, StepOK
  <1>5. CASE CloseAny
    <2>1. SessionsShrink /\ UNCHANGED <<fresh, history>>
      BY <1>2, <1>5, CloseUploadEffect DEF StepTypes, CloseAny, SessionsShrink, CanStillResume, Live
    <2> QED
      BY <1>1, <1>2, <2>1, ShrinkStep DEF LedgerInv, StepOK
  <1>6. ASSUME NEW r \in Request, StartSession(r)
        PROVE  LedgerInv' /\ Ledger!Next
    <2>1. Ledger!Next
      BY <1>2, <1>6, StartIsBegin DEF LedgerInv
    <2>2. OwnersKnown'
      BY <1>2, <1>6, StartSessionDraws, DrawnKeepsOwners DEF LedgerInv, StepTypes
    <2> QED
      BY <1>1, <2>1, <2>2 DEF LedgerInv
  <1>7. ASSUME NEW r \in Request, NEW acquired \in SUBSET Artifacts,
               NEW kind \in {"exec", "recv"}, AwaitInstruction(r, kind, acquired)
        PROVE  LedgerInv' /\ Ledger!Next
    <2>1. Ledger!Next
      BY <1>2, <1>7, AwaitIsAnswerAndIssue DEF LedgerInv
    <2>2. OwnersKnown'
      BY <1>2, <1>7, AwaitInstructionDraws, DrawnKeepsOwners DEF LedgerInv, StepTypes
    <2> QED
      BY <1>1, <2>1, <2>2 DEF LedgerInv
  <1>8. ASSUME NEW r \in Request, NEW acquired \in SUBSET Artifacts,
               (\E script : EndSession(r, script, acquired)) \/ HandlerRaises(r, acquired)
        PROVE  LedgerInv' /\ Ledger!Next
    <2>1. Ledger!Next
      BY <1>2, <1>8, EndIsAnswerAndClose DEF LedgerInv
    <2>2. OwnersKnown'
      BY <1>2, <1>8, EndKeepsOwners DEF LedgerInv, StepTypes
    <2> QED
      BY <1>1, <2>1, <2>2 DEF LedgerInv
  <1>9. ASSUME NEW r \in Request, NEW acquired \in SUBSET Artifacts, HandlerStrays(r, acquired)
        PROVE  LedgerInv' /\ Ledger!Next
    <2>1. Ledger!Next
      BY <1>2, <1>9, StrayIsAnswerAstray DEF LedgerInv
    <2>2. OwnersKnown'
      <3>1. owner' = owner
        BY <1>9 DEF HandlerStrays, KeepSession
      <3> QED
        BY <1>2, <1>9, <3>1, StrayedResumable
        DEF LedgerInv, StepTypes, OwnersKnown, CanStillResume, Live
    <2> QED
      BY <1>1, <2>1, <2>2 DEF LedgerInv
  <1> QED
    BY <1>3, <1>4, <1>5, <1>6, <1>7, <1>8, <1>9, NextCases DEF LedgerInv

LEMMA InitLedger == Init => Ledger!Init
  <1> SUFFICES ASSUME Init PROVE Ledger!Init
    OBVIOUS
  <1>1. LedgerState = [i \in Tokens |-> "unused"]
    BY BoundsAssumption DEF Init, ServerInit, LedgerState
  <1>2. LedgerResult = [i \in Tokens |-> {}]
    BY DEF Init, ServerInit, LedgerResult
  <1> QED
    BY <1>1, <1>2 DEF Init, ServerInit, Ledger!Init

(***************************************************************************)
(* The server, over any such link and with any such boards, keeps the      *)
(* promise of the ledger: an instruction is handed out once, to one board, *)
(* answered at most once and only while it is the latest one of its board, *)
(* and returns only the bytes of its own upload.                           *)
(***************************************************************************)
THEOREM LedgerRefined == Spec => LedgerKept
  <1>1. Init => LedgerInv /\ Ledger!Init
    BY InitLedgerInv, InitLedger
  <1>2. LedgerInv /\ [Next]_vars => LedgerInv' /\ [Ledger!Next]_(Ledger!vars)
    BY NextLedger
  <1> QED
    BY <1>1, <1>2, PTL DEF Spec, LedgerKept, Ledger!Spec
----
(***************************************************************************)
(* What is under way.  A token on the link, in a script, on a board or in  *)
(* an upload was handed to that board.                                     *)
(***************************************************************************)
Owns(c, t) == t < fresh /\ owner[t] = c

LinkOwned ==
    /\ \A r \in wire : r.token \in Tokens => Owns(r.client, r.token)
    /\ \A c \in Clients : \A s \in answers[c] : s.token \in Tokens => Owns(c, s.token)
    /\ \A c \in Clients : board[c].token \in Tokens => Owns(c, board[c].token)
    /\ \A put \in puts : Owns(put.client, put.token)
    /\ \A u \in uploads : Owns(u.put.client, u.put.token)

\* If c still waits for the bytes of token t, they are there.
Stored(c, t) ==
    Live(c) /\ sessions[c].token = t /\ sessions[c].pending # NoReceive =>
        sessions[c].pending.uploaded # NoBody

(***************************************************************************)
(* A board that was acknowledged, and a request that says so, has its      *)
(* bytes stored; a file opened by an earlier runtime is not waited for.    *)
(***************************************************************************)
LinkStored ==
    /\ \A r \in wire : r.report = "ok" => r.token \in Tokens /\ Stored(r.client, r.token)
    /\ \A c \in Clients : board[c].acked =>
           board[c].token \in Tokens /\ Stored(c, board[c].token)
    /\ \A u \in uploads, c \in Clients :
           u.epoch # epoch /\ Live(c) => sessions[c].token # u.put.token

LinkInv == LinkOwned /\ LinkStored

\* A token that was handed out stays with its board.
LEMMA OwnsStays ==
    ASSUME LedgerInv, [Next]_vars, NEW c \in Clients, NEW t \in Tokens, Owns(c, t)
    PROVE  Owns(c, t)'
  <1>1. ServerTypes /\ fresh \in Nat
    BY BoundsAssumption DEF LedgerInv, TypeInv, TypeOK, ServerTypes, ServerTypeOK
  <1>2. ASSUME UNCHANGED <<fresh, owner>> PROVE Owns(c, t)'
    BY <1>2 DEF Owns
  <1>3. ASSUME NEW d, Drawn(d) PROVE Owns(c, t)'
    BY <1>1, <1>3 DEF Owns, Drawn, ServerTypes, HistoryTypeOK
  <1>4. CASE Quiet \/ Shrinking \/ CloseAny
    BY <1>1, <1>2, <1>4, QuietEffect, ShrinkingEffect, CloseUploadEffect DEF CloseAny, history
  <1>5. CASE \E r \in Request : StartSession(r)
    BY <1>1, <1>3, <1>5, StartSessionDraws
  <1>6. ASSUME NEW r \in Request, NEW acquired \in SUBSET Artifacts,
               \E kind \in {"exec", "recv"} : AwaitInstruction(r, kind, acquired)
        PROVE  Owns(c, t)'
    BY <1>1, <1>3, <1>6, AwaitInstructionDraws
  <1>7. ASSUME NEW r \in Request, NEW acquired \in SUBSET Artifacts,
               (\E script : EndSession(r, script, acquired)) \/ HandlerRaises(r, acquired)
        PROVE  Owns(c, t)'
    BY <1>2, <1>7 DEF EndSession, HandlerRaises, KeepSession
  <1>8. ASSUME NEW r \in Request, NEW acquired \in SUBSET Artifacts, HandlerStrays(r, acquired)
        PROVE  Owns(c, t)'
    BY <1>2, <1>8 DEF HandlerStrays, KeepSession
  <1> QED
    BY <1>4, <1>5, <1>6, <1>7, <1>8, NextCases DEF LedgerInv

\* What was stored stays until it is handed over.
LEMMA StoredStays ==
    ASSUME LedgerInv, [Next]_vars, NEW c \in Clients, NEW t \in Tokens, t < fresh, Stored(c, t)
    PROVE  Stored(c, t)'
  <1>1. ServerTypes /\ fresh \in Nat
    BY BoundsAssumption DEF LedgerInv, TypeInv, TypeOK, ServerTypes, ServerTypeOK
  <1>2. ASSUME sessions'[c] # NoSession => Live(c) /\ sessions'[c].token = sessions[c].token
                                             /\ sessions'[c].pending \in {sessions[c].pending, NoReceive}
        PROVE  Stored(c, t)'
    BY <1>2 DEF Stored, Live
  <1>3. ASSUME NEW d, Drawn(d) PROVE Stored(c, t)'
    <2>1. CASE d = c
      BY <1>1, <1>3, <2>1 DEF Stored, Drawn
    <2>2. CASE d # c
      BY <1>2, <1>3, <2>2 DEF Drawn, Live
    <2> QED
      BY <2>1, <2>2
  <1>4. CASE Quiet
    BY <1>2, <1>4, QuietEffect DEF Live
  <1>5. CASE Shrinking
    BY <1>1, <1>2, <1>5, ShrinkingEffect DEF SessionsShrink
  <1>6. CASE CloseAny
    <2>1. PICK u \in uploads, whole \in BOOLEAN : CloseUpload(u, whole)
      BY <1>6 DEF CloseAny
    <2>2. u.put.token \in Tokens
      BY <1>1 DEF ServerTypes, ServerTypeOK, Put
    <2>3. [token |-> u.put.token, whole |-> whole] # NoBody
      BY <2>2, NullsAssumption DEF Body
    <2>4. CASE sessions'[c] = sessions[c]
      BY <1>2, <2>4 DEF Live
    <2>5. CASE sessions'[c].pending.uploaded = [token |-> u.put.token, whole |-> whole]
      BY <2>3, <2>5 DEF Stored
    <2> QED
      BY <1>1, <2>1, <2>4, <2>5, CloseUploadEffect
  <1>7. CASE \E r \in Request : StartSession(r)
    BY <1>1, <1>3, <1>7, StartSessionDraws
  <1>8. ASSUME NEW r \in Request, NEW acquired \in SUBSET Artifacts,
               \E kind \in {"exec", "recv"} : AwaitInstruction(r, kind, acquired)
        PROVE  Stored(c, t)'
    BY <1>1, <1>3, <1>8, AwaitInstructionDraws
  <1>9. ASSUME NEW r \in Request, NEW acquired \in SUBSET Artifacts,
               (\E script : EndSession(r, script, acquired)) \/ HandlerRaises(r, acquired)
        PROVE  Stored(c, t)'
    <2>1. r.client \in Clients /\ sessions[r.client] \in Session
      BY <1>1, <1>9, CurrentToken DEF EndSession, HandlerRaises, KeepSession, Resume, CanResume
    <2>2. \A d \in Clients : d # r.client => sessions'[d] = sessions[d]
      BY <1>1, <1>9, <2>1 DEF EndSession, Discard, HandlerRaises, KeepSession, ServerTypes, ServerTypeOK
    <2>3. sessions'[r.client] = NoSession \/ sessions'[r.client].pending = NoReceive
      <3>1. CASE \E script : EndSession(r, script, acquired)
        BY <1>1, <2>1, <3>1 DEF EndSession, Discard, ServerTypes, ServerTypeOK
      <3>2. CASE HandlerRaises(r, acquired)
        BY <1>1, <2>1, <3>2 DEF HandlerRaises, KeepSession, Session, ServerTypes, ServerTypeOK
      <3> QED
        BY <1>9, <3>1, <3>2
    <2>4. CASE c = r.client
      BY <2>3, <2>4 DEF Stored, Live
    <2>5. CASE c # r.client
      BY <1>2, <2>2, <2>5 DEF Live
    <2> QED
      BY <2>4, <2>5
  <1>10. ASSUME NEW r \in Request, NEW acquired \in SUBSET Artifacts, HandlerStrays(r, acquired)
         PROVE  Stored(c, t)'
    <2>1. /\ r.client \in Clients /\ sessions[r.client] \in Session
          /\ \A d \in Clients : d # r.client => sessions'[d] = sessions[d]
      BY <1>1, <1>10, StrayedResumable, LiveSession DEF CanStillResume, ServerTypes
    <2>2. sessions'[r.client].pending = NoReceive
      BY <1>1, <1>10, <2>1 DEF HandlerStrays, KeepSession, Session, ServerTypes, ServerTypeOK
    <2> QED
      BY <1>2, <2>1, <2>2 DEF Stored, Live
  <1> QED
    BY <1>4, <1>5, <1>6, <1>7, <1>8, <1>9, <1>10, NextCases DEF LedgerInv

\* No new session has the token of a file that an earlier runtime opened.
LEMMA TokensOfOldUploads ==
    ASSUME LedgerInv, [Next]_vars, NEW c \in Clients, NEW t \in Tokens, t < fresh,
           Live(c) => sessions[c].token # t
    PROVE  Live(c)' => sessions'[c].token # t
  <1>1. ServerTypes /\ fresh \in Nat
    BY BoundsAssumption DEF LedgerInv, TypeInv, TypeOK, ServerTypes, ServerTypeOK
  <1>2. ASSUME sessions'[c] # NoSession => Live(c) /\ sessions'[c].token = sessions[c].token
        PROVE  Live(c)' => sessions'[c].token # t
    BY <1>2 DEF Live
  <1>3. ASSUME NEW d, Drawn(d) PROVE Live(c)' => sessions'[c].token # t
    <2>1. CASE d = c
      BY <1>1, <1>3, <2>1 DEF Drawn
    <2>2. CASE d # c
      BY <1>2, <1>3, <2>2 DEF Drawn, Live
    <2> QED
      BY <2>1, <2>2
  <1>4. CASE Quiet \/ Shrinking \/ CloseAny
    BY <1>1, <1>2, <1>4, QuietEffect, ShrinkingEffect, CloseUploadEffect
       DEF SessionsShrink, CloseAny, Live
  <1>5. CASE \E r \in Request : StartSession(r)
    BY <1>1, <1>3, <1>5, StartSessionDraws
  <1>6. ASSUME NEW r \in Request, NEW acquired \in SUBSET Artifacts,
               \E kind \in {"exec", "recv"} : AwaitInstruction(r, kind, acquired)
        PROVE  Live(c)' => sessions'[c].token # t
    BY <1>1, <1>3, <1>6, AwaitInstructionDraws
  <1>7. ASSUME NEW r \in Request, NEW acquired \in SUBSET Artifacts,
               (\E script : EndSession(r, script, acquired)) \/ HandlerRaises(r, acquired)
        PROVE  Live(c)' => sessions'[c].token # t
    <2>1. r.client \in Clients /\ sessions[r.client] \in Session
      BY <1>1, <1>7, CurrentToken DEF EndSession, HandlerRaises, KeepSession, Resume, CanResume
    <2>2. \A d \in Clients : d # r.client => sessions'[d] = sessions[d]
      BY <1>1, <1>7, <2>1 DEF EndSession, Discard, HandlerRaises, KeepSession, ServerTypes, ServerTypeOK
    <2>3. sessions'[r.client] = NoSession \/ sessions'[r.client].token = sessions[r.client].token
      <3>1. CASE \E script : EndSession(r, script, acquired)
        BY <1>1, <2>1, <3>1 DEF EndSession, Discard, ServerTypes, ServerTypeOK
      <3>2. CASE HandlerRaises(r, acquired)
        BY <1>1, <2>1, <3>2 DEF HandlerRaises, KeepSession, Session, ServerTypes, ServerTypeOK
      <3> QED
        BY <1>7, <3>1, <3>2
    <2>4. Live(r.client)
      BY <1>7 DEF EndSession, HandlerRaises, KeepSession, Resume, CanResume, Current
    <2> QED
      BY <1>2, <2>2, <2>3, <2>4 DEF Live
  <1>8. ASSUME NEW r \in Request, NEW acquired \in SUBSET Artifacts, HandlerStrays(r, acquired)
        PROVE  Live(c)' => sessions'[c].token # t
    BY <1>1, <1>2, <1>8, StrayedResumable DEF CanStillResume, Live
  <1> QED
    BY <1>4, <1>5, <1>6, <1>7, <1>8, NextCases DEF LedgerInv

\* A step keeps what is said of the tokens it finds on the link and on the boards.
LEMMA LinkTokensStay ==
    ASSUME LedgerInv, LinkInv, [Next]_vars
    PROVE  /\ \A r \in wire : r.token \in Tokens => Owns(r.client, r.token)'
           /\ \A c \in Clients : \A s \in answers[c] : s.token \in Tokens => Owns(c, s.token)'
           /\ \A c \in Clients, t \in Tokens : board[c].token = t => Owns(c, t)'
           /\ \A put \in puts : Owns(put.client, put.token)'
           /\ \A u \in uploads : Owns(u.put.client, u.put.token)'
           /\ \A r \in wire : r.report = "ok" => r.token \in Tokens /\ Stored(r.client, r.token)'
           /\ \A c \in Clients : board[c].acked => board[c].token \in Tokens
           /\ \A c \in Clients, t \in Tokens : board[c].acked /\ board[c].token = t => Stored(c, t)'
           /\ \A u \in uploads, c \in Clients :
                  u.epoch # epoch /\ Live(c)' => sessions'[c].token # u.put.token
  <1>1. /\ \A r \in wire : r.client \in Clients
        /\ \A put \in puts : put.client \in Clients /\ put.token \in Tokens
        /\ \A u \in uploads : u.put.client \in Clients /\ u.put.token \in Tokens
    BY DEF LedgerInv, TypeInv, TypeOK, LinkTypeOK, ServerTypeOK, Request, Put
  <1>2. /\ \A r \in wire : r.token \in Tokens => Owns(r.client, r.token)'
        /\ \A c \in Clients : \A s \in answers[c] : s.token \in Tokens => Owns(c, s.token)'
        /\ \A c \in Clients, t \in Tokens : board[c].token = t => Owns(c, t)'
        /\ \A put \in puts : Owns(put.client, put.token)'
        /\ \A u \in uploads : Owns(u.put.client, u.put.token)'
    BY <1>1, OwnsStays DEF LinkInv, LinkOwned
  <1>3. /\ \A r \in wire : r.report = "ok" => r.token \in Tokens /\ Stored(r.client, r.token)'
        /\ \A c \in Clients : board[c].acked => board[c].token \in Tokens
        /\ \A c \in Clients, t \in Tokens : board[c].acked /\ board[c].token = t => Stored(c, t)'
    BY <1>1, StoredStays DEF LinkInv, LinkStored, LinkOwned, Owns
  <1>4. \A u \in uploads, c \in Clients :
            u.epoch # epoch /\ Live(c)' => sessions'[c].token # u.put.token
    BY <1>1, TokensOfOldUploads DEF LinkInv, LinkStored, LinkOwned, Owns
  <1> QED
    BY <1>2, <1>3, <1>4

\* What the server answers to an RRQ.
LEMMA HandleAnswers ==
    ASSUME TypeInv, NEW r \in wire, Handle(r)
    PROVE  /\ wire' \subseteq wire
           /\ UNCHANGED <<puts, uploads, epoch, board>>
           /\ \A c \in Clients : \A s \in answers'[c] :
                  \/ s \in answers[c]
                  \/ s.token \notin Tokens
                  \/ c = r.client /\ s.token = fresh /\ Drawn(c)
  <1>1. r \in Request /\ ServerTypes /\ LinkTypeOK
    BY DEF TypeInv, TypeOK, ServerTypes, LinkTypeOK
  <1>2. ASSUME NEW script, Answer(r, script)
        PROVE  /\ wire' \subseteq wire /\ puts' = puts
               /\ \A c \in Clients : \A s \in answers'[c] :
                      s \in answers[c] \/ (c = r.client /\ s = script)
    BY <1>1, <1>2, WithoutSubset DEF Answer, LinkTypeOK
  <1>3. NoAnswer(r) => wire' \subseteq wire /\ UNCHANGED <<puts, answers>>
    BY WithoutSubset DEF NoAnswer
  <1>4. CASE StartSession(r)
    <2>1. Drawn(r.client) /\ Answer(r, Continuation("probe"))
      BY <1>1, <1>4, StartSessionDraws DEF StartSession
    <2> QED
      BY <1>2, <1>4, <2>1 DEF StartSession, Continuation, Handle
  <1>5. CASE RejectStale(r) \/ FailPreflight(r) \/ CreateHandlerRaises(r) \/ ResumeWithoutHandler(r)
    <2>1. \/ \E kind : Answer(r, [kind |-> kind, token |-> NoToken])
          \/ NoAnswer(r)
      BY <1>5 DEF RejectStale, FailPreflight, CreateHandlerRaises, AnswerException,
                  ResumeWithoutHandler
    <2>2. UNCHANGED <<uploads, epoch, board>>
      BY <1>5 DEF Handle, RejectStale, FailPreflight, CreateHandlerRaises, ResumeWithoutHandler,
                  serverVars
    <2>3. ASSUME NEW kind, Answer(r, [kind |-> kind, token |-> NoToken])
          PROVE  \A c \in Clients : \A s \in answers'[c] : s \in answers[c] \/ s.token \notin Tokens
      BY <1>2, <2>3
    <2> QED
      BY <1>2, <1>3, <2>1, <2>2, <2>3
  <1>6. ASSUME NEW acquired \in SUBSET Artifacts, NEW kind \in {"exec", "recv"},
               AwaitInstruction(r, kind, acquired)
        PROVE  /\ wire' \subseteq wire
               /\ UNCHANGED <<puts, uploads, epoch, board>>
               /\ \A c \in Clients : \A s \in answers'[c] :
                      s \in answers[c] \/ (c = r.client /\ s.token = fresh /\ Drawn(c))
    <2>1. Drawn(r.client) /\ Answer(r, Continuation(kind))
      BY <1>1, <1>6, AwaitInstructionDraws DEF AwaitInstruction
    <2> QED
      BY <1>2, <1>6, <2>1 DEF AwaitInstruction, Resume, Continuation, Handle
  <1>7. ASSUME NEW acquired \in SUBSET Artifacts,
               \/ FinalInstruction(r, acquired)
               \/ HandlerReturns(r, acquired)
               \/ HandlerRaises(r, acquired)
               \/ HandlerStrays(r, acquired)
        PROVE  /\ wire' \subseteq wire
               /\ UNCHANGED <<puts, uploads, epoch, board>>
               /\ \A c \in Clients : \A s \in answers'[c] : s \in answers[c] \/ s.token \notin Tokens
    <2>1. UNCHANGED <<uploads, epoch, board>>
      BY <1>7 DEF Handle, FinalInstruction, HandlerReturns, EndSession, HandlerRaises,
                  HandlerStrays, KeepSession, Resume
    <2>2. \/ \E kind : Answer(r, [kind |-> kind, token |-> NoToken])
          \/ NoAnswer(r)
      BY <1>7 DEF FinalInstruction, HandlerReturns, EndSession, HandlerRaises, HandlerStrays,
                  AnswerException
    <2>3. ASSUME NEW kind, Answer(r, [kind |-> kind, token |-> NoToken])
          PROVE  \A c \in Clients : \A s \in answers'[c] : s \in answers[c] \/ s.token \notin Tokens
      BY <1>2, <2>3
    <2> QED
      BY <1>2, <1>3, <2>1, <2>2, <2>3
  <1> QED
    BY <1>4, <1>5, <1>6, <1>7 DEF Handle, AcquireAndAdvance

\* The upload a board is acknowledged for is recorded, if it is waited for at all.
LEMMA FinishStores ==
    ASSUME LedgerInv, LinkInv, NEW u \in uploads, FinishUpload(u)
    PROVE  board[u.put.client].token = u.put.token /\ Stored(u.put.client, u.put.token)'
  <1> DEFINE c == u.put.client
             t == u.put.token
             body == [token |-> t, whole |-> TRUE]
  <1>1. c \in Clients /\ t \in Tokens /\ ServerTypes
    BY DEF LedgerInv, TypeInv, TypeOK, ServerTypes, ServerTypeOK, Put
  <1>2. board[c].token = t /\ CloseUpload(u, TRUE)
    <2>1. PutOf(c).token = t
      BY DEF FinishUpload, Sending
    <2> QED
      BY <2>1 DEF FinishUpload, PutOf
  <1>3. CASE u.epoch = epoch /\ Expected(u.put)
    <2>1. sessions' = [sessions EXCEPT ![c].pending.uploaded = body] /\ Live(c)
           /\ sessions[c].pending # NoReceive
      BY <1>2, <1>3 DEF CloseUpload, Expected
    <2>2. sessions[c] \in Session /\ sessions[c].pending \in Pending
      BY <1>1, <2>1, LiveSession DEF ServerTypes
    <2>3. sessions'[c].pending.uploaded = body
      BY <1>1, <2>1, <2>2 DEF Session, Pending, ServerTypes, ServerTypeOK
    <2>4. body \in Body
      BY <1>1 DEF Body
    <2>5. body # NoBody
      BY <2>4, NullsAssumption
    <2> QED
      BY <1>2, <2>3, <2>5 DEF Stored
  <1>4. CASE ~(u.epoch = epoch /\ Expected(u.put))
    <2>1. sessions' = sessions
      BY <1>2, <1>4 DEF CloseUpload
    <2>2. ~(Live(c) /\ sessions[c].token = t /\ sessions[c].pending # NoReceive)
      BY <1>1, <1>4 DEF Expected, LinkInv, LinkStored, LedgerInv, UploadInv, ReceiveIsCurrent
    <2> QED
      BY <1>2, <2>1, <2>2 DEF Stored, Live
  <1> QED
    BY <1>3, <1>4

LEMMA NextLink ==
    ASSUME LedgerInv, LinkInv, [Next]_vars
    PROVE  LinkInv'
  <1> USE LinkTokensStay
  <1>1. TypeInv /\ LinkTypeOK /\ ServerTypeOK /\ BoardTypeOK
    BY DEF LedgerInv, TypeInv, TypeOK
  <1>2. ASSUME NEW r \in wire, Handle(r) PROVE LinkInv'
    <2>1. fresh \in Nat
      BY <1>1, BoundsAssumption DEF ServerTypeOK
    <2>2. ASSUME NEW c \in Clients, NEW s \in answers'[c], s.token \in Tokens
          PROVE  Owns(c, s.token)'
      <3>1. CASE s \in answers[c]
        BY <2>2, <3>1
      <3>2. CASE s.token = fresh /\ Drawn(c)
        BY <1>1, <2>1, <3>2 DEF Owns, Drawn, TypeInv, TypeOK, HistoryTypeOK
      <3> QED
        BY <1>1, <1>2, <2>2, <3>1, <3>2, HandleAnswers
    <2>3. LinkOwned'
      BY <1>1, <1>2, <2>2, HandleAnswers DEF LinkOwned
    <2>4. LinkStored'
      BY <1>1, <1>2, HandleAnswers DEF LinkStored
    <2> QED
      BY <2>3, <2>4 DEF LinkInv
  <1>3. ASSUME NEW put \in puts, HandlePut(put) PROVE LinkInv'
    <2>1. /\ puts' \subseteq puts /\ uploads' \subseteq uploads \cup {[put |-> put, epoch |-> epoch]}
          /\ UNCHANGED <<wire, answers, board, epoch>>
      BY <1>3, WithoutSubset DEF HandlePut, OpenUpload, RefuseUpload, serverVars
    <2> QED
      BY <2>1 DEF LinkInv, LinkOwned, LinkStored
  <1>4. ASSUME NEW u \in uploads, FinishUpload(u) PROVE LinkInv'
    <2>1. /\ uploads' \subseteq uploads /\ UNCHANGED <<wire, answers, puts, epoch>>
          /\ \A c \in Clients :
                 /\ board'[c].token = board[c].token
                 /\ c # u.put.client => board'[c].acked = board[c].acked
      BY <1>1, <1>4 DEF FinishUpload, CloseUpload, Acknowledge, link, BoardTypeOK, BoardState
    <2>2. LinkOwned'
      BY <2>1 DEF LinkOwned
    <2>3. ASSUME NEW c \in Clients, NEW t, board'[c].acked, board'[c].token = t
          PROVE  t \in Tokens /\ Stored(c, t)'
      <3>1. CASE c = u.put.client
        <4>1. u.put.token \in Tokens
          BY <1>1 DEF ServerTypeOK, Put
        <4> QED
          BY <1>4, <2>1, <2>3, <3>1, <4>1, FinishStores
      <3>2. CASE c # u.put.client
        BY <2>1, <2>3, <3>2
      <3> QED
        BY <3>1, <3>2
    <2>4. LinkStored'
      BY <1>4, <2>1, <2>3 DEF LinkStored
    <2> QED
      BY <2>2, <2>4 DEF LinkInv
  <1>5. ASSUME NEW u \in uploads, AbortUpload(u) PROVE LinkInv'
    <2>1. uploads' \subseteq uploads /\ UNCHANGED <<wire, answers, puts, epoch, board>>
      BY <1>5 DEF AbortUpload, CloseUpload, link
    <2> QED
      BY <2>1 DEF LinkInv, LinkOwned, LinkStored
  <1>6. CASE (Restart \/ Reload) /\ UNCHANGED board
    <2>1. /\ uploads' \subseteq uploads /\ UNCHANGED <<wire, answers, puts, board>>
          /\ \A c \in Clients : ~Live(c)'
      BY <1>6 DEF Restart, Reload, NewRuntime, link, Live
    <2> QED
      BY <2>1 DEF LinkInv, LinkOwned, LinkStored
  <1>7. ASSUME NEW c \in Clients, Boot(c), UNCHANGED <<serverVars, history>> PROVE LinkInv'
    <2> DEFINE r == [client |-> c, boot |-> board[c].boot + 1, token |-> NoToken,
                     report |-> "start"]
    <2>1. wire' = wire \cup {r}
      BY <1>7 DEF Boot, Open
    <2>2. /\ UNCHANGED <<puts, uploads, epoch>>
          /\ answers' = [answers EXCEPT ![c] = {}]
          /\ board'[c].token = NoToken /\ ~board'[c].acked
          /\ \A d \in Clients : d # c => board'[d] = board[d]
      BY <1>1, <1>7 DEF Boot, Open, serverVars, BoardTypeOK
    <2>3. \A d \in Clients : answers'[d] \subseteq answers[d]
      BY <1>1, <2>2 DEF LinkTypeOK
    <2>4. LinkOwned'
      BY <2>1, <2>2, <2>3 DEF LinkOwned, Tokens, NoToken
    <2>5. LinkStored'
      BY <2>1, <2>2 DEF LinkStored
    <2> QED
      BY <2>4, <2>5 DEF LinkInv
  <1>8. ASSUME NEW c \in Clients, BoardStep(c) PROVE LinkInv'
    <2>0. UNCHANGED <<uploads, epoch>> /\ board[c] \in BoardState
      BY <1>1, <1>8 DEF BoardStep, serverVars, BoardTypeOK
    <2>1. ASSUME NEW report, Ask(c, report), report = "ok" => board[c].acked PROVE LinkInv'
      <3> DEFINE r == [client |-> c, boot |-> board[c].boot, token |-> board[c].token,
                       report |-> report]
      <3>1. wire' = wire \cup {r}
        BY <2>1 DEF Ask, Open
      <3>2. /\ puts' = puts /\ \A d \in Clients : answers'[d] \subseteq answers[d]
            /\ \A d \in Clients : board'[d].token = board[d].token
                                    /\ board'[d].acked = board[d].acked
        BY <1>1, <2>1 DEF Ask, Open, LinkTypeOK, BoardTypeOK, BoardState
      <3>3. LinkOwned'
        BY <2>0, <3>1, <3>2 DEF LinkOwned
      <3>4. LinkStored'
        BY <2>0, <2>1, <3>1, <3>2 DEF LinkStored
      <3> QED
        BY <3>3, <3>4 DEF LinkInv
    <2>2. ASSUME NEW s \in answers[c], Receive(c, s) PROVE LinkInv'
      <3>1. /\ UNCHANGED <<wire, puts>> /\ \A d \in Clients : answers'[d] \subseteq answers[d]
            /\ \A d \in Clients : d # c => board'[d] = board[d]
        BY <1>1, <2>2 DEF Receive, Close, LinkTypeOK, BoardTypeOK
      <3>2. \/ board'[c].token = board[c].token /\ board'[c].acked = board[c].acked
            \/ board'[c].token = s.token /\ ~board'[c].acked
        <4>1. CASE s.kind \in {"miss", "final"}
          BY <1>1, <2>0, <2>2, <4>1 DEF Receive, BoardTypeOK, BoardState
        <4>2. CASE s.kind \notin {"miss", "final"}
          BY <1>1, <2>0, <2>2, <4>2 DEF Receive, BoardTypeOK, BoardState
        <4> QED
          BY <4>1, <4>2
      <3>3. LinkOwned'
        BY <2>0, <3>1, <3>2 DEF LinkOwned
      <3>4. LinkStored'
        BY <2>0, <3>1, <3>2 DEF LinkStored
      <3> QED
        BY <3>3, <3>4 DEF LinkInv
    <2>3. CASE TimeOut(c)
      <3>1. /\ UNCHANGED <<wire, puts>> /\ \A d \in Clients : answers'[d] \subseteq answers[d]
            /\ \A d \in Clients : board'[d].token = board[d].token
                                    /\ board'[d].acked = board[d].acked
        BY <1>1, <2>3 DEF TimeOut, Close, LinkTypeOK, BoardTypeOK, BoardState
      <3> QED
        BY <2>0, <3>1 DEF LinkInv, LinkOwned, LinkStored
    <2>4. CASE StartPut(c)
      <3> DEFINE put == [client |-> c, token |-> board[c].token, attempt |-> board[c].attempt + 1]
      <3>1. puts' = puts \cup {put}
        BY <2>4 DEF StartPut, PutOf
      <3>2. /\ UNCHANGED <<wire, answers>>
            /\ \A d \in Clients : board'[d].token = board[d].token
                                    /\ (d = c \/ board'[d].acked = board[d].acked)
            /\ ~board'[c].acked
        BY <1>1, <2>4 DEF StartPut, BoardTypeOK, BoardState
      <3>3. board[c].token \in Tokens
        BY <1>1, <2>0, <2>4 DEF StartPut, TypeInv, BoardsAreOn, BoardState
      <3>4. LinkOwned'
        BY <2>0, <3>1, <3>2, <3>3 DEF LinkOwned
      <3>5. LinkStored'
        BY <2>0, <3>1, <3>2 DEF LinkStored
      <3> QED
        BY <3>4, <3>5 DEF LinkInv
    <2> QED
      BY <1>8, <2>1, <2>2, <2>3, <2>4 DEF BoardStep, Continue, PutSucceeds, PutFails
  <1>9. CASE UNCHANGED vars
    BY <1>9 DEF vars, link, serverVars, LinkInv, LinkOwned, LinkStored
  <1> QED
    BY <1>2, <1>3, <1>4, <1>5, <1>6, <1>7, <1>8, <1>9 DEF Next, ServerStep

\* In every reachable state, what is under way belongs to its board and is stored.
THEOREM LinkIsSound == Spec => [](LedgerInv /\ LinkInv)
  <1>1. Init => LinkInv
    BY DEF Init, LinkInit, ServerInit, BoardInit, LinkInv, LinkOwned, LinkStored
  <1>2. LedgerInv /\ LinkInv /\ [Next]_vars => (LedgerInv /\ LinkInv)'
    BY NextLedger, NextLink
  <1> QED
    BY <1>1, <1>2, InitLedgerInv, PTL DEF Spec

(***************************************************************************)
(* No RRQ of one board carries the token of another board's session,       *)
(* however many boards, boots and restarts there are.                      *)
(***************************************************************************)
THEOREM PrivateTokens == Spec => []TokensArePrivate
  <1>1. LedgerInv /\ LinkInv => TokensArePrivate
    <2> SUFFICES ASSUME LedgerInv, LinkInv, NEW r \in wire, NEW c \in Clients, Live(c),
                        r.token = sessions[c].token
                 PROVE  r.client = c
      BY DEF TokensArePrivate
    <2>1. sessions[c].token \in Tokens
      BY LiveSession DEF LedgerInv, TypeInv, TypeOK
    <2> QED
      BY <2>1 DEF LedgerInv, OwnersKnown, LinkInv, LinkOwned, Owns
  <1> QED
    BY <1>1, LinkIsSound, PTL

(***************************************************************************)
(* A board that reports recv=ok under the current token finds its upload   *)
(* recorded: exec_recv never fails for an upload that was acknowledged.    *)
(***************************************************************************)
THEOREM AcknowledgedIsStored == Spec => []OkMeansStored
  <1>1. LinkInv => OkMeansStored
    BY DEF LinkInv, LinkStored, OkMeansStored, Stored, Current
  <1> QED
    BY <1>1, LinkIsSound, PTL
----
(***************************************************************************)
(* The reliable link.  What board and server agree on is mostly what is    *)
(* under way between them: while a board waits, either its one RRQ is on   *)
(* the wire and still fits the session, or an answer that tells the truth  *)
(* about the session is on its way, or the dialogue is over.               *)
(***************************************************************************)
Silent(c) == \A r \in wire : r.client # c

\* Nothing is left to resume but a handler that went astray.
Over(c) == CanStillResume(c) => sessions[c].token \in strayed

\* The RRQ starts a session, or continues the one there is.
Fits(c, r) ==
    \/ r.token = NoToken /\ ~Live(c)
    \/ CanStillResume(c) /\ r.token = sessions[c].token

\* The board may believe the script: it is brought back, or it is over.
Truthful(c, script) ==
    \/ script.kind \in {"probe", "exec", "recv"} /\ CanStillResume(c) /\ script.token = sessions[c].token
    \/ script.kind = "miss" /\ ~CanStillResume(c)
    \/ script.kind = "final" /\ ~Live(c)

Waits(c) ==
    /\ \A r \in wire : r.client = c => asking[c] = {r} /\ answers[c] = {} /\ Fits(c, r)
    /\ \A script \in answers[c] : Truthful(c, script)
    /\ Silent(c) /\ answers[c] = {} => Over(c)

Agree(c) ==
    /\ board[c].mode = "waiting" => Waits(c)
    /\ board[c].mode # "waiting" => Silent(c)
    /\ board[c].mode \in {"running", "putting"} =>
           CanStillResume(c) /\ sessions[c].token = board[c].token
    /\ board[c].mode \in {"off", "done"} => ~Live(c)
    /\ board[c].mode = "stopped" => Over(c)

\* The handler is created only after the preflight.
PreflightFirst == \A c \in Clients : Live(c) /\ sessions[c].preflight => sessions[c].handler = "none"

StepInv == PreflightFirst /\ \A c \in Clients : Agree(c)

\* The link delivers everything once, the server stays up, the board is started once.
Reliable == ~Lossy /\ ~Duplicates /\ MaxRestarts = 0 /\ MaxBoots = 1

LEMMA InitStepInv == Init => StepInv
  BY DEF Init, LinkInit, ServerInit, BoardInit, StepInv, PreflightFirst, Agree, Silent, Live

\* A step that changes nothing of what c and its session share.
Untouched(c) ==
    /\ board'[c].mode = board[c].mode /\ board'[c].token = board[c].token
    /\ asking'[c] = asking[c] /\ answers'[c] = answers[c]
    /\ \A r : r.client = c => (r \in wire' <=> r \in wire)
    /\ Live(c)' <=> Live(c)
    /\ CanStillResume(c)' <=> CanStillResume(c)
    /\ Live(c) => sessions'[c].token = sessions[c].token
    /\ strayed \subseteq strayed'

LEMMA UntouchedAgree ==
    ASSUME NEW c \in Clients, Agree(c), Untouched(c)
    PROVE  Agree(c)'
  <1>1. Silent(c)' <=> Silent(c)
    BY DEF Untouched, Silent
  <1>2. \A r : Fits(c, r)' <=> Fits(c, r)
    BY DEF Untouched, Fits, CanStillResume
  <1>3. \A s : Truthful(c, s)' <=> Truthful(c, s)
    BY DEF Untouched, Truthful, CanStillResume
  <1>4. Over(c) => Over(c)'
    BY DEF Untouched, Over, CanStillResume
  <1>5. Waits(c) => Waits(c)'
    BY <1>1, <1>2, <1>3, <1>4 DEF Untouched, Waits
  <1> QED
    BY <1>1, <1>4, <1>5 DEF Untouched, Agree, CanStillResume

(***************************************************************************)
(* The server handles the RRQ a board waits for: what it answers, if it    *)
(* does, is true of the session it leaves.                                 *)
(***************************************************************************)
Served(c, r) ==
    /\ wire' = wire \ {r} /\ asking' = asking /\ board' = board
    /\ \A d \in Clients : d # c => answers'[d] = answers[d] /\ sessions'[d] = sessions[d]
    /\ \A script \in answers'[c] : Truthful(c, script)'
    /\ answers'[c] = {} => Over(c)'
    /\ strayed \subseteq strayed'
    /\ Live(c)' /\ sessions'[c].preflight => sessions'[c].handler = "none"

LEMMA HandleServes ==
    ASSUME Reliable, LedgerInv, PreflightFirst, NEW r \in wire, Handle(r),
           asking[r.client] = {r}, answers[r.client] = {}, Fits(r.client, r)
    PROVE  Served(r.client, r)
  <1> DEFINE c == r.client
             miss == [kind |-> "miss", token |-> NoToken]
  <1>1. ServerTypes /\ LinkTypeOK /\ r \in Request /\ c \in Clients /\ board' = board
    BY DEF LedgerInv, TypeInv, TypeOK, ServerTypes, LinkTypeOK, Request, Handle
  <1>2. ASSUME NEW script, Answer(r, script)
        PROVE  /\ wire' = wire \ {r} /\ asking' = asking
               /\ answers'[c] = {script}
               /\ \A d \in Clients : d # c => answers'[d] = answers[d]
    BY <1>1, <1>2 DEF Answer, Without, Reliable, LinkTypeOK
  <1>3. ASSUME NoAnswer(r)
        PROVE  /\ wire' = wire \ {r} /\ asking' = asking /\ answers' = answers
    BY <1>3 DEF NoAnswer, Without, Reliable
  <1>4. Current(r) => CanStillResume(c)
    <2>1. Live(c) => sessions[c].token # NoToken
      BY <1>1, LiveSession DEF ServerTypes
    <2> QED
      BY <2>1 DEF Current, Fits
  <1>5. ASSUME NEW script, Answer(r, script), Truthful(c, script)', strayed' = strayed,
               \A d \in Clients : d # c => sessions'[d] = sessions[d],
               Live(c)' /\ sessions'[c].preflight => sessions'[c].handler = "none"
        PROVE  Served(c, r)
    BY <1>1, <1>2, <1>5 DEF Served
  <1>6. ~RejectStale(r) /\ ~ResumeWithoutHandler(r)
    BY <1>4 DEF RejectStale, ResumeWithoutHandler, Fits, Current, CanStillResume
  <1>7. CASE StartSession(r)
    <2>1. Drawn(c) /\ Answer(r, Continuation("probe")) /\ strayed' = strayed
      BY <1>1, <1>7, StartSessionDraws DEF StartSession
    <2>2. sessions'[c].handler = "none"
      BY <1>1, <1>7 DEF StartSession, ServerTypes, ServerTypeOK
    <2>3. \A script : script = Continuation("probe") => Truthful(c, script)'
      BY <2>1 DEF Drawn, Truthful, Continuation
    <2> QED
      BY <1>5, <2>1, <2>2, <2>3 DEF Drawn
  <1>8. ASSUME NEW script \in Script, script.kind \in {"miss", "final"}, Answer(r, script),
               NEW held, Discard(c, held), strayed' = strayed
        PROVE  Served(c, r)
    <2>1. ~Live(c)' /\ \A d \in Clients : d # c => sessions'[d] = sessions[d]
      BY <1>1, <1>8 DEF Discard, Live, ServerTypes, ServerTypeOK
    <2>2. Truthful(c, script)'
      BY <1>8, <2>1 DEF Truthful, CanStillResume
    <2> QED
      BY <1>5, <1>8, <2>1, <2>2
  <1>9. CASE FailPreflight(r)
    BY <1>8, <1>9 DEF FailPreflight, Script, history
  <1>10. ASSUME AnswerException(r), ~CanStillResume(c)', strayed' = strayed,
                \A d \in Clients : d # c => sessions'[d] = sessions[d],
                Live(c)' /\ sessions'[c].preflight => sessions'[c].handler = "none"
         PROVE  Served(c, r)
    <2>1. CASE NoAnswer(r)
      <3>1. Over(c)'
        BY <1>10 DEF Over, CanStillResume
      <3> QED
        BY <1>1, <1>3, <1>10, <2>1, <3>1 DEF Served
    <2>2. CASE Answer(r, miss)
      <3>1. Truthful(c, miss)'
        BY <1>10 DEF Truthful, CanStillResume
      <3> QED
        BY <1>5, <1>10, <2>2, <3>1
    <2> QED
      BY <1>10, <2>1, <2>2 DEF AnswerException
  <1>11. CASE CreateHandlerRaises(r)
    <2>1. sessions[c] \in Session /\ sessions[c].preflight /\ Live(c)
      BY <1>1, <1>11, CurrentToken DEF CreateHandlerRaises, Current
    <2>2. /\ sessions'[c].preflight = FALSE /\ sessions'[c].handler = sessions[c].handler
          /\ \A d \in Clients : d # c => sessions'[d] = sessions[d]
      BY <1>1, <1>11, <2>1 DEF CreateHandlerRaises, Session, ServerTypes, ServerTypeOK
    <2>3. ~CanStillResume(c)'
      BY <1>1, <2>1, <2>2 DEF PreflightFirst, CanStillResume
    <2> QED
      BY <1>10, <1>11, <2>2, <2>3 DEF CreateHandlerRaises, history
  <1>12. ASSUME NEW acquired \in SUBSET Artifacts, NEW kind \in {"exec", "recv"},
               AwaitInstruction(r, kind, acquired)
        PROVE  Served(c, r)
    <2>1. Drawn(c) /\ Answer(r, Continuation(kind)) /\ strayed' = strayed
      BY <1>1, <1>12, AwaitInstructionDraws DEF AwaitInstruction
    <2>2. sessions'[c].preflight = FALSE
      BY <1>1, <1>12 DEF AwaitInstruction, ServerTypes, ServerTypeOK
    <2>3. \A script : script = Continuation(kind) => Truthful(c, script)'
      BY <2>1 DEF Drawn, Truthful, Continuation
    <2> QED
      BY <1>5, <2>1, <2>2, <2>3 DEF Drawn
  <1>13. ASSUME NEW acquired \in SUBSET Artifacts,
                FinalInstruction(r, acquired) \/ HandlerReturns(r, acquired)
         PROVE  Served(c, r)
    BY <1>8, <1>13 DEF FinalInstruction, HandlerReturns, EndSession, Script
  <1>14. ASSUME NEW acquired \in SUBSET Artifacts, HandlerRaises(r, acquired)
         PROVE  Served(c, r)
    <2>1. sessions[c] \in Session
      BY <1>1, <1>14, CurrentToken DEF HandlerRaises, KeepSession, Resume, CanResume
    <2>2. /\ sessions'[c].preflight = FALSE /\ sessions'[c].handler = "dead"
          /\ \A d \in Clients : d # c => sessions'[d] = sessions[d]
      BY <1>1, <1>14, <2>1 DEF HandlerRaises, KeepSession, Session, ServerTypes, ServerTypeOK
    <2> QED
      BY <1>10, <1>14, <2>2 DEF HandlerRaises, CanStillResume
  <1>15. ASSUME NEW acquired \in SUBSET Artifacts, HandlerStrays(r, acquired)
         PROVE  Served(c, r)
    <2>1. sessions'[c].token \in strayed' /\ strayed \subseteq strayed'
      <3>1. r.token = sessions[c].token /\ strayed' = strayed \cup {r.token}
        BY <1>15 DEF HandlerStrays, KeepSession, Resume, CanResume, Current
      <3>2. sessions'[c].token = sessions[c].token
        BY <1>1, <1>15, StrayedResumable
      <3> QED
        BY <3>1, <3>2
    <2>2. /\ \A d \in Clients : d # c => sessions'[d] = sessions[d]
          /\ sessions'[c].preflight = FALSE
      <3>1. sessions[c] \in Session
        BY <1>1, <1>15, StrayedResumable, LiveSession DEF CanStillResume, ServerTypes
      <3> QED
        BY <1>1, <1>15, <3>1 DEF HandlerStrays, KeepSession, Session, ServerTypes, ServerTypeOK
    <2>3. Over(c)'
      BY <2>1 DEF Over
    <2> QED
      BY <1>1, <1>3, <1>15, <2>1, <2>2, <2>3 DEF Served, HandlerStrays
  <1> QED
    BY <1>6, <1>7, <1>9, <1>11, <1>12, <1>13, <1>14, <1>15 DEF Handle, AcquireAndAdvance

LEMMA HandleAgrees ==
    ASSUME Reliable, LedgerInv, StepInv, NEW r \in wire, Handle(r)
    PROVE  StepInv'
  <1> DEFINE c == r.client
  <1>1. c \in Clients
    BY DEF LedgerInv, TypeInv, TypeOK, LinkTypeOK, Request
  <1>2. /\ board[c].mode = "waiting" /\ asking[c] = {r} /\ answers[c] = {} /\ Fits(c, r)
        /\ \A q \in wire : q.client = c => q = r
    BY <1>1 DEF StepInv, Agree, Silent, Waits
  <1>3. Served(c, r)
    BY <1>2, HandleServes DEF StepInv
  <1>4. PreflightFirst'
    BY <1>3 DEF Served, StepInv, PreflightFirst, Live
  <1>5. Agree(c)'
    BY <1>2, <1>3 DEF Served, Agree, Waits, Silent
  <1>6. ASSUME NEW d \in Clients, d # c PROVE Agree(d)'
    <2>1. Untouched(d)
      BY <1>3, <1>6 DEF Served, Untouched, Live, CanStillResume
    <2> QED
      BY <2>1, UntouchedAgree DEF StepInv
  <1> QED
    BY <1>4, <1>5, <1>6 DEF StepInv

(***************************************************************************)
(* The other steps.                                                        *)
(***************************************************************************)

\* Uploads come and go without touching what board and server agree on.
LEMMA UploadAgrees ==
    ASSUME LedgerInv, StepInv,
           \/ \E put \in puts : HandlePut(put)
           \/ \E u \in uploads : FinishUpload(u) \/ AbortUpload(u)
    PROVE  StepInv'
  <1>1. ServerTypes /\ BoardTypeOK
    BY DEF LedgerInv, TypeInv, TypeOK, ServerTypes
  <1>2. UNCHANGED <<wire, asking, answers, strayed>>
    BY DEF HandlePut, OpenUpload, RefuseUpload, FinishUpload, AbortUpload, CloseUpload, link,
           history
  <1>3. \A c \in Clients : board'[c].mode = board[c].mode /\ board'[c].token = board[c].token
    <2>1. board' = board \/ \E d : Acknowledge(d)
      BY DEF HandlePut, FinishUpload, AbortUpload
    <2> QED
      BY <1>1, <2>1 DEF Acknowledge, BoardTypeOK, BoardState
  <1>4. \A c \in Clients :
            /\ Live(c)' <=> Live(c)
            /\ Live(c) => /\ sessions'[c].token = sessions[c].token
                          /\ sessions'[c].preflight = sessions[c].preflight
                          /\ sessions'[c].handler = sessions[c].handler
    <2>1. CASE \E put \in puts : HandlePut(put)
      BY <2>1 DEF HandlePut, OpenUpload, RefuseUpload, serverVars, Live
    <2>2. CASE \E u \in uploads : FinishUpload(u) \/ AbortUpload(u)
      <3>1. PICK u \in uploads, whole \in BOOLEAN : CloseUpload(u, whole)
        BY <2>2 DEF FinishUpload, AbortUpload
      <3> QED
        BY <1>1, <3>1, CloseUploadEffect DEF Live
    <2> QED
      BY <2>1, <2>2
  <1>5. \A c \in Clients : Untouched(c)
    BY <1>2, <1>3, <1>4 DEF Untouched, CanStillResume
  <1>6. PreflightFirst'
    BY <1>4 DEF StepInv, PreflightFirst
  <1> QED
    BY <1>5, <1>6, UntouchedAgree DEF StepInv

\* Only c and its transfer change in a step of its board.
LEMMA OthersUntouched ==
    ASSUME StepInv, NEW c \in Clients, Agree(c)',
           UNCHANGED <<sessions, strayed>>,
           \A r : r.client # c => (r \in wire' <=> r \in wire),
           \A d \in Clients : d # c => board'[d] = board[d] /\ asking'[d] = asking[d]
                                         /\ answers'[d] = answers[d]
    PROVE  StepInv'
  <1>1. \A d \in Clients : d # c => Untouched(d)
    BY DEF Untouched, Live, CanStillResume
  <1>2. PreflightFirst'
    BY DEF StepInv, PreflightFirst, Live
  <1> QED
    BY <1>1, <1>2, UntouchedAgree DEF StepInv

\* A board that had nothing on the wire asks for what fits its session.
LEMMA OpenAgrees ==
    ASSUME LedgerInv, StepInv, NEW c \in Clients, NEW r, r.client = c, Open(c, r), Fits(c, r),
           Silent(c), UNCHANGED <<sessions, strayed>>, board'[c].mode = "waiting",
           \A d \in Clients : d # c => board'[d] = board[d]
    PROVE  StepInv'
  <1>1. /\ wire' = wire \cup {r} /\ asking'[c] = {r} /\ answers'[c] = {}
        /\ \A d \in Clients : d # c => asking'[d] = asking[d] /\ answers'[d] = answers[d]
    BY DEF Open, LedgerInv, TypeInv, TypeOK, LinkTypeOK
  <1>2. Fits(c, r)'
    BY DEF Fits, Live, CanStillResume
  <1>3. \A q \in wire' : q.client = c => q = r
    BY <1>1 DEF Silent
  <1>4. Waits(c)'
    BY <1>1, <1>2, <1>3 DEF Waits, Silent
  <1>5. Agree(c)'
    BY <1>4 DEF Agree
  <1> QED
    BY <1>1, <1>5, OthersUntouched

LEMMA BootAgrees ==
    ASSUME Reliable, LedgerInv, StepInv, NEW c \in Clients, Boot(c), UNCHANGED <<sessions, strayed>>
    PROVE  StepInv'
  <1> DEFINE r == [client |-> c, boot |-> board[c].boot + 1, token |-> NoToken, report |-> "start"]
  <1>1. BoardTypeOK /\ board[c].mode = "off"
    BY DEF LedgerInv, TypeInv, TypeOK, BoardTypeOK, BoardState, BoardsAreOn, Boot, Reliable
  <1>2. Open(c, r) /\ r.client = c /\ r.token = NoToken
    BY DEF Boot
  <1> HIDE DEF r
  <1>3. Fits(c, r) /\ Silent(c)
    BY <1>1, <1>2 DEF StepInv, Agree, Fits
  <1>4. board'[c].mode = "waiting" /\ \A d \in Clients : d # c => board'[d] = board[d]
    BY <1>1 DEF Boot, BoardTypeOK
  <1> QED
    BY <1>2, <1>3, <1>4, OpenAgrees

LEMMA BoardAgrees ==
    ASSUME Reliable, LedgerInv, StepInv, NEW c \in Clients, BoardStep(c)
    PROVE  StepInv'
  <1>1. LinkTypeOK /\ BoardTypeOK /\ board[c] \in BoardState /\ UNCHANGED <<sessions, strayed>>
    BY DEF LedgerInv, TypeInv, TypeOK, BoardStep, serverVars, history, BoardTypeOK
  <1>2. Agree(c)
    BY DEF StepInv
  <1>3. ASSUME NEW script \in answers[c], Receive(c, script) PROVE StepInv'
    <2>1. /\ wire' = wire
          /\ \A d \in Clients : d # c => board'[d] = board[d] /\ asking'[d] = asking[d]
                                           /\ answers'[d] = answers[d]
      BY <1>1, <1>3 DEF Receive, Close, LinkTypeOK, BoardTypeOK
    <2>2. Truthful(c, script) /\ Silent(c)
      BY <1>2, <1>3 DEF Agree, Receive, Waits, Silent
    <2>3. CASE script.kind = "miss"
      <3>1. board'[c].mode = "stopped"
        BY <1>1, <1>3, <2>3 DEF Receive, BoardTypeOK, BoardState
      <3>2. Agree(c)'
        BY <1>1, <2>1, <2>2, <2>3, <3>1 DEF Agree, Truthful, Silent, Over, CanStillResume, Live
      <3> QED
        BY <1>1, <2>1, <3>2, OthersUntouched
    <2>4. CASE script.kind = "final"
      <3>1. board'[c].mode = "done"
        BY <1>1, <1>3, <2>4 DEF Receive, BoardTypeOK, BoardState
      <3>2. Agree(c)'
        BY <1>1, <2>1, <2>2, <2>4, <3>1 DEF Agree, Truthful, Silent, Live
      <3> QED
        BY <1>1, <2>1, <3>2, OthersUntouched
    <2>5. CASE script.kind \in {"probe", "exec", "recv"}
      <3>1. board'[c].mode = "running" /\ board'[c].token = script.token
        BY <1>1, <1>3, <2>5 DEF Receive, BoardTypeOK, BoardState
      <3>2. Agree(c)'
        BY <1>1, <2>1, <2>2, <2>5, <3>1 DEF Agree, Truthful, Silent, CanStillResume, Live
      <3> QED
        BY <1>1, <2>1, <3>2, OthersUntouched
    <2> QED
      BY <2>2, <2>3, <2>4, <2>5 DEF Truthful
  <1>4. CASE TimeOut(c)
    <2>1. /\ wire' = wire /\ board'[c].mode = "stopped"
          /\ \A d \in Clients : d # c => board'[d] = board[d] /\ asking'[d] = asking[d]
                                           /\ answers'[d] = answers[d]
      BY <1>1, <1>4 DEF TimeOut, Close, LinkTypeOK, BoardTypeOK, BoardState
    <2>2. Silent(c) /\ Over(c)
      BY <1>2, <1>4 DEF Agree, TimeOut, Unanswered, Reliable, Waits, Silent
    <2>3. Agree(c)'
      BY <1>1, <2>1, <2>2 DEF Agree, Silent, Over, CanStillResume, Live
    <2> QED
      BY <1>1, <2>1, <2>3, OthersUntouched
  <1>5. ASSUME NEW report, Ask(c, report), board[c].mode \in {"running", "putting"} PROVE StepInv'
    <2> DEFINE r == [client |-> c, boot |-> board[c].boot, token |-> board[c].token,
                     report |-> report]
    <2>1. Open(c, r) /\ r.client = c /\ r.token = board[c].token
      BY <1>5 DEF Ask
    <2> HIDE DEF r
    <2>2. Fits(c, r) /\ Silent(c)
      BY <1>2, <1>5, <2>1 DEF Agree, Fits
    <2>3. board'[c].mode = "waiting" /\ \A d \in Clients : d # c => board'[d] = board[d]
      BY <1>1, <1>5 DEF Ask, BoardTypeOK, BoardState
    <2> QED
      BY <1>1, <2>1, <2>2, <2>3, OpenAgrees
  <1>6. CASE StartPut(c)
    <2>1. /\ UNCHANGED <<wire, asking, answers>>
          /\ board[c].mode \in {"running", "putting"}
          /\ board'[c].mode = "putting" /\ board'[c].token = board[c].token
          /\ \A d \in Clients : d # c => board'[d] = board[d]
      BY <1>1, <1>6 DEF StartPut, BoardTypeOK, BoardState
    <2>2. Agree(c)'
      BY <1>1, <1>2, <2>1 DEF Agree, Silent, CanStillResume, Live
    <2> QED
      BY <1>1, <2>1, <2>2, OthersUntouched
  <1> QED
    BY <1>3, <1>4, <1>5, <1>6 DEF BoardStep, Continue, PutSucceeds, PutFails

LEMMA NextStepInv == Reliable /\ LedgerInv /\ StepInv /\ [Next]_vars => StepInv'
  <1> SUFFICES ASSUME Reliable, LedgerInv, StepInv, [Next]_vars PROVE StepInv'
    OBVIOUS
  <1>1. ~(Restart \/ Reload)
    BY DEF Restart, Reload, NewRuntime, Reliable, LedgerInv, TypeInv, TypeOK, ServerTypeOK
  <1>2. CASE UNCHANGED vars
    <2>1. \A c \in Clients : Untouched(c)
      BY <1>2 DEF vars, serverVars, history, link, Untouched, Live, CanStillResume
    <2>2. PreflightFirst'
      BY <1>2 DEF vars, serverVars, StepInv, PreflightFirst, Live
    <2> QED
      BY <2>1, <2>2, UntouchedAgree DEF StepInv
  <1>3. CASE ServerStep
    BY <1>3, HandleAgrees, UploadAgrees DEF ServerStep
  <1>4. ASSUME NEW c \in Clients, BoardStep(c) PROVE StepInv'
    BY <1>4, BoardAgrees
  <1>5. ASSUME NEW c \in Clients, Boot(c), UNCHANGED <<serverVars, history>> PROVE StepInv'
    BY <1>5, BootAgrees DEF serverVars, history
  <1> QED
    BY <1>1, <1>2, <1>3, <1>4, <1>5 DEF Next

LEMMA StepInvariant == ASSUME Reliable PROVE Spec => [](LedgerInv /\ StepInv)
  <1>1. LedgerInv /\ StepInv /\ [Next]_vars => (LedgerInv /\ StepInv)'
    BY NextLedger, NextStepInv
  <1> QED
    BY <1>1, InitLedgerInv, InitStepInv, PTL DEF Spec

(***************************************************************************)
(* On a reliable link, with a server that stays up, the script a board is  *)
(* sourcing can always be continued, and a board stops only when nothing   *)
(* of its session can be resumed any more but a handler that went astray.  *)
(***************************************************************************)
THEOREM BoardsKeepStep == ASSUME Reliable PROVE Spec => []BoardInStep
  <1>1. LedgerInv /\ StepInv => BoardInStep
    <2> SUFFICES ASSUME LedgerInv, StepInv, NEW c \in Clients
                 PROVE  /\ board[c].mode \in {"running", "putting"} =>
                               Live(c) /\ sessions[c].token = board[c].token
                                 /\ Resumable(board[c].token)
                        /\ board[c].mode = "stopped" =>
                               ~\E t \in Tokens \ strayed : owner[t] = c /\ Resumable(t)
      BY DEF BoardInStep
    <2>1. Agree(c)
      BY DEF StepInv
    <2>2. ASSUME board[c].mode \in {"running", "putting"}
          PROVE  Live(c) /\ sessions[c].token = board[c].token /\ Resumable(board[c].token)
      BY <2>1, <2>2, ResumableIs DEF Agree, CanStillResume
    <2>3. ASSUME board[c].mode = "stopped", NEW t \in Tokens \ strayed, owner[t] = c, Resumable(t)
          PROVE  FALSE
      <3>1. PICK d \in Clients : CanStillResume(d) /\ sessions[d].token = t
        BY <2>3, ResumableIs
      <3>2. owner[t] = d
        BY <3>1 DEF LedgerInv, OwnersKnown, CanStillResume
      <3> QED
        BY <2>1, <2>3, <3>1, <3>2 DEF Agree, Over
    <2> QED
      BY <2>2, <2>3
  <1> QED
    BY <1>1, StepInvariant, PTL

(***************************************************************************)
(* A board that has sourced its last script on such a link leaves neither  *)
(* a session nor a download it is attached to.                             *)
(***************************************************************************)
THEOREM DoneIsReleased == ASSUME Reliable PROVE Spec => []DoneLeavesNothing
  <1>1. StepInv /\ ReferencesMatchSessions => DoneLeavesNothing
    BY DEF StepInv, Agree, ReferencesMatchSessions, DoneLeavesNothing
  <1> QED
    BY <1>1, StepInvariant, References, PTL
====
