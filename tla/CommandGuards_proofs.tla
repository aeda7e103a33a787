---- MODULE CommandGuards_proofs ----
(***************************************************************************)
(* Proofs about CommandGuards, for every set of commands, every assumed    *)
(* and every unheard-of command, every list of requests and every bound.   *)
(***************************************************************************)
EXTENDS CommandGuards, FiniteSetTheorems, TLAPS

\* The variables the framework uses are all different.
LEMMA VarsDiffer ==
    /\ StatusVar # ValueVar
    /\ \A i \in Nat : ProbeVar(i) # StatusVar /\ ProbeVar(i) # ValueVar
    /\ \A i, j \in Nat : ProbeVar(i) = ProbeVar(j) => i = j
    /\ StatusVar \in Vars /\ ValueVar \in Vars
    /\ \A i \in 1 .. MaxNeeds : ProbeVar(i) \in Vars
  BY SMT DEF StatusVar, ValueVar, ProbeVar, Vars

\* A list has at most MaxNeeds commands, under numbers from one.
LEMMA ListsAreNumbered ==
    ASSUME NEW q \in Lists
    PROVE  /\ DOMAIN q \subseteq 1 .. MaxNeeds
           /\ Listed(q) \subseteq Cmds
           /\ \A i \in DOMAIN q : ProbeVar(i) \in Vars
  <1>1. PICK n \in 0 .. MaxNeeds : q \in [1 .. n -> Cmds]
    BY DEF Lists
  <1>2. DOMAIN q = 1 .. n
    BY <1>1
  <1>3. 1 .. n \subseteq 1 .. MaxNeeds
    BY <1>1, GuardAssumption
  <1> QED
    BY <1>1, <1>2, <1>3, VarsDiffer DEF Listed

\* So do the probes of a script, those of its guard and those of check_cmds.
LEMMA ProbesAreNumbered ==
    ASSUME TypeOK
    PROVE  /\ script.probes \in Lists /\ script.checks \in Lists
           /\ Asked(script) \subseteq Cmds /\ Probed(script) \subseteq Asked(script)
           /\ \A i \in DOMAIN script.probes \cup DOMAIN script.checks :
                  i \in 1 .. MaxNeeds /\ ProbeVar(i) \in Vars
  <1>1. script.probes \in Lists /\ script.checks \in Lists
    BY DEF TypeOK, Script
  <1> QED
    BY <1>1, ListsAreNumbered DEF Asked, Probed

\* What the probe lines leave in the variable of a probe is the status of its command.
LEMMA ProbeOutcome ==
    ASSUME NEW q \in Lists, NEW e, NEW i \in DOMAIN q
    PROVE  AfterProbes(q, e)[ProbeVar(i)] = ExitStatus(q[i])
  <1>1. ProbeVar(i) \in Vars /\ i \in Nat /\ \A j \in DOMAIN q : j \in Nat
    BY ListsAreNumbered, GuardAssumption
  <1>2. (CHOOSE j \in DOMAIN q : ProbeVar(i) = ProbeVar(j)) = i
    BY <1>1, VarsDiffer
  <1> QED
    BY <1>1, <1>2 DEF AfterProbes

\* The lines of a script leave a value, or nothing, in every variable.
LEMMA LinesKeepTypes ==
    ASSUME TypeOK, NEW e \in [Vars -> Values]
    PROVE  /\ AfterProbes(script.probes, e) \in [Vars -> Values]
           /\ AfterBody(e) \in [Vars -> Values]
           /\ AfterFailure(e) \in [Vars -> Values]
  <1>1. \A q, d : d \in [Vars -> Values] => AfterProbes(q, d) \in [Vars -> Values]
    BY DEF AfterProbes, ExitStatus, Values
  <1>2. AfterBody(e) \in [Vars -> Values]
    <2>1. AfterCleanup(e) \in [Vars -> Values]
      BY DEF AfterCleanup, Values
    <2>2. AfterProbes(script.checks, AfterCleanup(e)) \in [Vars -> Values]
      BY <1>1, <2>1
    <2>3. script.step \in Values
      BY DEF TypeOK, Script, Values
    <2> QED
      BY <2>2, <2>3 DEF AfterBody, Values
  <1>3. AfterFailure(e) \in [Vars -> Values]
    BY DEF AfterFailure, Values
  <1> QED
    BY <1>1, <1>2, <1>3

\* The list of required commands is a set of at most MaxNeeds commands.
LEMMA RequiredAreFew ==
    ASSUME NEW r \in Requests, NEW kind
    PROVE  /\ Required(kind, r) \subseteq r.queued \cup r.own \cup r.snippet
           /\ r.queued \cup r.own \cup r.snippet \subseteq Cmds
           /\ \A S \in SUBSET (r.queued \cup r.own \cup r.snippet) :
                  Cardinality(S) \in 0 .. MaxNeeds
  <1>1. Required(kind, r) \subseteq r.queued \cup r.own \cup r.snippet
    BY DEF Required, Extended
  <1>2. r.queued \cup r.own \cup r.snippet \subseteq Cmds
    BY GuardAssumption
  <1>3. ASSUME NEW S \in SUBSET (r.queued \cup r.own \cup r.snippet)
        PROVE  Cardinality(S) \in 0 .. MaxNeeds
    <2>1. IsFiniteSet(r.queued \cup r.own \cup r.snippet)
      BY <1>2, GuardAssumption, FS_Subset
    <2>2. /\ Cardinality(S) <= Cardinality(r.queued \cup r.own \cup r.snippet)
          /\ IsFiniteSet(S)
      BY <2>1, FS_Subset
    <2>3. Cardinality(S) \in Nat /\ Cardinality(r.queued \cup r.own \cup r.snippet) \in Nat
      BY <2>1, <2>2, FS_CardinalityType
    <2> QED
      BY <2>2, <2>3, GuardAssumption
  <1> QED
    BY <1>1, <1>2, <1>3

\* The type invariant holds at the start.
LEMMA InitTypes == Init => TypeOK
  <1> SUFFICES ASSUME Init PROVE TypeOK
    OBVIOUS
  <1>1. <<>> \in Lists
    <2>1. <<>> \in [1 .. 0 -> Cmds] /\ 0 \in 0 .. MaxNeeds
      BY GuardAssumption
    <2> QED
      BY <2>1 DEF Lists
  <1>2. script \in Script
    BY <1>1, GuardAssumption DEF Init, Script
  <1> QED
    BY <1>2 DEF Init, TypeOK, Values, Answers, NoAnswer

\* The last step of every script keeps the type invariant.
LEMMA FinishTypes ==
    ASSUME TypeOK, NEW b \in BOOLEAN, NEW e \in [Vars -> Values], Finish(b, e)
    PROVE  TypeOK'
  <1>1. report' \in [Vars -> Values] /\ uploaded' \in BOOLEAN
    BY DEF Finish, TypeOK, Values
  <1>2. unchecked' \subseteq Cmds
    BY ProbesAreNumbered DEF Finish, TypeOK, Asked
  <1> QED
    BY <1>1, <1>2 DEF Finish, TypeOK

\* Writing a script keeps the type invariant.
LEMMA WriteTypes ==
    ASSUME TypeOK, NEW kind \in {"exec", "recv", "final", "check"}, NEW value \in BOOLEAN,
           NEW r \in Requests, Write(kind, r, value)
    PROVE  TypeOK'
  <1> DEFINE good == KnownGood(script)
             bad == KnownBad(script)
             needs == Required(kind, r)
             missing == Refused(needs, good, bad) # {}
             probed == IF missing THEN {} ELSE ToProbe(needs, good, bad)
             checked == IF kind = "check" THEN ToProbe(r.own, good, bad) ELSE {}
  <1>1. good \subseteq Cmds /\ bad \subseteq Cmds
    <2>1. Succeeded(script) \subseteq Asked(script)
      BY DEF Succeeded, Zero, Asked, Probed, Listed
    <2> QED
      BY <2>1, ProbesAreNumbered DEF KnownGood, KnownBad, TypeOK
  <1>2. /\ needs \subseteq Cmds /\ r.own \subseteq Cmds
        /\ probed \subseteq r.queued \cup r.own \cup r.snippet
        /\ checked \subseteq r.queued \cup r.own \cup r.snippet
    BY RequiredAreFew DEF ToProbe
  <1>3. supported' \subseteq Cmds /\ unsupported' \subseteq Cmds
    BY <1>1, <1>2 DEF Write
  <1>4. PICK probes \in Orders(probed), checks \in Orders(checked) :
            script' = [kind |-> kind, needs |-> needs, missing |-> missing,
                       probes |-> probes, checks |-> checks, value |-> value,
                       cleanup |-> Returned(script), step |-> script.step + 1,
                       uses |-> Used(kind, r),
                       listed |-> ListOf(kind, r) # {} \/ r.snippet = {}]
    BY DEF Write
  <1>5. ASSUME NEW S \in SUBSET (r.queued \cup r.own \cup r.snippet), NEW order \in Orders(S)
        PROVE  order \in Lists
    <2>1. Cardinality(S) \in 0 .. MaxNeeds /\ S \subseteq Cmds
      BY RequiredAreFew
    <2>2. order \in [1 .. Cardinality(S) -> Cmds]
      BY <2>1 DEF Orders
    <2> QED
      BY <2>1, <2>2 DEF Lists
  <1>6. Returned(script) \subseteq Vars
    BY ProbesAreNumbered, VarsDiffer DEF Returned
  <1>7. script.step + 1 \in 1 .. MaxSteps
    BY GuardAssumption DEF Write, TypeOK, Script
  <1>10. Used(kind, r) \subseteq Cmds
    BY RequiredAreFew DEF Used
  <1> HIDE DEF needs, missing, probed, checked
  <1>8. script' \in Script
    <2>1. missing \in BOOLEAN
      BY DEF missing
    <2>2. probes \in Lists /\ checks \in Lists
      BY <1>2, <1>5
    <2> QED
      BY <1>2, <1>4, <1>6, <1>7, <1>10, <2>1, <2>2 DEF Script
  <1>9. answer' \in Answers
    BY DEF Write, AnswerOf, StatusOf, Answers, TypeOK, Values, Vars
  <1> QED
    BY <1>3, <1>8, <1>9 DEF Write, TypeOK

(***************************************************************************)
(* Every variable keeps its type: a script probes at most MaxNeeds         *)
(* commands, so the framework never needs more probe variables             *)
(* (_build_request, ScriptRequest, the continuation RRQ).                  *)
(***************************************************************************)
THEOREM Types == Spec => []TypeOK
  <1>1. TypeOK /\ [Next]_vars => TypeOK'
    <2> SUFFICES ASSUME TypeOK, [Next]_vars PROVE TypeOK'
      OBVIOUS
    <2>1. ASSUME NEW kind \in {"exec", "recv", "final", "check"}, NEW value \in BOOLEAN,
                 NEW r \in Requests, Write(kind, r, value)
          PROVE  TypeOK'
      BY <2>1, WriteTypes
    <2>2. CASE RunMissing
      <3>1. env \in [Vars -> Values]
        BY DEF TypeOK
      <3> QED
        BY <2>2, <3>1, LinesKeepTypes, FinishTypes DEF RunMissing
    <2>3. CASE RunPlain
      <3>1. env \in [Vars -> Values]
        BY DEF TypeOK
      <3> QED
        BY <2>3, <3>1, LinesKeepTypes, FinishTypes DEF RunPlain
    <2>4. CASE RunGuarded
      <3>1. /\ AfterBody(AfterProbes(script.probes, env)) \in [Vars -> Values]
            /\ AfterFailure(AfterProbes(script.probes, env)) \in [Vars -> Values]
        BY LinesKeepTypes DEF TypeOK
      <3> QED
        BY <2>4, <3>1, FinishTypes DEF RunGuarded
    <2>5. CASE UNCHANGED vars
      BY <2>5 DEF vars, TypeOK
    <2> QED
      BY <2>1, <2>2, <2>3, <2>4, <2>5 DEF Next
  <1> QED
    BY <1>1, InitTypes, PTL DEF Spec
----
(***************************************************************************)
(* The inductive invariant.  What the server knows is true but for checks  *)
(* that were left out; a script that is not refused requires only what the       *)
(* server knows or what it probes; and the report a script leaves tells    *)
(* whether its body ran.                                                   *)
(***************************************************************************)
KnowledgeIsTrue ==
    /\ Assumed \subseteq has
    /\ SupportedIsTrue
    /\ supported \cap Unknown = {}
    /\ unsupported \cap Assumed = {}

ScriptIsGuarded ==
    /\ script.missing => script.probes = <<>>
    /\ ~script.missing => script.needs \subseteq has \cup unchecked \cup Probed(script)
    /\ script.listed => script.uses \subseteq script.needs
    /\ script.kind # "check" => script.checks = <<>>
    /\ script.missing \/ script.probes # <<>> => script.needs # {}
    /\ Asked(script) \cap (Assumed \cup Unknown) = {}

ReportTells ==
    /\ script.kind # "final"
    /\ script.kind = "recv" /\ ~ran => ~uploaded
    /\ HasStatus(script) => report[StatusVar] = IF ran THEN 1 ELSE 0
    /\ ~ran => script.kind = "recv" \/ HasStatus(script)
    /\ ran /\ script.value => report[ValueVar] = script.step

RunIsReported ==
    /\ turn = "board" => ~ran
    /\ ran => script.needs \subseteq has \cup unchecked
    /\ turn = "server" =>
           /\ Succeeded(script) \subseteq has \cup unchecked
           /\ script.step > 1 => ReportTells

GuardInv == KnowledgeIsTrue /\ ScriptIsGuarded /\ RunIsReported

\* Before the first script nothing is known and nothing is reported.
LEMMA InitGuard == Init => GuardInv
  <1> SUFFICES ASSUME Init PROVE GuardInv
    OBVIOUS
  <1>1. /\ script.probes = <<>> /\ script.checks = <<>>
        /\ Asked(script) = {} /\ Probed(script) = {} /\ Succeeded(script) = {}
    BY DEF Init, Asked, Probed, Listed, Succeeded, Zero
  <1>2. KnowledgeIsTrue
    BY DEF Init, KnowledgeIsTrue, SupportedIsTrue
  <1>3. ScriptIsGuarded
    BY <1>1 DEF Init, ScriptIsGuarded
  <1>4. RunIsReported
    BY <1>1 DEF Init, RunIsReported
  <1> QED
    BY <1>2, <1>3, <1>4 DEF GuardInv

\* Consuming a report leaves the knowledge true.
LEMMA ConsumedIsTrue ==
    ASSUME GuardInv, turn = "server"
    PROVE  /\ KnownGood(script) \subseteq has \cup unchecked
           /\ KnownGood(script) \cap (KnownBad(script) \cup Unknown) = {}
           /\ KnownBad(script) \cap Assumed = {}
  <1>1. /\ Succeeded(script) \subseteq has \cup unchecked
        /\ Succeeded(script) \subseteq Asked(script)
    BY DEF GuardInv, RunIsReported, Succeeded, Zero, Asked, Probed, Listed
  <1> QED
    BY <1>1 DEF GuardInv, KnowledgeIsTrue, SupportedIsTrue, ScriptIsGuarded, KnownGood, KnownBad

\* A list that orders a set has its members, and is empty if the set is.
LEMMA OrderLists ==
    ASSUME NEW S, NEW q \in Orders(S)
    PROVE  Listed(q) = S /\ (S = {} => q = <<>>) /\ (q # <<>> => S # {})
  <1>1. q \in [1 .. Cardinality(S) -> S] /\ \A c \in S : \E i \in DOMAIN q : q[i] = c
    BY DEF Orders
  <1>2. Listed(q) = S
    BY <1>1 DEF Listed
  <1>3. ASSUME S = {} PROVE q = <<>>
    <2>1. Cardinality(S) = 0
      BY <1>3, FS_EmptySet
    <2> QED
      BY <1>1, <2>1
  <1> QED
    BY <1>2, <1>3

\* A script that is written keeps the invariant: what it does not probe is known.
LEMMA WriteGuard ==
    ASSUME TypeOK, GuardInv,
           NEW kind \in {"exec", "recv", "final", "check"}, NEW value \in BOOLEAN,
           NEW r \in Requests, Write(kind, r, value)
    PROVE  GuardInv'
  <1> DEFINE good == KnownGood(script)
             bad == KnownBad(script)
             needs == Required(kind, r)
             missing == Refused(needs, good, bad) # {}
             probed == IF missing THEN {} ELSE ToProbe(needs, good, bad)
             checked == IF kind = "check" THEN ToProbe(r.own, good, bad) ELSE {}
  <1>1. /\ good \subseteq has \cup unchecked
        /\ good \cap (bad \cup Unknown) = {}
        /\ bad \cap Assumed = {}
        /\ Assumed \cap Unknown = {}
        /\ Assumed \subseteq has
    BY ConsumedIsTrue, GuardAssumption DEF Write, GuardInv, KnowledgeIsTrue
  <1>2. /\ supported' = good \cup ((needs \cup r.own) \cap Assumed)
        /\ unsupported' = bad \cup ((needs \cup r.own) \cap Unknown)
        /\ UNCHANGED <<has, unchecked>> /\ turn' = "board" /\ ran' = FALSE
    BY DEF Write
  <1>3. PICK probes \in Orders(probed), checks \in Orders(checked) :
            script' = [kind |-> kind, needs |-> needs, missing |-> missing,
                       probes |-> probes, checks |-> checks, value |-> value,
                       cleanup |-> Returned(script), step |-> script.step + 1,
                       uses |-> Used(kind, r),
                       listed |-> ListOf(kind, r) # {} \/ r.snippet = {}]
    BY DEF Write
  <1>4. /\ script'.kind = kind /\ script'.missing = missing /\ script'.needs = needs
        /\ script'.probes = probes /\ script'.checks = checks
        /\ script'.uses = Used(kind, r)
        /\ script'.listed = (ListOf(kind, r) # {} \/ r.snippet = {})
    BY <1>3
  <1>5. /\ Listed(probes) = probed /\ Listed(checks) = checked
        /\ probed = {} => probes = <<>>
        /\ checked = {} => checks = <<>>
        /\ probes # <<>> => probed # {}
    BY OrderLists
  <1>6. Probed(script)' = probed /\ Asked(script)' = probed \cup checked
    BY <1>4, <1>5 DEF Probed, Asked
  <1>7. KnowledgeIsTrue'
    BY <1>1, <1>2 DEF KnowledgeIsTrue, SupportedIsTrue
  <1>8. ScriptIsGuarded'
    <2>1. missing => probed = {} /\ needs # {}
      BY DEF Refused
    <2>2. ~missing => needs \subseteq has \cup unchecked \cup probed
      BY <1>1 DEF Refused, ToProbe
    <2>3. probed # {} => needs # {}
      BY DEF ToProbe
    <2>4. (probed \cup checked) \cap (Assumed \cup Unknown) = {}
      BY DEF ToProbe
    <2>5. ListOf(kind, r) # {} \/ r.snippet = {} => Used(kind, r) \subseteq needs
      BY DEF Required, Extended, ListOf, Used
    <2>6. kind # "check" => checked = {}
      OBVIOUS
    <2> HIDE DEF missing, probed, checked, needs
    <2> QED
      BY <1>2, <1>4, <1>5, <1>6, <2>1, <2>2, <2>3, <2>4, <2>5, <2>6 DEF ScriptIsGuarded
  <1>9. RunIsReported'
    BY <1>2 DEF RunIsReported
  <1> QED
    BY <1>7, <1>8, <1>9 DEF GuardInv

\* A script keeps the invariant if what it leaves in the variables tells what happened.
LEMMA FinishGuard ==
    ASSUME TypeOK, GuardInv, NEW b \in BOOLEAN, NEW e, Finish(b, e),
           b => script.needs \subseteq has \cup unchecked,
           ~b => script.needs # {},
           b => /\ Probed(script) \subseteq has
                /\ \A i \in DOMAIN script.checks :
                       e[ProbeVar(i)] = 0 => script.checks[i] \in has,
           ~b => \A i \in DOMAIN script.probes :
                     e[ProbeVar(i)] = 0 => script.probes[i] \in has,
           HasStatus(script) => e[StatusVar] = IF b THEN 1 ELSE 0,
           b /\ script.value => e[ValueVar] = script.step
    PROVE  GuardInv'
  <1>1. /\ UNCHANGED <<has, supported, unsupported, script>>
        /\ ran' = b /\ unchecked \subseteq unchecked'
        /\ ~b => Listed(script.checks) \subseteq unchecked'
        /\ turn' # "board"
        /\ turn' = "server" => /\ script.kind # "final"
                               /\ report' = [v \in Vars |->
                                      IF v \in Returned(script) THEN e[v] ELSE Empty]
                               /\ script.kind = "recv" /\ ~b => ~uploaded'
    BY DEF Finish
  <1>2. /\ Probed(script)' = Probed(script) /\ Asked(script)' = Asked(script)
        /\ HasStatus(script)' = HasStatus(script)
    BY <1>1 DEF Probed, Asked, HasStatus
  <1>3. KnowledgeIsTrue'
    BY <1>1 DEF GuardInv, KnowledgeIsTrue, SupportedIsTrue
  <1>4. ScriptIsGuarded'
    BY <1>1, <1>2 DEF GuardInv, ScriptIsGuarded
  <1>5. ASSUME turn' = "server" PROVE Succeeded(script)' \subseteq has \cup unchecked'
    <2>1. \A i \in DOMAIN script.probes \cup DOMAIN script.checks :
              report'[ProbeVar(i)] = e[ProbeVar(i)]
      BY <1>1, <1>5, ProbesAreNumbered DEF Returned
    <2>2. \A c \in Succeeded(script)' :
              \/ \E i \in DOMAIN script.probes : c = script.probes[i] /\ report'[ProbeVar(i)] = 0
              \/ \E i \in DOMAIN script.checks : c = script.checks[i] /\ report'[ProbeVar(i)] = 0
      BY <1>1 DEF Succeeded, Zero
    <2>3. CASE b
      <3>1. \A i \in DOMAIN script.probes : script.probes[i] \in has
        BY <2>3 DEF Probed, Listed
      <3> QED
        BY <2>1, <2>2, <2>3, <3>1
    <2>4. CASE ~b
      <3>1. \A i \in DOMAIN script.checks : script.checks[i] \in unchecked'
        BY <1>1, <2>4 DEF Listed
      <3> QED
        BY <2>1, <2>2, <2>4, <3>1
    <2> QED
      BY <2>3, <2>4
  <1>6. ASSUME turn' = "server" PROVE ReportTells'
    <2>1. HasStatus(script) => report'[StatusVar] = IF b THEN 1 ELSE 0
      BY <1>1, <1>6, VarsDiffer DEF Returned
    <2>2. b /\ script.value => report'[ValueVar] = script.step
      BY <1>1, <1>6, VarsDiffer DEF Returned
    <2>3. ~b => script.kind = "recv" \/ HasStatus(script)
      BY <1>1, <1>6 DEF HasStatus, TypeOK, Script
    <2> QED
      BY <1>1, <1>2, <1>6, <2>1, <2>2, <2>3 DEF ReportTells
  <1>7. RunIsReported'
    BY <1>1, <1>5, <1>6 DEF RunIsReported
  <1> QED
    BY <1>3, <1>4, <1>7 DEF GuardInv

\* What the body, or the message that stands for it, leaves in the variables.
LEMMA LinesReport ==
    ASSUME TypeOK, NEW e
    PROVE  /\ HasStatus(script) => AfterBody(e)[StatusVar] = 1
           /\ script.value => AfterBody(e)[ValueVar] = script.step
           /\ \A i \in DOMAIN script.checks :
                  AfterBody(e)[ProbeVar(i)] = ExitStatus(script.checks[i])
           /\ e \in [Vars -> Values] /\ HasStatus(script) => AfterFailure(e)[StatusVar] = 0
           /\ \A i \in DOMAIN script.probes :
                  AfterFailure(e)[ProbeVar(i)] = e[ProbeVar(i)]
  <1>1. \A i \in DOMAIN script.probes \cup DOMAIN script.checks :
            ProbeVar(i) \in Vars /\ ProbeVar(i) # StatusVar /\ ProbeVar(i) # ValueVar
    BY ProbesAreNumbered, VarsDiffer, GuardAssumption
  <1>2. HasStatus(script) => AfterBody(e)[StatusVar] = 1
    BY VarsDiffer DEF AfterBody
  <1>3. script.value => AfterBody(e)[ValueVar] = script.step
    BY VarsDiffer DEF AfterBody
  <1>4. \A i \in DOMAIN script.checks :
            AfterBody(e)[ProbeVar(i)] = ExitStatus(script.checks[i])
    <2>1. \A i \in DOMAIN script.checks :
              AfterProbes(script.checks, AfterCleanup(e))[ProbeVar(i)]
                  = ExitStatus(script.checks[i])
      BY ProbesAreNumbered, ProbeOutcome
    <2> QED
      BY <1>1, <2>1 DEF AfterBody
  <1>5. e \in [Vars -> Values] /\ HasStatus(script) => AfterFailure(e)[StatusVar] = 0
    BY VarsDiffer DEF AfterFailure
  <1>6. \A i \in DOMAIN script.probes : AfterFailure(e)[ProbeVar(i)] = e[ProbeVar(i)]
    BY <1>1 DEF AfterFailure
  <1> QED
    BY <1>2, <1>3, <1>4, <1>5, <1>6

\* Every run of a script keeps the invariant.
LEMMA RunGuard ==
    ASSUME TypeOK, GuardInv, RunMissing \/ RunPlain \/ RunGuarded
    PROVE  GuardInv'
  <1>1. env \in [Vars -> Values] /\ AfterProbes(script.probes, env) \in [Vars -> Values]
    BY LinesKeepTypes DEF TypeOK
  <1>2. \A i \in DOMAIN script.checks : ExitStatus(script.checks[i]) = 0 => script.checks[i] \in has
    BY DEF ExitStatus
  <1>3. CASE RunMissing
    <2> DEFINE e == AfterFailure(env)
    <2>1. Finish(FALSE, e) /\ script.missing
      BY <1>3 DEF RunMissing
    <2>2. script.probes = <<>> /\ script.needs # {}
      BY <2>1 DEF GuardInv, ScriptIsGuarded
    <2>3. HasStatus(script) => e[StatusVar] = 0
      BY <1>1, LinesReport
    <2>4. DOMAIN script.probes = {}
      BY <2>2
    <2> HIDE DEF e
    <2> QED
      BY <2>1, <2>2, <2>3, <2>4, FinishGuard
  <1>4. CASE RunPlain
    <2> DEFINE e == AfterBody(env)
    <2>1. Finish(TRUE, e) /\ ~script.missing /\ script.probes = <<>>
      BY <1>4 DEF RunPlain
    <2>2. Probed(script) = {}
      BY <2>1 DEF Probed, Listed
    <2>3. script.needs \subseteq has \cup unchecked
      BY <2>1, <2>2 DEF GuardInv, ScriptIsGuarded
    <2>4. /\ HasStatus(script) => e[StatusVar] = 1
          /\ script.value => e[ValueVar] = script.step
          /\ \A i \in DOMAIN script.checks : e[ProbeVar(i)] = 0 => script.checks[i] \in has
      BY <1>2, LinesReport
    <2> HIDE DEF e
    <2> QED
      BY <2>1, <2>2, <2>3, <2>4, FinishGuard
  <1>5. CASE RunGuarded
    <2>1. script.probes # <<>> /\ script.needs # {} /\ ~script.missing
      BY <1>5 DEF RunGuarded, GuardInv, ScriptIsGuarded
    <2>2. CASE ProbesPass
      <3> DEFINE e == AfterBody(AfterProbes(script.probes, env))
      <3>1. Finish(TRUE, e)
        BY <1>5, <2>2 DEF RunGuarded
      <3>2. Probed(script) \subseteq has
        BY <2>2 DEF ProbesPass, ExitStatus
      <3>3. script.needs \subseteq has \cup unchecked
        BY <2>1, <3>2 DEF GuardInv, ScriptIsGuarded
      <3>4. /\ HasStatus(script) => e[StatusVar] = 1
            /\ script.value => e[ValueVar] = script.step
            /\ \A i \in DOMAIN script.checks : e[ProbeVar(i)] = 0 => script.checks[i] \in has
        BY <1>2, LinesReport
      <3> HIDE DEF e
      <3> QED
        BY <3>1, <3>2, <3>3, <3>4, FinishGuard
    <2>3. CASE ~ProbesPass
      <3> DEFINE e == AfterFailure(AfterProbes(script.probes, env))
      <3>1. Finish(FALSE, e)
        BY <1>5, <2>3 DEF RunGuarded
      <3>2. \A i \in DOMAIN script.probes : e[ProbeVar(i)] = 0 => script.probes[i] \in has
        BY LinesReport, ProbesAreNumbered, ProbeOutcome DEF ExitStatus
      <3>3. HasStatus(script) => e[StatusVar] = 0
        BY <1>1, LinesReport
      <3> HIDE DEF e
      <3> QED
        BY <2>1, <3>1, <3>2, <3>3, FinishGuard
    <2> QED
      BY <2>2, <2>3
  <1> QED
    BY <1>3, <1>4, <1>5

\* GuardInv is an invariant: what the session knows, its script and its report are true.
THEOREM GuardInvariant == Spec => []GuardInv
  <1>1. TypeOK /\ GuardInv /\ [Next]_vars => GuardInv'
    <2> SUFFICES ASSUME TypeOK, GuardInv, [Next]_vars PROVE GuardInv'
      OBVIOUS
    <2>1. ASSUME NEW kind \in {"exec", "recv", "final", "check"}, NEW value \in BOOLEAN,
                 NEW r \in Requests, Write(kind, r, value)
          PROVE  GuardInv'
      BY <2>1, WriteGuard
    <2>2. CASE RunMissing \/ RunPlain \/ RunGuarded
      BY <2>2, RunGuard
    <2>3. CASE UNCHANGED vars
      <3>1. /\ Probed(script)' = Probed(script) /\ Asked(script)' = Asked(script)
            /\ HasStatus(script)' = HasStatus(script)
            /\ Succeeded(script)' = Succeeded(script)
        BY <2>3 DEF vars, Probed, Asked, HasStatus, Succeeded, Zero
      <3> QED
        BY <2>3, <3>1 DEF vars, GuardInv, KnowledgeIsTrue, SupportedIsTrue, ScriptIsGuarded,
                         RunIsReported, ReportTells
    <2> QED
      BY <2>1, <2>2, <2>3 DEF Next
  <1> QED
    BY <1>1, InitGuard, Types, PTL DEF Spec
----
(***************************************************************************)
(* A body runs only on a board that has every command its lines, the lines *)
(* queued before it and the snippets in it require, but for the commands   *)
(* of a check_cmds that was left out behind the guard of queued lines, and *)
(* for a snippet that was given an empty list (_plan_required_commands,    *)
(* _apply_required_command_guards).                                        *)
(***************************************************************************)
THEOREM BodiesAreAvailable == Spec => []BodyRunsOnlyWhenAvailable
  <1>1. GuardInv => BodyRunsOnlyWhenAvailable
    BY DEF GuardInv, ScriptIsGuarded, RunIsReported, BodyRunsOnlyWhenAvailable
  <1> QED
    BY <1>1, GuardInvariant, PTL

(***************************************************************************)
(* The cache of probed commands never holds a command as both there and    *)
(* not there, and believes in none that the board does not have, but for   *)
(* those whose own probe for check_cmds was left out behind the guard of   *)
(* queued lines (supported_cmds, _consume_pending_framework_returns).      *)
(***************************************************************************)
THEOREM CacheIsTrue == Spec => []SupportedIsTrue
  <1>1. GuardInv => SupportedIsTrue
    BY DEF GuardInv, KnowledgeIsTrue
  <1> QED
    BY <1>1, GuardInvariant, PTL

(***************************************************************************)
(* The answer a handler gets for a script tells whether its body ran, and  *)
(* the value it bound is the one that body set (_consume_exec_status,      *)
(* _resolve_binding_values).                                               *)
(***************************************************************************)
THEOREM AnswersTell == Spec => AnswerTellsWhetherBodyRan
  <1>1. TypeOK /\ GuardInv /\ [Next]_vars
            => (turn = "server" /\ turn' = "board" /\ script.step > 1 =>
                   /\ ~ran => answer'.result = "false"
                   /\ ran /\ script.kind # "recv" => answer'.result = "true"
                   /\ ran /\ script.value => answer'.value = script.step)
    <2> SUFFICES ASSUME TypeOK, GuardInv, [Next]_vars, turn = "server", turn' = "board", script.step > 1
                 PROVE  /\ ~ran => answer'.result = "false"
                        /\ ran /\ script.kind # "recv" => answer'.result = "true"
                        /\ ran /\ script.value => answer'.value = script.step
      OBVIOUS
    <2>1. answer' = AnswerOf(script)
      BY DEF vars, Next, Write, RunMissing, RunPlain, RunGuarded
    <2>2. ReportTells
      BY DEF GuardInv, RunIsReported
    <2>3. answer'.result = StatusOf(script)
      BY <2>1 DEF AnswerOf
    <2>4. script.value => answer'.value = report[ValueVar]
      BY <2>1 DEF AnswerOf
    <2>5. ~ran => answer'.result = "false"
      BY <2>2, <2>3 DEF ReportTells, StatusOf, HasStatus
    <2>6. ran /\ script.kind # "recv" => answer'.result = "true"
      BY <2>2, <2>3 DEF ReportTells, StatusOf
    <2> QED
      BY <2>2, <2>4, <2>5, <2>6 DEF ReportTells
  <1> QED
    BY <1>1, Types, GuardInvariant, PTL DEF Spec, AnswerTellsWhetherBodyRan
====
