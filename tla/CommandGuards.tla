---- MODULE CommandGuards ----
(***************************************************************************)
(* Required commands and return values (scripted.py, ubootcmds.py).  A     *)
(* handler may require U-Boot commands of a script: those not yet known    *)
(* are probed by the script itself, which runs its body only if every      *)
(* probe succeeds.  Probe results, the exec status and the values a        *)
(* handler binds travel in U-Boot variables that the continuation reports  *)
(* and that the next script clears.  One session talks to one board; they  *)
(* take turns: the server writes a script, the board runs it.              *)
(***************************************************************************)
EXTENDS Naturals, Sequences, FiniteSets

CONSTANTS
    Cmds,       \* commands a handler may require
    Assumed,    \* those with policy "assumed" in the registry
    Unknown,    \* those the registry does not have
    Requests,   \* what a handler may ask for: the commands required of the lines it
                \* queued, of its own lines, and of a snippet among them
    MaxSteps,   \* bound: scripts of a session
    MaxNeeds,   \* bound: commands required of one script
    Empty       \* a variable that is not set, and the value it reports

ASSUME GuardAssumption ==
    /\ IsFiniteSet(Cmds)
    /\ Assumed \subseteq Cmds
    /\ Unknown \subseteq Cmds \ Assumed
    /\ Requests \subseteq [queued: SUBSET Cmds, own: SUBSET Cmds, snippet: SUBSET Cmds]
    /\ \A r \in Requests : Cardinality(r.queued \cup r.own \cup r.snippet) <= MaxNeeds
    /\ MaxSteps \in Nat \ {0}
    /\ MaxNeeds \in Nat \ {0}
    /\ Empty \notin Nat

\* The probe variables _c0, _c1, ..., the exec status _s, and _r0 for a bound value.
ProbeVar(i) == <<"_c", i - 1>>
StatusVar == <<"_s", 0>>
ValueVar == <<"_r", 0>>

Vars == {ProbeVar(i) : i \in 1 .. MaxNeeds} \cup {StatusVar, ValueVar}

(***************************************************************************)
(* A script: exec, exec_recv, exec(final=True), or the exec of check_cmds. *)
(* needs are its required commands, missing says that one of them is known *)
(* not to be there, probes are those that its guard must try, checks those *)
(* that its body tries for check_cmds, value says that its body sets _r0   *)
(* and reports it, cleanup are the variables of the script before that it  *)
(* clears, step numbers it.  uses and listed are history: the commands of  *)
(* its own lines, of the lines queued before it and of the snippets in it, *)
(* and whether its caller had begun a list of required commands when it    *)
(* asked for a snippet.                                                    *)
(***************************************************************************)
Lists == UNION {[1 .. n -> Cmds] : n \in 0 .. MaxNeeds}

Script ==
    [kind: {"exec", "recv", "final", "check"},
     needs: SUBSET Cmds,
     missing: BOOLEAN,
     probes: Lists,
     checks: Lists,
     value: BOOLEAN,
     cleanup: SUBSET Vars,
     step: 1 .. MaxSteps,
     uses: SUBSET Cmds,
     listed: BOOLEAN]

VARIABLES
    has,          \* the commands the board's U-Boot really has
    env,          \* its variables
    supported,    \* ClientSession.supported_cmds
    unsupported,  \* ClientSession.unsupported_cmds
    script,       \* the last script served
    turn,         \* who is to act: "server", "board", or "over"
    report,       \* the variables as the continuation reported them
    uploaded,     \* recv=ok or recv=failed of a receive
    ran,          \* history: the body of the last script ran
    answer,       \* history: what the handler got for it
    unchecked     \* history: commands whose probes for check_cmds were left out with its body

vars ==
    <<has, env, supported, unsupported, script, turn, report, uploaded, ran, answer, unchecked>>

Values == Nat \cup {Empty}

\* The result of an await ("none" until there is one) and the value of its binding.
Answers == [result: {"none", "true", "false"}, value: Values]

NoAnswer == [result |-> "none", value |-> Empty]

TypeOK ==
    /\ has \subseteq Cmds
    /\ env \in [Vars -> Values]
    /\ supported \subseteq Cmds
    /\ unsupported \subseteq Cmds
    /\ script \in Script
    /\ turn \in {"server", "board", "over"}
    /\ report \in [Vars -> Values]
    /\ uploaded \in BOOLEAN
    /\ ran \in BOOLEAN
    /\ answer \in Answers
    /\ unchecked \subseteq Cmds

\* The session has passed its preflight; the first script is about to be written.
Init ==
    /\ has \in {h \in SUBSET Cmds : Assumed \subseteq h}
    /\ env = [v \in Vars |-> Empty]
    /\ supported = {}
    /\ unsupported = {}
    /\ script = [kind |-> "exec", needs |-> {}, missing |-> FALSE, probes |-> <<>>,
                 checks |-> <<>>, value |-> FALSE, cleanup |-> {}, step |-> 1, uses |-> {}, listed |-> TRUE]
    /\ turn = "server"
    /\ report = [v \in Vars |-> Empty]
    /\ uploaded = FALSE
    /\ ran = FALSE
    /\ answer = NoAnswer
    /\ unchecked = {}
----
(***************************************************************************)
(* The server: the continuation RRQ brings the report of script s.         *)
(***************************************************************************)
Listed(q) == {q[i] : i \in DOMAIN q}

Probed(s) == Listed(s.probes)

\* The commands whose outcome the report of s tells.
Asked(s) == Probed(s) \cup Listed(s.checks)

HasStatus(s) == s.kind \in {"exec", "check"} /\ s.needs # {}

\* pending_framework_returns: the variables the continuation of s reports.
Returned(s) ==
    {ProbeVar(i) : i \in DOMAIN s.probes \cup DOMAIN s.checks}
        \cup (IF HasStatus(s) THEN {StatusVar} ELSE {})
        \cup (IF s.value THEN {ValueVar} ELSE {})

\* Mutant: a probe that failed is not told from one that succeeded.
AnyReported(s) ==
    {s.probes[i] : i \in {j \in DOMAIN s.probes : report[ProbeVar(j)] # Empty}}
        \cup {s.checks[i] : i \in {j \in DOMAIN s.checks : report[ProbeVar(j)] # Empty}}

\* The commands of a list whose variable the report gives as 0.
Zero(q) == {q[i] : i \in {j \in DOMAIN q : report[ProbeVar(j)] = 0}}

\* _consume_pending_framework_returns: 0 means the command is there, anything else, an
\* empty value too, that it is not.  Guard and check number their variables alike; of a
\* command in both lists the guard's binding is consumed last.
Succeeded(s) == Zero(s.probes) \cup (Zero(s.checks) \ Probed(s))

\* Mutant: a script whose body was left out keeps the default status.
StatusUnlessMissing(s) ==
    CASE s.kind = "recv" -> IF uploaded THEN "true" ELSE "false"
      [] HasStatus(s) /\ ~s.missing -> IF report[StatusVar] = 1 THEN "true" ELSE "false"
      [] OTHER -> "true"

\* _consume_exec_status, and for a receive the value ReceiveFailedError depends on.
StatusOf(s) ==
    CASE s.kind = "recv" -> IF uploaded THEN "true" ELSE "false"
      [] HasStatus(s) -> IF report[StatusVar] = 1 THEN "true" ELSE "false"
      [] OTHER -> "true"

AnswerOf(s) ==
    [result |-> StatusOf(s), value |-> IF s.value THEN report[ValueVar] ELSE Empty]

\* The knowledge once the report of s is consumed.
KnownGood(s) == (supported \ Asked(s)) \cup Succeeded(s)
KnownBad(s) == (unsupported \ Succeeded(s)) \cup (Asked(s) \ Succeeded(s))

\* Mutant: a command named twice is probed twice.
OrdersWithRepeats(S) ==
    IF S = {} THEN {<<>>}
    ELSE {q \in [1 .. Cardinality(S) + 1 -> S] : \A c \in S : \E i \in DOMAIN q : q[i] = c}

\* The orders in which a set of commands may be required.
Orders(S) == {q \in [1 .. Cardinality(S) -> S] : \A c \in S : \E i \in DOMAIN q : q[i] = c}

\* _plan_required_commands: what is neither known, nor assumed, nor unheard of.
ToProbe(needs, good, bad) == needs \ (good \cup bad \cup Assumed \cup Unknown)

\* The same: a required command known not to be there, or unknown to the registry.
Refused(needs, good, bad) == needs \cap (bad \cup Unknown)

\* The snippets of ubootscript.py: one adds its requirements to a list that has
\* something in it, and to a copy nobody sees if the list is empty.
Extended(list, snippet) == IF list = {} THEN {} ELSE list \cup snippet

\* Mutant: what was queued is run, and its requirements are forgotten.
OwnOnly(kind, r) == IF kind = "check" THEN {} ELSE Extended(r.own, r.snippet)

\* exec_queue and _build_request: the requirements of queued lines and of the script's
\* own.  check_cmds has no lines of its own, so a snippet is among those queued.
Required(kind, r) ==
    IF kind = "check" THEN Extended(r.queued, r.snippet)
    ELSE r.queued \cup Extended(r.own, r.snippet)

\* The commands that the lines of the script use.
Used(kind, r) == r.queued \cup r.snippet \cup (IF kind = "check" THEN {} ELSE r.own)

\* The list that a snippet was given to extend.
ListOf(kind, r) == IF kind = "check" THEN r.queued ELSE r.own

\* The handler gets its answer, queues lines and awaits its next script, which for
\* check_cmds is an exec of the probes, if there is anything to probe.  The report of the
\* last script is empty before the first.
Write(kind, r, value) ==
    LET good == KnownGood(script)
        bad == KnownBad(script)
        needs == Required(kind, r)
        missing == Refused(needs, good, bad) # {}
        probed == IF missing THEN {} ELSE ToProbe(needs, good, bad)
        checked == IF kind = "check" THEN ToProbe(r.own, good, bad) ELSE {}
    IN  /\ turn = "server"
        /\ script.step < MaxSteps
        /\ kind = "check" => checked # {} /\ ~value
        /\ supported' = good \cup ((needs \cup r.own) \cap Assumed)
        /\ unsupported' = bad \cup ((needs \cup r.own) \cap Unknown)
        /\ \E probes \in Orders(probed), checks \in Orders(checked) :
               script' = [kind |-> kind, needs |-> needs, missing |-> missing,
                          probes |-> probes, checks |-> checks, value |-> value,
                          cleanup |-> Returned(script), step |-> script.step + 1,
                          uses |-> Used(kind, r),
                          listed |-> ListOf(kind, r) # {} \/ r.snippet = {}]
        /\ answer' = AnswerOf(script)
        /\ turn' = "board"
        /\ ran' = FALSE
        /\ UNCHANGED <<has, env, report, uploaded, unchecked>>
----
(***************************************************************************)
(* The board runs the script that was written for it.                      *)
(***************************************************************************)
ExitStatus(c) == IF c \in has THEN 0 ELSE 1

\* The probe lines of a list: run each command, keep $? in its variable.
AfterProbes(q, e) ==
    [v \in Vars |->
        IF \E i \in DOMAIN q : v = ProbeVar(i)
        THEN ExitStatus(q[CHOOSE i \in DOMAIN q : v = ProbeVar(i)])
        ELSE e[v]]

\* setenv of the variables that the last script left.
AfterCleanup(e) == [v \in Vars |-> IF v \in script.cleanup THEN Empty ELSE e[v]]

\* The body: the variables of the last script are cleared, the commands of this one run,
\* the probes of check_cmds among them, and the status is set.
AfterBody(e) ==
    [v \in Vars |->
        IF v = ValueVar /\ script.value THEN script.step
        ELSE IF v = StatusVar /\ HasStatus(script) THEN 1
        ELSE AfterProbes(script.checks, AfterCleanup(e))[v]]

\* What stands in for the body: the error message, after the status.
AfterFailure(e) == IF HasStatus(script) THEN [e EXCEPT ![StatusVar] = 0] ELSE e

\* The continuation: the variables as they now are, and recv=ok or recv=failed.
Finish(bodyRan, e) ==
    /\ env' = e
    /\ ran' = bodyRan
    /\ unchecked' = IF bodyRan THEN unchecked ELSE unchecked \cup Listed(script.checks)
    /\ IF script.kind = "final"
       THEN turn' = "over" /\ UNCHANGED <<report, uploaded>>
       ELSE /\ turn' = "server"
            /\ report' = [v \in Vars |-> IF v \in Returned(script) THEN e[v] ELSE Empty]
            /\ uploaded' \in IF script.kind = "recv" /\ bodyRan THEN BOOLEAN ELSE {FALSE}
    /\ UNCHANGED <<has, supported, unsupported, script, answer>>

\* A required command is known to be missing: the body is not in the script.
RunMissing ==
    /\ turn = "board"
    /\ script.missing
    /\ Finish(FALSE, AfterFailure(env))

\* Nothing for the guard to probe: every required command is known to be there.
RunPlain ==
    /\ turn = "board"
    /\ ~script.missing
    /\ script.probes = <<>>
    /\ Finish(TRUE, AfterBody(env))

\* Mutant: one command that is there lets the body run.
AnyProbePasses == \E c \in Probed(script) : ExitStatus(c) = 0

\* The test of cmds_ok.
ProbesPass == \A c \in Probed(script) : ExitStatus(c) = 0

\* The probes come first, and the body, with its cleanup, is inside the guard.
RunGuarded ==
    /\ turn = "board"
    /\ script.probes # <<>>
    /\ IF ProbesPass
       THEN Finish(TRUE, AfterBody(AfterProbes(script.probes, env)))
       ELSE Finish(FALSE, AfterFailure(AfterProbes(script.probes, env)))

Next ==
    \/ \E kind \in {"exec", "recv", "final", "check"}, value \in BOOLEAN, r \in Requests :
           Write(kind, r, value)
    \/ RunMissing
    \/ RunPlain
    \/ RunGuarded

Spec == Init /\ [][Next]_vars
----
(***************************************************************************)
(* A body runs only on a board that has every command its lines, those     *)
(* queued before it and the snippets in it require, however long ago each  *)
(* was probed (_build_request, _apply_required_command_guards,             *)
(* _append_receive and the cache of supported_cmds).  There are two        *)
(* exceptions: a snippet that was given an empty list to extend, and the   *)
(* very commands of a check_cmds that the guard of queued lines left out,  *)
(* whose variables were read all the same.                                 *)
(***************************************************************************)
BodyRunsOnlyWhenAvailable ==
    ran => /\ script.needs \subseteq has \cup unchecked
           /\ script.listed => script.uses \subseteq has \cup unchecked

(***************************************************************************)
(* The answer tells the handler whether the body ran: exec returns False,  *)
(* and exec_recv raises, whenever it was skipped; exec returns True only   *)
(* for the body of this very script, never for a status left from before;  *)
(* a value bound to a body that ran is the one that body set.              *)
(***************************************************************************)
AnswerTellsWhetherBodyRan ==
    [][turn = "server" /\ turn' = "board" /\ script.step > 1 =>
        /\ ~ran => answer'.result = "false"
        /\ ran /\ script.kind # "recv" => answer'.result = "true"
        /\ ran /\ script.value => answer'.value = script.step]_vars

(***************************************************************************)
(* The cache never holds a command as both, and never believes in a        *)
(* command the board does not have, unless its own probe for check_cmds    *)
(* was left out behind the guard of queued lines: a probe result never     *)
(* counts for any other command than those of its script.                  *)
(***************************************************************************)
SupportedIsTrue ==
    /\ supported \cap unsupported = {}
    /\ supported \subseteq has \cup unchecked

(***************************************************************************)
(* A script that is refused really needs a command the board, or the       *)
(* registry, does not have: its message is "required commands unavailable".*)
(***************************************************************************)
RefusedOnlyIfMissing == script.missing => ~(script.needs \subseteq has \ Unknown)
====
