---- MODULE Daemon ----
(***************************************************************************)
(* The daemon as a process (cli.py, server.py, config.py) and the tool     *)
(* that checks a configuration and asks for a reload (check_cli.py).       *)
(* Several instances of one configuration may be started, interrupted and  *)
(* killed; each writes and removes the pidfile its configuration names.    *)
(* Other processes may have a command line that looks like an instance's.  *)
(* The tool looks for the instance by command line and by pidfile, and     *)
(* sends SIGHUP some time later.  The handler of the signal runs in the    *)
(* daemon's main thread and may itself be interrupted by the next SIGHUP.  *)
(***************************************************************************)
EXTENDS Naturals, Sequences, SequencesExt, FiniteSets

CONSTANTS
    Pids,       \* process ids
    Configs,    \* contents the configuration file may have
    First,      \* the first of them
    Pidfiles,   \* paths of pidfiles
    MaxEdits,   \* bound: changes of the configuration file
    MaxCalls,   \* bound: instances started and runs of the tool
    None        \* no pid, no path

(***************************************************************************)
(* loads: load_daemon_config succeeds.  parses: so does the syntax check   *)
(* of the script.  builds: the script can also be executed and the root be *)
(* made.  A root is the sequence of the components of its path.            *)
(***************************************************************************)
ASSUME DaemonAssumption ==
    /\ First \in Configs
    /\ \A c \in Configs :
           /\ {c.loads, c.parses, c.builds} \subseteq BOOLEAN
           /\ c.builds => c.parses
           /\ c.root \in Seq(STRING)
           /\ c.port \in Nat
           /\ c.pidfile \in Pidfiles
    /\ {MaxEdits, MaxCalls} \subseteq Nat
    /\ None \notin Pids \cup Pidfiles \cup Seq(STRING)
    /\ IsFiniteSet(Pids)

VARIABLES
    config,     \* the content of the configuration file
    at,         \* [Pids -> what the process is doing]
    hidden,     \* [Pids -> its command line does not show the configuration]
    read,       \* [Pids -> the configuration main() read]
    provider,   \* [Pids -> server.provider: the runtime it belongs to, and its root]
    uploads,    \* [Pids -> server.upload_store: the runtime it belongs to]
    root,       \* [Pids -> server.tftproot]
    frames,     \* [Pids -> the reload handlers on its stack, the running one last]
    built,      \* [Pids -> runtimes built so far]
    pidfile,    \* [Pidfiles -> a pid or None]
    tool,       \* the check tool
    edits,      \* history: changes of the configuration file
    calls,      \* history: instances started and runs of the tool
    asked,      \* history: [Pids -> edits at its start or its last SIGHUP]
    nested,     \* history: [Pids -> what SIGHUPs that came while one was handled have left]
    alone,      \* history: [Pids -> no other instance has run beside it]
    leftover    \* history: an instance has ended without removing its pidfile

serverVars == <<provider, uploads, root, frames, built>>
processVars == <<at, hidden, read, pidfile>>
history == <<edits, calls, asked, nested, alone, leftover>>
vars == <<config, processVars, serverVars, tool, history>>

(***************************************************************************)
(* "starting" ends when the pidfile is written, "written" when the SIGHUP  *)
(* handler is installed, "armed" when the socket is bound.  A pid that is  *)
(* "other" belongs to a process that has nothing to do with the daemon,    *)
(* one that is "alike" to a process whose command line shows the           *)
(* configuration all the same: the sudo an instance was started with, or   *)
(* the daemon of another directory, with a relative --config.              *)
(***************************************************************************)
Instance == {"starting", "written", "armed", "serving", "leaving"}

Handling == {"armed", "serving"}

Roots == {c.root : c \in Configs} \cup {<<>>}

Runtime == [id: Nat, edit: 0 .. MaxEdits, root: Roots]

\* "no": none did, or a reload that ran alone has replaced all of it since; "yes": the last ones
\* did; "over": a later one came while none was handled.
Nesting == {"no", "yes", "over"}

NoRuntime == [id |-> 0, edit |-> 0, root |-> <<>>]

Frame == [step: {"load", "provider", "uploads", "root"}, runtime: Runtime]

Tool ==
    [at: {"idle", "scan", "read", "send"},
     config: Configs,
     found: SUBSET Pids,
     alike: BOOLEAN,
     target: Pids \cup {None},
     told: {"nothing", "none", "many", "one"},
     steady: SUBSET Pids]

TypeOK ==
    /\ config \in Configs
    /\ at \in [Pids -> Instance \cup {"free", "other", "alike"}]
    /\ hidden \in [Pids -> BOOLEAN]
    /\ read \in [Pids -> Configs]
    /\ provider \in [Pids -> Runtime]
    /\ uploads \in [Pids -> Nat]
    /\ root \in [Pids -> Roots]
    /\ frames \in [Pids -> Seq(Frame)]
    /\ built \in [Pids -> Nat]
    /\ pidfile \in [Pidfiles -> Pids \cup {None}]
    /\ tool \in Tool
    /\ edits \in 0 .. MaxEdits
    /\ calls \in 0 .. MaxCalls
    /\ asked \in [Pids -> 0 .. MaxEdits]
    /\ nested \in [Pids -> Nesting]
    /\ alone \in [Pids -> BOOLEAN]
    /\ leftover \in BOOLEAN

Init ==
    /\ config = First
    /\ at = [p \in Pids |-> "free"]
    /\ hidden = [p \in Pids |-> FALSE]
    /\ read = [p \in Pids |-> First]
    /\ provider = [p \in Pids |-> NoRuntime]
    /\ uploads = [p \in Pids |-> 0]
    /\ root = [p \in Pids |-> <<>>]
    /\ frames = [p \in Pids |-> <<>>]
    /\ built = [p \in Pids |-> 0]
    /\ pidfile = [f \in Pidfiles |-> None]
    /\ tool = [at |-> "idle", config |-> First, found |-> {}, alike |-> FALSE,
               target |-> None, told |-> "nothing", steady |-> {}]
    /\ edits = 0
    /\ calls = 0
    /\ asked = [p \in Pids |-> 0]
    /\ nested = [p \in Pids |-> "no"]
    /\ alone = [p \in Pids |-> FALSE]
    /\ leftover = FALSE

Edit(c) ==
    /\ edits < MaxEdits
    /\ c # config
    /\ config' = c
    /\ edits' = edits + 1
    /\ UNCHANGED <<processVars, serverVars, tool, calls, asked, nested, alone,
                   leftover>>
----
(***************************************************************************)
(* main() of cli.py.                                                       *)
(***************************************************************************)
\* hidden: started as openipc-tftp, or with a --config relative to another directory.
Launch(p, h) ==
    /\ at[p] = "free"
    /\ calls < MaxCalls
    /\ calls' = calls + 1
    /\ at' = [at EXCEPT ![p] = "starting"]
    /\ hidden' = [hidden EXCEPT ![p] = h]
    /\ alone' = [q \in Pids |->
           IF q = p THEN \A o \in Pids \ {p} : at[o] \notin Instance
           ELSE alone[q] /\ at[q] \notin Instance]
    /\ UNCHANGED <<config, read, pidfile, serverVars, tool, edits, asked, nested,
                   leftover>>

\* Process p is gone, and whatever it had in memory.
Gone(p) ==
    /\ at' = [at EXCEPT ![p] = "free"]
    /\ hidden' = [hidden EXCEPT ![p] = FALSE]
    /\ read' = [read EXCEPT ![p] = First]
    /\ provider' = [provider EXCEPT ![p] = NoRuntime]
    /\ uploads' = [uploads EXCEPT ![p] = 0]
    /\ root' = [root EXCEPT ![p] = <<>>]
    /\ frames' = [frames EXCEPT ![p] = <<>>]
    /\ built' = [built EXCEPT ![p] = 0]
    /\ asked' = [asked EXCEPT ![p] = 0]
    /\ nested' = [nested EXCEPT ![p] = "no"]
    /\ alone' = [alone EXCEPT ![p] = FALSE]
    /\ UNCHANGED <<config, edits, calls>>

\* Mutant: a pidfile that is there already is left alone.
KeepPidfile(p) == [pidfile EXCEPT ![config.pidfile] = IF @ = None THEN p ELSE @]

\* write_pidfile.
WrittenPidfile(p) == [pidfile EXCEPT ![config.pidfile] = p]

\* load_daemon_config, and the pidfile.
Prepare(p) ==
    /\ at[p] = "starting"
    /\ config.loads
    /\ at' = [at EXCEPT ![p] = "written"]
    /\ read' = [read EXCEPT ![p] = config]
    /\ pidfile' = WrittenPidfile(p)
    /\ asked' = [asked EXCEPT ![p] = edits]
    /\ UNCHANGED <<config, hidden, serverVars, tool, edits, calls, nested, alone,
                   leftover>>

\* The configuration raises before anything is written.
PrepareFails(p) ==
    /\ at[p] = "starting"
    /\ ~config.loads
    /\ Gone(p)
    /\ UNCHANGED <<pidfile, tool, leftover>>

\* build_server and install_reload_handler.
Build(p) ==
    LET runtime == [id |-> 1, edit |-> asked[p], root |-> read[p].root]
    IN  /\ at[p] = "written"
        /\ read[p].builds
        /\ at' = [at EXCEPT ![p] = "armed"]
        /\ provider' = [provider EXCEPT ![p] = runtime]
        /\ uploads' = [uploads EXCEPT ![p] = 1]
        /\ root' = [root EXCEPT ![p] = runtime.root]
        /\ built' = [built EXCEPT ![p] = 1]
        /\ UNCHANGED <<config, hidden, read, pidfile, frames, tool, history>>

\* build_server raises outside the try of main(): the pidfile stays.
BuildFails(p) ==
    /\ at[p] = "written"
    /\ ~read[p].builds
    /\ Gone(p)
    /\ leftover' = TRUE
    /\ UNCHANGED <<pidfile, tool>>

\* server.run binds the socket, unless another instance has it.
Listen(p) ==
    /\ at[p] = "armed"
    /\ frames[p] = <<>>
    /\ at' = [at EXCEPT ![p] =
           IF \E q \in Pids : at[q] = "serving" /\ read[q].port = read[p].port
           THEN "leaving" ELSE "serving"]
    /\ UNCHANGED <<config, hidden, read, pidfile, serverVars, tool, history>>

\* KeyboardInterrupt, also out of the reload handler.
Interrupt(p) ==
    /\ at[p] = "serving"
    /\ at' = [at EXCEPT ![p] = "leaving"]
    /\ frames' = [frames EXCEPT ![p] = <<>>]
    /\ tool' = [tool EXCEPT !.steady = @ \ {p}]
    /\ UNCHANGED <<config, hidden, read, pidfile, provider, uploads, root, built, history>>

\* Mutant: the file is emptied, not removed.
EmptiedPidfile(p) == [pidfile EXCEPT ![read[p].pidfile] = <<>>]

\* Mutant: the finally clause is missing.
KeptPidfile(p) == pidfile

\* remove_pidfile: whoever's it is by now.
RemovedPidfile(p) == [pidfile EXCEPT ![read[p].pidfile] = None]

Leave(p) ==
    /\ at[p] = "leaving"
    /\ Gone(p)
    /\ pidfile' = RemovedPidfile(p)
    /\ UNCHANGED <<tool, leftover>>

\* SIGTERM, SIGKILL, a crash, or an interrupt before the try.
Kill(p) ==
    /\ at[p] \in Instance
    /\ Gone(p)
    /\ leftover' = TRUE
    /\ tool' = [tool EXCEPT !.steady = @ \ {p}]
    /\ UNCHANGED pidfile

\* Somebody still has the number: the only strangers that matter.
Named(p) == p = tool.target \/ \E f \in Pidfiles : pidfile[f] = p

\* The pid is given to another program, which ends some day.
Recycle(p) ==
    /\ at[p] = "other" \/ (at[p] = "free" /\ Named(p))
    /\ at' = [at EXCEPT ![p] = IF at[p] = "free" THEN "other" ELSE "free"]
    /\ UNCHANGED <<config, hidden, read, pidfile, serverVars, tool, history>>

\* A process that looks like an instance begins, or ends.
Resemble(p) ==
    /\ at[p] \in {"free", "alike"}
    /\ at' = [at EXCEPT ![p] = IF at[p] = "free" THEN "alike" ELSE "free"]
    /\ UNCHANGED <<config, hidden, read, pidfile, serverVars, tool, history>>
----
(***************************************************************************)
(* handle_reload.  Python runs it in the main thread between two bytecodes *)
(* and lets the next signal interrupt it; only the last frame runs.        *)
(***************************************************************************)
Running(p, step) ==
    /\ at[p] \in Handling
    /\ frames[p] # <<>>
    /\ Last(frames[p]).step = step

\* load_daemon_config and build_runtime would succeed.
Usable == config.loads /\ config.builds

Replaced(p, frame) == [frames EXCEPT ![p] = Append(Front(@), frame)]
Returned(p) == [frames EXCEPT ![p] = Front(@)]

\* Mutant: the new runtime is built from the configuration read at the start.
LoadAgain(p) ==
    LET runtime == [id |-> built[p] + 1, edit |-> provider[p].edit, root |-> read[p].root]
    IN  /\ Running(p, "load")
        /\ Usable
        /\ built' = [built EXCEPT ![p] = @ + 1]
        /\ frames' = Replaced(p, [Last(frames[p]) EXCEPT !.step = "provider", !.runtime = runtime])
        /\ UNCHANGED <<config, processVars, provider, uploads, root, tool, history>>

\* load_daemon_config and build_runtime.
Load(p) ==
    LET runtime == [id |-> built[p] + 1, edit |-> edits, root |-> config.root]
    IN  /\ Running(p, "load")
        /\ Usable
        /\ built' = [built EXCEPT ![p] = @ + 1]
        /\ frames' = Replaced(p, [Last(frames[p]) EXCEPT !.step = "provider", !.runtime = runtime])
        /\ UNCHANGED <<config, processVars, provider, uploads, root, tool, history>>

\* Mutant: the part of the runtime that could be built is used.
LoadHalf(p) ==
    /\ Running(p, "load")
    /\ ~Usable
    /\ frames' = Returned(p)
    /\ uploads' = [uploads EXCEPT ![p] = built[p] + 1]
    /\ UNCHANGED <<config, processVars, provider, root, built, tool, history>>

\* Mutant: the handler waits until the configuration loads.
LoadWaits(p) ==
    /\ Running(p, "load")
    /\ ~Usable
    /\ UNCHANGED vars

\* Any exception is logged; the server keeps what it has.
LoadFails(p) ==
    /\ Running(p, "load")
    /\ ~Usable
    /\ frames' = Returned(p)
    /\ UNCHANGED <<config, processVars, provider, uploads, root, built, tool, history>>

SetProvider(p) ==
    /\ Running(p, "provider")
    /\ provider' = [provider EXCEPT ![p] = Last(frames[p]).runtime]
    /\ frames' = Replaced(p, [Last(frames[p]) EXCEPT !.step = "uploads"])
    /\ UNCHANGED <<config, processVars, uploads, root, built, tool, history>>

SetUploads(p) ==
    /\ Running(p, "uploads")
    /\ uploads' = [uploads EXCEPT ![p] = Last(frames[p]).runtime.id]
    /\ frames' = Replaced(p, [Last(frames[p]) EXCEPT !.step = "root"])
    /\ UNCHANGED <<config, processVars, provider, root, built, tool, history>>

\* The last assignment, and the handler returns to what it interrupted.
SetRoot(p) ==
    /\ Running(p, "root")
    /\ root' = [root EXCEPT ![p] = Last(frames[p]).runtime.root]
    /\ frames' = Returned(p)
    /\ nested' = [nested EXCEPT ![p] = IF @ = "over" THEN "no" ELSE @]
    /\ UNCHANGED <<config, processVars, provider, uploads, built, tool, edits, calls,
                   asked, alone, leftover>>

HandlerStep(p) ==
    \/ Load(p)
    \/ LoadFails(p)
    \/ SetProvider(p)
    \/ SetUploads(p)
    \/ SetRoot(p)
----
(***************************************************************************)
(* check_cli.py with --reload, one run at a time.                          *)
(***************************************************************************)
\* The configuration and the script pass; if they do not, the tool does no more.
Check ==
    /\ tool.at = "idle"
    /\ calls < MaxCalls
    /\ config.loads /\ config.parses
    /\ calls' = calls + 1
    /\ tool' = [at |-> "scan", config |-> config, found |-> {}, alike |-> FALSE,
                target |-> None, told |-> "nothing",
                steady |-> {p \in Pids : at[p] = "serving"}]
    /\ UNCHANGED <<config, processVars, serverVars, edits, asked, nested, alone,
                   leftover>>

\* find_config_pids: the processes whose command line names the configuration.
Shown(p) == at[p] = "alike" \/ (at[p] \in Instance /\ ~hidden[p])

Scan ==
    /\ tool.at = "scan"
    /\ tool' = [tool EXCEPT !.at = "read",
                            !.found = {p \in Pids : Shown(p)},
                            !.alike = \E p \in Pids : at[p] = "alike"]
    /\ UNCHANGED <<config, processVars, serverVars, history>>

\* Mutant: only the command lines count.
OnlyFound == tool.found

\* The pid in the file is a candidate whether or not there is such an instance.
Candidates == tool.found \cup ({pidfile[tool.config.pidfile]} \ {None})

\* resolve_reload_pid reads the pidfile and decides.
Resolve ==
    /\ tool.at = "read"
    /\ \/ /\ Cardinality(Candidates) = 1
          /\ tool' = [tool EXCEPT !.at = "send", !.told = "one",
                                  !.target = CHOOSE p \in Candidates : TRUE]
       \/ /\ Cardinality(Candidates) # 1
          /\ tool' = [tool EXCEPT !.at = "idle",
                                  !.told = IF Candidates = {} THEN "none" ELSE "many"]
    /\ UNCHANGED <<config, processVars, serverVars, history>>

Sent == [tool EXCEPT !.at = "idle", !.found = {}, !.target = None, !.steady = {}]

\* os.kill on a daemon that handles the signal: the handler starts on top of its stack.
SendReload ==
    LET p == tool.target
    IN  /\ tool.at = "send"
        /\ at[p] \in Handling
        /\ frames' = [frames EXCEPT ![p] = Append(@, [step |-> "load", runtime |-> NoRuntime])]
        /\ nested' = [nested EXCEPT ![p] =
               IF frames[p] # <<>> THEN "yes" ELSE IF @ = "yes" THEN "over" ELSE @]
        /\ asked' = [asked EXCEPT ![p] = edits]
        /\ tool' = Sent
        /\ UNCHANGED <<config, processVars, provider, uploads, root, built,
                       edits, calls, alone, leftover>>

\* A process without the handler is ended by the signal: one that is still starting,
\* or the stranger that has the pid now, or is like an instance.
SendKills ==
    LET p == tool.target
    IN  /\ tool.at = "send"
        /\ at[p] \in {"starting", "written", "other", "alike"}
        /\ Gone(p)
        /\ leftover' = (leftover \/ at[p] = "written")
        /\ tool' = Sent
        /\ UNCHANGED pidfile

\* ProcessLookupError, or a signal to an instance that is on its way out, or to the daemon of
\* another directory.
SendIsLost ==
    /\ tool.at = "send"
    /\ at[tool.target] \in {"free", "leaving", "alike"}
    /\ tool' = Sent
    /\ UNCHANGED <<config, processVars, serverVars, history>>

ToolStep == Check \/ Scan \/ Resolve \/ SendReload \/ SendKills \/ SendIsLost

MainStep(p) ==
    \/ \E h \in BOOLEAN : Launch(p, h)
    \/ Prepare(p)
    \/ PrepareFails(p)
    \/ Build(p)
    \/ BuildFails(p)
    \/ Listen(p)
    \/ Interrupt(p)
    \/ Leave(p)

Next ==
    \/ \E c \in Configs : Edit(c)
    \/ \E p \in Pids : MainStep(p) \/ HandlerStep(p) \/ Kill(p) \/ Recycle(p) \/ Resemble(p)
    \/ ToolStep

Spec == Init /\ [][Next]_vars

\* The main thread runs its handlers to their end before anything else.
FairSpec == Spec /\ \A p \in Pids : WF_vars(HandlerStep(p))
----
Quiet(p) == at[p] = "serving" /\ frames[p] = <<>>

(***************************************************************************)
(* Between requests the provider, the upload store and the root a server   *)
(* uses are of one runtime, also after a reload that failed: otherwise no  *)
(* upload of a session would be accepted.  Reloads that overlap may leave  *)
(* a mixture, but the next one that runs alone and succeeds repairs it.    *)
(***************************************************************************)
RuntimeIsOne ==
    \A p \in Pids : Quiet(p) /\ nested[p] = "no" =>
        provider[p].id = uploads[p] /\ provider[p].root = root[p]

(***************************************************************************)
(* A server that was told to reload after the last change of its file      *)
(* works with that file, unless the file is unusable, or reloads           *)
(* overlapped and none that ran alone has succeeded since (reload_server). *)
(***************************************************************************)
NewestConfigIsUsed ==
    \A p \in Pids :
        Quiet(p) /\ nested[p] = "no" /\ asked[p] = edits /\ Usable =>
            provider[p].edit = edits

(***************************************************************************)
(* A pidfile names an instance that runs, as long as every instance was    *)
(* interrupted in an orderly way, however they overlap (main, finally).    *)
(***************************************************************************)
PidfileNamesInstance ==
    ~leftover => \A f \in Pidfiles : pidfile[f] # None => at[pidfile[f]] \in Instance

(***************************************************************************)
(* A server that runs alone is never missed, and no other process gets its *)
(* signal, whatever earlier instances left behind and however it was       *)
(* started; the tool gives up only when a process was running that looks   *)
(* like an instance (resolve_reload_pid).                                  *)
(***************************************************************************)
Sought(p) == p \in tool.steady /\ alone[p] /\ read[p].pidfile = tool.config.pidfile

ReloadFindsLoneServer ==
    \A p \in Pids : Sought(p) =>
        /\ tool.told # "none"
        /\ tool.told = "many" => tool.alike
        /\ tool.at = "send" => tool.target = p

(***************************************************************************)
(* A reload comes to its end: the server goes back to its requests.        *)
(***************************************************************************)
ReloadsEnd == \A p \in Pids : []<>(frames[p] = <<>>)
====
