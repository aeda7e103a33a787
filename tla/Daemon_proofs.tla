---- MODULE Daemon_proofs ----
(***************************************************************************)
(* Proofs about Daemon, for any number of processes, configurations,       *)
(* edits, starts and runs of the tool.                                     *)
(***************************************************************************)
EXTENDS Daemon, FiniteSetTheorems, SequenceTheorems, TLAPS

\* The stack of handlers: what the operators of SequencesExt do to it.
LEMMA Stack ==
    ASSUME NEW S, NEW s \in Seq(S), s # <<>>
    PROVE  Front(s) \in Seq(S) /\ Last(s) \in S
  <1>1. Len(s) \in Nat /\ Len(s) >= 1 /\ Len(s) \in DOMAIN s
    OBVIOUS
  <1> QED
    BY <1>1 DEF Front, Last

\* The operators on sequences, on a stack of one frame.
LEMMA OneFrame ==
    ASSUME NEW x, NEW y
    PROVE  /\ Front(<<x>>) = <<>>
           /\ Last(<<x>>) = x
           /\ Append(<<>>, x) = <<x>>
           /\ Append(Front(<<x>>), y) = <<y>>
           /\ <<x>> # <<>>
  <1>1. Len(<<x>>) = 1 /\ <<x>> # <<>> /\ <<x>>[1] = x
    OBVIOUS
  <1>2. Front(<<x>>) = <<>>
    <2>1. SubSeq(<<x>>, 1, 0) = <<>>
      OBVIOUS
    <2> QED
      BY <1>1, <2>1 DEF Front
  <1>3. Last(<<x>>) = x
    BY <1>1 DEF Last
  <1>4. \A z : Append(<<>>, z) = <<z>>
    OBVIOUS
  <1> QED
    BY <1>1, <1>2, <1>3, <1>4
----
\* Nothing has been started: types, and the tool has no target.
LEMMA InitTypes == Init => TypeOK
  <1> SUFFICES ASSUME Init PROVE TypeOK
    OBVIOUS
  <1>1. NoRuntime \in Runtime /\ <<>> \in Roots
    BY DaemonAssumption DEF NoRuntime, Runtime, Roots
  <1>2. tool \in Tool
    BY DaemonAssumption DEF Init, Tool
  <1>3. 0 \in 0 .. MaxEdits /\ 0 \in 0 .. MaxCalls
    BY DaemonAssumption
  <1>4. \A S : <<>> \in Seq(S)
    OBVIOUS
  <1>5. frames \in [Pids -> Seq(Frame)]
    BY <1>4 DEF Init
  <1>6. /\ provider \in [Pids -> Runtime]
        /\ root \in [Pids -> Roots]
        /\ uploads \in [Pids -> Nat]
        /\ built \in [Pids -> Nat]
        /\ asked \in [Pids -> 0 .. MaxEdits]
    BY <1>1, <1>3 DEF Init
  <1>7. /\ at \in [Pids -> Instance \cup {"free", "other", "alike"}]
        /\ hidden \in [Pids -> BOOLEAN]
        /\ nested \in [Pids -> Nesting]
        /\ alone \in [Pids -> BOOLEAN]
        /\ pidfile \in [Pidfiles -> Pids \cup {None}]
    BY DEF Init, Nesting
  <1>8. read \in [Pids -> Configs] /\ config \in Configs
    BY DaemonAssumption DEF Init
  <1> QED
    BY <1>2, <1>3, <1>5, <1>6, <1>7, <1>8 DEF Init, TypeOK

\* The end of a process leaves its entries as they were before it started.
LEMMA GoneTypes ==
    ASSUME TypeOK, NEW p \in Pids, Gone(p), leftover' \in BOOLEAN, tool' \in Tool,
           pidfile' \in [Pidfiles -> Pids \cup {None}]
    PROVE  TypeOK'
  <1>1. NoRuntime \in Runtime /\ <<>> \in Roots /\ <<>> \in Seq(Frame) /\ First \in Configs
    BY DaemonAssumption DEF NoRuntime, Runtime, Roots
  <1>2. /\ at' \in [Pids -> Instance \cup {"free", "other", "alike"}]
        /\ hidden' \in [Pids -> BOOLEAN]
        /\ nested' \in [Pids -> Nesting]
        /\ alone' \in [Pids -> BOOLEAN]
    BY DEF Gone, TypeOK, Nesting
  <1>3. /\ read' \in [Pids -> Configs]
        /\ provider' \in [Pids -> Runtime]
        /\ root' \in [Pids -> Roots]
        /\ frames' \in [Pids -> Seq(Frame)]
    BY <1>1 DEF Gone, TypeOK
  <1>4. /\ uploads' \in [Pids -> Nat]
        /\ built' \in [Pids -> Nat]
        /\ asked' \in [Pids -> 0 .. MaxEdits]
    BY DaemonAssumption DEF Gone, TypeOK
  <1>5. UNCHANGED <<config, edits, calls>>
    BY DEF Gone
  <1> QED
    BY <1>2, <1>3, <1>4, <1>5 DEF TypeOK

\* The main thread: start, build_server, serving, shutdown.
LEMMA MainTypes ==
    ASSUME TypeOK, NEW p \in Pids, MainStep(p)
    PROVE  TypeOK'
  <1>1. ASSUME NEW h \in BOOLEAN, Launch(p, h) PROVE TypeOK'
    <2>1. /\ at' \in [Pids -> Instance \cup {"free", "other", "alike"}]
          /\ hidden' \in [Pids -> BOOLEAN]
          /\ alone' \in [Pids -> BOOLEAN]
          /\ calls' \in 0 .. MaxCalls
      <3>1. /\ at' \in [Pids -> Instance \cup {"free", "other", "alike"}]
            /\ hidden' \in [Pids -> BOOLEAN]
        BY <1>1 DEF Launch, TypeOK, Instance
      <3>2. alone' \in [Pids -> BOOLEAN]
        <4>1. \A q \in Pids : (IF q = p THEN \A o \in Pids \ {p} : at[o] \notin Instance
                               ELSE alone[q] /\ at[q] \notin Instance) \in BOOLEAN
          BY ZenonT(30)
        <4> QED
          BY <1>1, <4>1 DEF Launch
      <3>3. calls' \in 0 .. MaxCalls
        BY <1>1, DaemonAssumption DEF Launch, TypeOK
      <3> QED
        BY <3>1, <3>2, <3>3
    <2> QED
      BY <1>1, <2>1 DEF Launch, TypeOK, serverVars
  <1>2. CASE Prepare(p)
    <2>1. pidfile' \in [Pidfiles -> Pids \cup {None}]
      BY <1>2, DaemonAssumption DEF Prepare, WrittenPidfile, TypeOK
    <2> QED
      BY <1>2, <2>1 DEF Prepare, TypeOK, serverVars, Instance
  <1>3. CASE PrepareFails(p)
    BY <1>3, GoneTypes DEF PrepareFails, TypeOK
  <1>4. CASE Build(p)
    <2>1. /\ [id |-> 1, edit |-> asked[p], root |-> read[p].root] \in Runtime
          /\ read[p].root \in Roots
      BY DEF TypeOK, Runtime, Roots
    <2> QED
      BY <1>4, <2>1 DEF Build, TypeOK, history, Instance
  <1>5. CASE BuildFails(p)
    BY <1>5, GoneTypes DEF BuildFails, TypeOK
  <1>6. CASE Listen(p)
    <2>1. at' \in [Pids -> Instance \cup {"free", "other", "alike"}]
      BY <1>6 DEF Listen, TypeOK, Instance
    <2> QED
      BY <1>6, <2>1 DEF Listen, TypeOK, history, serverVars
  <1>7. CASE Interrupt(p)
    <2>1. tool' \in Tool
      BY <1>7 DEF Interrupt, TypeOK, Tool
    <2>2. at' \in [Pids -> Instance \cup {"free", "other", "alike"}]
      BY <1>7 DEF Interrupt, TypeOK, Instance
    <2>3. frames' \in [Pids -> Seq(Frame)]
      <3>1. <<>> \in Seq(Frame)
        OBVIOUS
      <3> QED
        BY <1>7, <3>1 DEF Interrupt, TypeOK
    <2> QED
      BY <1>7, <2>1, <2>2, <2>3 DEF Interrupt, TypeOK, history
  <1>8. CASE Leave(p)
    BY <1>8, GoneTypes DEF Leave, RemovedPidfile, TypeOK
  <1> QED
    BY <1>1, <1>2, <1>3, <1>4, <1>5, <1>6, <1>7, <1>8 DEF MainStep

\* The handler that runs replaces itself by its next step, or returns.
LEMMA FrameTypes ==
    ASSUME TypeOK, NEW p \in Pids, frames[p] # <<>>
    PROVE  /\ Last(frames[p]) \in Frame
           /\ Returned(p) \in [Pids -> Seq(Frame)]
           /\ \A frame \in Frame : Replaced(p, frame) \in [Pids -> Seq(Frame)]
  <1>1. Front(frames[p]) \in Seq(Frame) /\ Last(frames[p]) \in Frame
    BY Stack DEF TypeOK
  <1>2. \A frame \in Frame : Append(Front(frames[p]), frame) \in Seq(Frame)
    BY <1>1
  <1> QED
    BY <1>1, <1>2 DEF Returned, Replaced, TypeOK

\* A step of the SIGHUP handler.
LEMMA HandlerTypes ==
    ASSUME TypeOK, NEW p \in Pids, HandlerStep(p)
    PROVE  TypeOK'
  <1>1. frames[p] # <<>>
    BY DEF HandlerStep, Load, LoadFails, SetProvider, SetUploads, SetRoot, Running
  <1>2. Last(frames[p]) \in Frame
    BY <1>1, FrameTypes
  <1>3. CASE Load(p)
    <2> DEFINE runtime == [id |-> built[p] + 1, edit |-> edits, root |-> config.root]
    <2>1. runtime \in Runtime
      BY DEF TypeOK, Runtime, Roots
    <2>2. [Last(frames[p]) EXCEPT !.step = "provider", !.runtime = runtime] \in Frame
      BY <1>2, <2>1 DEF Frame
    <2>3. frames' \in [Pids -> Seq(Frame)]
      BY <1>1, <1>3, <2>2, FrameTypes DEF Load
    <2> QED
      BY <1>3, <2>3 DEF Load, TypeOK, processVars, history
  <1>4. CASE LoadFails(p)
    BY <1>1, <1>4, FrameTypes DEF LoadFails, TypeOK, processVars, history
  <1>5. CASE SetProvider(p)
    <2>1. [Last(frames[p]) EXCEPT !.step = "uploads"] \in Frame
      BY <1>2 DEF Frame
    <2>2. frames' \in [Pids -> Seq(Frame)]
      BY <1>1, <1>5, <2>1, FrameTypes DEF SetProvider
    <2>3. Last(frames[p]).runtime \in Runtime
      BY <1>2 DEF Frame
    <2> QED
      BY <1>5, <2>2, <2>3 DEF SetProvider, TypeOK, processVars, history
  <1>6. CASE SetUploads(p)
    <2>1. [Last(frames[p]) EXCEPT !.step = "root"] \in Frame
      BY <1>2 DEF Frame
    <2>2. frames' \in [Pids -> Seq(Frame)]
      BY <1>1, <1>6, <2>1, FrameTypes DEF SetUploads
    <2>3. Last(frames[p]).runtime.id \in Nat
      BY <1>2 DEF Frame, Runtime
    <2> QED
      BY <1>6, <2>2, <2>3 DEF SetUploads, TypeOK, processVars, history
  <1>7. CASE SetRoot(p)
    <2>1. Last(frames[p]).runtime.root \in Roots
      BY <1>2 DEF Frame, Runtime
    <2>2. nested' \in [Pids -> Nesting]
      BY <1>7 DEF SetRoot, TypeOK, Nesting
    <2> QED
      BY <1>1, <1>7, <2>1, <2>2, FrameTypes DEF SetRoot, TypeOK, processVars
  <1> QED
    BY <1>3, <1>4, <1>5, <1>6, <1>7 DEF HandlerStep

\* The tool sends its signal to a pid it has found.
TargetIsPid == tool.at = "send" => tool.target \in Pids

\* The steps of uboot-tftp-check --reload.
LEMMA ToolTypes ==
    ASSUME TypeOK, TargetIsPid, ToolStep
    PROVE  TypeOK'
  <1>1. CASE Check
    <2>1. tool' \in Tool
      BY <1>1 DEF Check, TypeOK, Tool
    <2>2. calls' \in 0 .. MaxCalls
      BY <1>1, DaemonAssumption DEF Check, TypeOK
    <2> QED
      BY <1>1, <2>1, <2>2 DEF Check, TypeOK, processVars, serverVars
  <1>2. CASE Scan
    <2>1. tool' \in Tool
      BY <1>2 DEF Scan, TypeOK, Tool
    <2> QED
      BY <1>2, <2>1 DEF Scan, TypeOK, processVars, serverVars, history
  <1>3. CASE Resolve
    <2>1. Candidates \subseteq Pids
      BY DaemonAssumption DEF Candidates, TypeOK, Tool
    <2>2. Cardinality(Candidates) = 1 => Candidates # {}
      BY FS_EmptySet
    <2>3. tool \in Tool
      BY DEF TypeOK
    <2>4. tool' \in Tool
      BY <1>3, <2>1, <2>2, <2>3, ZenonT(30), SMTT(30) DEF Resolve, Tool
    <2> QED
      BY <1>3, <2>4 DEF Resolve, TypeOK, processVars, serverVars, history
  <1>4. Sent \in Tool
    BY DEF Sent, TypeOK, Tool
  <1>5. CASE SendReload
    <2>1. [step |-> "load", runtime |-> NoRuntime] \in Frame
      BY DaemonAssumption DEF Frame, NoRuntime, Runtime, Roots
    <2>2. frames' \in [Pids -> Seq(Frame)]
      <3>1. tool.target \in Pids
        BY <1>5 DEF SendReload, TargetIsPid
      <3> QED
        BY <1>5, <2>1, <3>1 DEF SendReload, TypeOK
    <2>3. nested' \in [Pids -> Nesting]
      BY <1>5 DEF SendReload, TypeOK, Nesting
    <2> QED
      BY <1>4, <1>5, <2>2, <2>3 DEF SendReload, TypeOK, processVars
  <1>6. CASE SendKills
    <2>1. tool.target \in Pids
      BY <1>6 DEF SendKills, TargetIsPid
    <2> QED
      BY <1>4, <1>6, <2>1, GoneTypes DEF SendKills, TypeOK
  <1>7. CASE SendIsLost
    BY <1>4, <1>7 DEF SendIsLost, TypeOK, processVars, serverVars, history
  <1> QED
    BY <1>1, <1>2, <1>3, <1>5, <1>6, <1>7 DEF ToolStep

\* A target once sent to is forgotten, and only the tool chooses one.
LEMMA TargetStays ==
    ASSUME TypeOK, TargetIsPid, [Next]_vars
    PROVE  TargetIsPid'
  <1>1. CASE tool'.at = tool.at /\ tool'.target = tool.target
    BY <1>1 DEF TargetIsPid
  <1>2. ASSUME NEW p \in Pids,
               MainStep(p) \/ HandlerStep(p) \/ Kill(p) \/ Recycle(p) \/ Resemble(p)
        PROVE  tool'.at = tool.at /\ tool'.target = tool.target
    BY <1>2 DEF MainStep, HandlerStep, Launch, Prepare, PrepareFails, Build, BuildFails, Listen,
                Interrupt, Leave, Load, LoadFails, SetProvider, SetUploads, SetRoot, Kill,
                Recycle, Resemble, TypeOK, Tool
  <1>3. ASSUME NEW c \in Configs, Edit(c)
        PROVE  tool'.at = tool.at /\ tool'.target = tool.target
    BY <1>3 DEF Edit
  <1>4. CASE Check \/ Scan
    <2>1. tool \in Tool
      BY DEF TypeOK
    <2>2. tool'.at \in {"scan", "read"}
      <3>1. CASE Check
        BY <3>1 DEF Check
      <3>2. CASE Scan
        <4>1. PICK S, T : tool' = [tool EXCEPT !.at = "read", !.found = S, !.alike = T]
          BY <3>2 DEF Scan
        <4> QED
          BY <2>1, <4>1 DEF Tool
      <3> QED
        BY <1>4, <3>1, <3>2
    <2> QED
      BY <2>2 DEF TargetIsPid
  <1>5. CASE Resolve
    <2>1. Candidates \subseteq Pids
      BY DaemonAssumption DEF Candidates, TypeOK, Tool
    <2>2. Cardinality(Candidates) = 1 => Candidates # {}
      BY FS_EmptySet
    <2> QED
      BY <1>5, <2>1, <2>2 DEF Resolve, TypeOK, Tool, TargetIsPid
  <1>6. CASE SendReload \/ SendKills \/ SendIsLost
    <2>1. tool' = Sent
      BY <1>6 DEF SendReload, SendKills, SendIsLost
    <2>2. Sent.at = "idle"
      BY DEF Sent, TypeOK, Tool
    <2> QED
      BY <2>1, <2>2 DEF TargetIsPid
  <1>7. CASE UNCHANGED vars
    BY <1>7 DEF vars, TargetIsPid
  <1> QED
    BY <1>1, <1>2, <1>3, <1>4, <1>5, <1>6, <1>7 DEF Next, ToolStep

(***************************************************************************)
(* Every variable keeps its type: a signal is sent to a pid, and a handler *)
(* is only resumed while there is one on the stack (handle_reload,         *)
(* resolve_reload_pid).                                                    *)
(***************************************************************************)
THEOREM Types == Spec => [](TypeOK /\ TargetIsPid)
  <1>1. Init => TypeOK /\ TargetIsPid
    BY InitTypes DEF Init, TargetIsPid
  <1>2. TypeOK /\ TargetIsPid /\ [Next]_vars => (TypeOK /\ TargetIsPid)'
    <2> SUFFICES ASSUME TypeOK, TargetIsPid, [Next]_vars PROVE TypeOK'
      BY TargetStays
    <2>1. ASSUME NEW c \in Configs, Edit(c) PROVE TypeOK'
      BY <2>1, DaemonAssumption DEF Edit, TypeOK, processVars, serverVars
    <2>2. ASSUME NEW p \in Pids, MainStep(p) \/ HandlerStep(p) PROVE TypeOK'
      BY <2>2, MainTypes, HandlerTypes
    <2>3. ASSUME NEW p \in Pids, Kill(p) PROVE TypeOK'
      <3>1. tool' \in Tool
        BY <2>3 DEF Kill, TypeOK, Tool
      <3> QED
        BY <2>3, <3>1, GoneTypes DEF Kill, TypeOK
    <2>4. ASSUME NEW p \in Pids, Recycle(p) \/ Resemble(p) PROVE TypeOK'
      BY <2>4 DEF Recycle, Resemble, TypeOK, serverVars, history, Instance
    <2>5. CASE ToolStep
      BY <2>5, ToolTypes
    <2>6. CASE UNCHANGED vars
      BY <2>6 DEF vars, TypeOK, processVars, serverVars, history
    <2> QED
      BY <2>1, <2>2, <2>3, <2>4, <2>5, <2>6 DEF Next
  <1> QED
    BY <1>1, <1>2, PTL DEF Spec
----
(***************************************************************************)
(* The pidfiles, as long as every instance ended in an orderly way: each   *)
(* names an instance that wrote it and still has that configuration.       *)
(***************************************************************************)
Writers == {p \in Pids : at[p] \in Instance \ {"starting"}}

PidfilesAreWritten ==
    ~leftover => \A f \in Pidfiles : pidfile[f] # None =>
        pidfile[f] \in Writers /\ read[pidfile[f]].pidfile = f

\* Processes that keep their place and their configuration keep their pidfiles.
LEMMA PidfilesKept ==
    ASSUME TypeOK, PidfilesAreWritten, leftover' = leftover, pidfile' = pidfile,
           Writers \subseteq Writers', \A p \in Writers : read'[p] = read[p]
    PROVE  PidfilesAreWritten'
  BY DEF PidfilesAreWritten, TypeOK

\* An instance that has written no pidfile goes.
LEMMA PidfilesGone ==
    ASSUME TypeOK, PidfilesAreWritten, NEW p \in Pids, p \notin Writers, Gone(p),
           leftover' = leftover, pidfile' = pidfile
    PROVE  PidfilesAreWritten'
  <1>1. Writers \subseteq Writers' /\ \A q \in Writers : read'[q] = read[q]
    BY DEF Gone, TypeOK, Writers
  <1> QED
    BY <1>1, PidfilesKept

\* A pidfile names an instance that wrote it.
LEMMA PidfilesStep ==
    ASSUME TypeOK, TargetIsPid, PidfilesAreWritten, [Next]_vars
    PROVE  PidfilesAreWritten'
  <1>1. ASSUME NEW p \in Pids, NEW h \in BOOLEAN, Launch(p, h) PROVE PidfilesAreWritten'
    <2>1. at[p] = "free" /\ at' = [at EXCEPT ![p] = "starting"]
      BY <1>1 DEF Launch
    <2>2. Writers \subseteq Writers'
      BY <2>1 DEF Writers, TypeOK, Instance
    <2> QED
      BY <1>1, <2>2, PidfilesKept DEF Launch
  <1>2. ASSUME NEW p \in Pids, Prepare(p) PROVE PidfilesAreWritten'
    <2>1. /\ p \notin Writers /\ p \in Writers' /\ Writers \subseteq Writers'
          /\ read'[p] = config /\ \A q \in Pids \ {p} : read'[q] = read[q]
      BY <1>2 DEF Prepare, Writers, TypeOK, Instance
    <2>2. pidfile'[config.pidfile] = p
      BY <1>2, DaemonAssumption DEF Prepare, WrittenPidfile, TypeOK
    <2>3. \A f \in Pidfiles \ {config.pidfile} : pidfile'[f] = pidfile[f]
      BY <1>2 DEF Prepare, WrittenPidfile, TypeOK
    <2>4. leftover' = leftover
      BY <1>2 DEF Prepare
    <2> QED
      BY <2>1, <2>2, <2>3, <2>4 DEF PidfilesAreWritten, Writers
  <1>3. ASSUME NEW p \in Pids, PrepareFails(p) PROVE PidfilesAreWritten'
    BY <1>3, PidfilesGone DEF PrepareFails, Writers
  <1>4. ASSUME NEW p \in Pids, Build(p) \/ Listen(p) \/ Interrupt(p) PROVE PidfilesAreWritten'
    <2>1. Writers \subseteq Writers'
      BY <1>4 DEF Build, Listen, Interrupt, Writers, TypeOK, Instance
    <2> QED
      BY <1>4, <2>1, PidfilesKept DEF Build, Listen, Interrupt, history
  <1>5. ASSUME NEW p \in Pids, BuildFails(p) \/ Kill(p) PROVE PidfilesAreWritten'
    BY <1>5 DEF BuildFails, Kill, PidfilesAreWritten
  <1>6. ASSUME NEW p \in Pids, Leave(p) PROVE PidfilesAreWritten'
    <2>1. leftover' = leftover /\ pidfile' = RemovedPidfile(p)
      BY <1>6 DEF Leave
    <2>2. /\ \A q \in Writers \ {p} : q \in Writers'
          /\ \A q \in Pids \ {p} : read'[q] = read[q]
      BY <1>6 DEF Leave, Gone, Writers, TypeOK
    <2>3. ASSUME ~leftover, NEW f \in Pidfiles, pidfile'[f] # None
          PROVE  pidfile'[f] \in Writers' /\ read'[pidfile'[f]].pidfile = f
      <3>1. f # read[p].pidfile /\ pidfile'[f] = pidfile[f]
        BY <2>1, <2>3 DEF RemovedPidfile, TypeOK
      <3>2. pidfile[f] \in Writers /\ read[pidfile[f]].pidfile = f
        BY <2>3, <3>1 DEF PidfilesAreWritten
      <3>3. pidfile[f] # p
        BY <3>1, <3>2
      <3> QED
        BY <2>2, <3>1, <3>2, <3>3 DEF Writers
    <2> QED
      BY <2>1, <2>3 DEF PidfilesAreWritten
  <1>7. ASSUME NEW p \in Pids, HandlerStep(p) PROVE PidfilesAreWritten'
    <2>1. UNCHANGED <<at, read, pidfile, leftover>>
      BY <1>7 DEF HandlerStep, Load, LoadFails, SetProvider, SetUploads, SetRoot, processVars,
                  history
    <2> QED
      BY <2>1, PidfilesKept DEF Writers
  <1>8. ASSUME NEW p \in Pids, Recycle(p) \/ Resemble(p) PROVE PidfilesAreWritten'
    <2>1. Writers \subseteq Writers'
      BY <1>8 DEF Recycle, Resemble, Writers, TypeOK, Instance
    <2> QED
      BY <1>8, <2>1, PidfilesKept DEF Recycle, Resemble, history
  <1>9. CASE Check \/ Scan \/ Resolve \/ SendReload \/ SendIsLost
    <2>1. UNCHANGED <<at, read, pidfile, leftover>>
      BY <1>9 DEF Check, Scan, Resolve, SendReload, SendIsLost, processVars, history
    <2> QED
      BY <2>1, PidfilesKept DEF Writers
  <1>10. CASE SendKills
    <2>1. CASE at[tool.target] = "written"
      BY <1>10, <2>1 DEF SendKills, PidfilesAreWritten
    <2>2. CASE at[tool.target] # "written"
      <3>1. tool.target \in Pids /\ tool.target \notin Writers
        BY <1>10, <2>2 DEF SendKills, TargetIsPid, Writers, Instance
      <3>2. leftover \in BOOLEAN
        BY DEF TypeOK
      <3>3. leftover' = leftover
        BY <1>10, <2>2, <3>2 DEF SendKills
      <3> QED
        BY <1>10, <3>1, <3>3, PidfilesGone DEF SendKills
    <2> QED
      BY <2>1, <2>2
  <1>11. CASE UNCHANGED vars \/ \E c \in Configs : Edit(c)
    <2>1. UNCHANGED <<at, read, pidfile, leftover>>
      BY <1>11 DEF vars, Edit, processVars, history
    <2> QED
      BY <2>1, PidfilesKept DEF Writers
  <1> QED
    BY <1>1, <1>2, <1>3, <1>4, <1>5, <1>6, <1>7, <1>8, <1>9, <1>10, <1>11
       DEF Next, MainStep, ToolStep

(***************************************************************************)
(* As long as every instance is interrupted in an orderly way, a pidfile   *)
(* names an instance that runs, however the instances overlap (main,       *)
(* write_pidfile, remove_pidfile).                                         *)
(***************************************************************************)
THEOREM PidfilesName == Spec => []PidfileNamesInstance
  <1>1. Init => PidfilesAreWritten
    BY DEF Init, PidfilesAreWritten
  <1>2. TypeOK /\ TargetIsPid /\ PidfilesAreWritten /\ [Next]_vars => PidfilesAreWritten'
    BY PidfilesStep
  <1>3. PidfilesAreWritten => PidfileNamesInstance
    BY DEF PidfilesAreWritten, PidfileNamesInstance, Writers
  <1> QED
    BY <1>1, <1>2, <1>3, Types, PTL DEF Spec
----
(***************************************************************************)
(* The runtime in use.  A reload that nothing interrupts replaces the      *)
(* provider, the upload store and the root one after the other, and so it  *)
(* repairs what reloads that overlapped have left.                         *)
(***************************************************************************)
Settled(p) ==
    /\ provider[p].id = uploads[p]
    /\ provider[p].root = root[p]

\* What the only handler on the stack still has to do.
Halfway(p) ==
    \E frame \in Frame :
        /\ frames[p] = <<frame>>
        /\ frame.step \in {"load", "provider"} /\ nested[p] = "no" => Settled(p)
        /\ frame.step \in {"uploads", "root"} => provider[p] = frame.runtime
        /\ frame.step = "root" => uploads[p] = frame.runtime.id

StackIsSound(p) ==
    /\ at[p] \notin Handling => frames[p] = <<>>
    /\ at[p] \in Handling /\ nested[p] # "yes" =>
           (frames[p] = <<>> /\ (nested[p] = "no" => Settled(p))) \/ Halfway(p)

\* A process the step does not touch.
LEMMA OtherStack ==
    ASSUME NEW p \in Pids, StackIsSound(p), at'[p] = at[p], nested'[p] = nested[p],
           frames'[p] = frames[p], provider'[p] = provider[p], uploads'[p] = uploads[p],
           root'[p] = root[p]
    PROVE  StackIsSound(p)'
  BY DEF StackIsSound, Settled, Halfway

\* A process that handles no signal has no handler.
LEMMA IdleStack ==
    ASSUME NEW p \in Pids, frames'[p] = <<>>, at'[p] \notin Handling
    PROVE  StackIsSound(p)'
  BY DEF StackIsSound

\* A step of the innermost handler keeps every frame of the stack as it should be.
LEMMA HandlerStack ==
    ASSUME TypeOK, NEW p \in Pids, StackIsSound(p), HandlerStep(p)
    PROVE  StackIsSound(p)'
  <1>1. /\ at[p] \in Handling /\ frames[p] # <<>> /\ Last(frames[p]) \in Frame
        /\ UNCHANGED at /\ (nested'[p] = "yes" <=> nested[p] = "yes")
    BY FrameTypes DEF HandlerStep, Load, LoadFails, SetProvider, SetUploads, SetRoot, Running,
                      processVars, history, TypeOK
  <1> SUFFICES ASSUME nested[p] # "yes"
               PROVE  (frames'[p] = <<>> /\ (nested'[p] = "no" => Settled(p)')) \/ Halfway(p)'
    BY <1>1 DEF StackIsSound
  <1>2. PICK frame \in Frame :
            /\ frames[p] = <<frame>>
            /\ frame.step \in {"load", "provider"} /\ nested[p] = "no" => Settled(p)
            /\ frame.step \in {"uploads", "root"} => provider[p] = frame.runtime
            /\ frame.step = "root" => uploads[p] = frame.runtime.id
    BY <1>1 DEF StackIsSound, Halfway
  <1>3. /\ Last(frames[p]) = frame
        /\ Returned(p)[p] = <<>>
        /\ \A g : Replaced(p, g)[p] = <<g>>
    BY <1>2, OneFrame DEF Returned, Replaced, TypeOK
  <1>4. CASE Load(p)
    <2> DEFINE runtime == [id |-> built[p] + 1, edit |-> edits, root |-> config.root]
               g == [frame EXCEPT !.step = "provider", !.runtime = runtime]
    <2>1. runtime \in Runtime
      BY DEF TypeOK, Runtime, Roots
    <2>2. g \in Frame /\ g.step = "provider"
      BY <2>1 DEF Frame
    <2>3. frames'[p] = <<g>> /\ UNCHANGED <<provider, uploads, root, nested>>
      BY <1>3, <1>4 DEF Load, history
    <2>4. nested[p] = "no" => Settled(p)'
      BY <1>2, <1>3, <1>4, <2>3 DEF Load, Running, Settled
    <2> HIDE DEF g
    <2> QED
      BY <2>2, <2>3, <2>4 DEF Halfway
  <1>5. CASE LoadFails(p)
    BY <1>2, <1>3, <1>5 DEF LoadFails, Running, Settled, history
  <1>6. CASE SetProvider(p)
    <2> DEFINE g == [frame EXCEPT !.step = "uploads"]
    <2>1. g \in Frame /\ g.step = "uploads" /\ g.runtime = frame.runtime
      BY DEF Frame
    <2>2. frames'[p] = <<g>> /\ provider'[p] = frame.runtime
      BY <1>3, <1>6 DEF SetProvider, TypeOK
    <2> HIDE DEF g
    <2> QED
      BY <2>1, <2>2 DEF Halfway
  <1>7. CASE SetUploads(p)
    <2> DEFINE g == [frame EXCEPT !.step = "root"]
    <2>1. g \in Frame /\ g.step = "root" /\ g.runtime = frame.runtime
      BY DEF Frame
    <2>2. frames'[p] = <<g>> /\ uploads'[p] = frame.runtime.id
      BY <1>3, <1>7 DEF SetUploads, TypeOK
    <2>3. provider'[p] = frame.runtime
      BY <1>2, <1>3, <1>7 DEF SetUploads, Running
    <2> HIDE DEF g
    <2> QED
      BY <2>1, <2>2, <2>3 DEF Halfway
  <1>8. CASE SetRoot(p)
    <2>1. frames'[p] = <<>> /\ root'[p] = frame.runtime.root /\ UNCHANGED <<provider, uploads>>
      BY <1>3, <1>8 DEF SetRoot, TypeOK
    <2>2. frame.step = "root"
      BY <1>3, <1>8 DEF SetRoot, Running
    <2> QED
      BY <1>2, <2>1, <2>2 DEF Settled
  <1> QED
    BY <1>4, <1>5, <1>6, <1>7, <1>8 DEF HandlerStep

Sound == \A p \in Pids : StackIsSound(p)

\* An instance that goes leaves no frames.
LEMMA GoneStack ==
    ASSUME TypeOK, Sound, NEW p \in Pids, Gone(p)
    PROVE  Sound'
  <1>1. StackIsSound(p)'
    <2>1. frames'[p] = <<>> /\ at'[p] = "free"
      BY DEF Gone, TypeOK
    <2> QED
      BY <2>1, IdleStack DEF Handling
  <1>2. ASSUME NEW q \in Pids \ {p} PROVE StackIsSound(q)'
    BY OtherStack DEF Gone, TypeOK, Sound
  <1> QED
    BY <1>1, <1>2 DEF Sound

\* Every step keeps the stacks of handler frames sound.
LEMMA SoundStep ==
    ASSUME TypeOK, TargetIsPid, Sound, [Next]_vars
    PROVE  Sound'
  <1>1. CASE UNCHANGED <<at, nested, serverVars>>
    BY <1>1, OtherStack DEF Sound, serverVars
  <1>2. ASSUME NEW p \in Pids, UNCHANGED <<nested, serverVars>>, at'[p] \notin Handling,
               at[p] \notin Handling, \A q \in Pids \ {p} : at'[q] = at[q]
        PROVE  Sound'
    <2>1. StackIsSound(p)'
      BY <1>2, IdleStack DEF Sound, StackIsSound, serverVars
    <2>2. ASSUME NEW q \in Pids \ {p} PROVE StackIsSound(q)'
      BY <1>2, OtherStack DEF Sound, serverVars
    <2> QED
      BY <2>1, <2>2 DEF Sound
  <1>3. ASSUME NEW p \in Pids, NEW h \in BOOLEAN, Launch(p, h) PROVE Sound'
    <2>1. /\ at[p] = "free" /\ at' = [at EXCEPT ![p] = "starting"]
          /\ UNCHANGED <<nested, serverVars>>
      BY <1>3 DEF Launch
    <2>2. /\ at'[p] \notin Handling /\ at[p] \notin Handling
          /\ \A q \in Pids \ {p} : at'[q] = at[q]
      BY <2>1 DEF TypeOK, Handling
    <2> QED
      BY <1>2, <2>1, <2>2
  <1>4. ASSUME NEW p \in Pids, Prepare(p) \/ Recycle(p) \/ Resemble(p) PROVE Sound'
    <2>1. UNCHANGED <<nested, serverVars>>
      BY <1>4 DEF Prepare, Recycle, Resemble, history
    <2>2. /\ at'[p] \notin Handling /\ at[p] \notin Handling
          /\ \A q \in Pids \ {p} : at'[q] = at[q]
      BY <1>4 DEF Prepare, Recycle, Resemble, TypeOK, Handling
    <2> QED
      BY <1>2, <2>1, <2>2
  <1>5. ASSUME NEW p \in Pids, PrepareFails(p) \/ BuildFails(p) \/ Leave(p) \/ Kill(p)
        PROVE  Sound'
    BY <1>5, GoneStack DEF PrepareFails, BuildFails, Leave, Kill
  <1>6. ASSUME NEW p \in Pids, Build(p) PROVE Sound'
    <2>1. frames[p] = <<>>
      BY <1>6 DEF Build, Sound, StackIsSound, Handling
    <2>2. frames'[p] = <<>> /\ Settled(p)'
      BY <1>6, <2>1 DEF Build, Settled, TypeOK
    <2>3. StackIsSound(p)'
      BY <2>2 DEF StackIsSound
    <2>4. ASSUME NEW q \in Pids \ {p} PROVE StackIsSound(q)'
      BY <1>6, OtherStack DEF Build, Sound, TypeOK, history
    <2> QED
      BY <2>3, <2>4 DEF Sound
  <1>7. ASSUME NEW p \in Pids, Listen(p) PROVE Sound'
    <2>1. frames'[p] = <<>> /\ at[p] = "armed" /\ UNCHANGED <<nested, serverVars>>
      BY <1>7 DEF Listen, serverVars, history
    <2>2. nested[p] = "no" => Settled(p)
      BY <1>7, <2>1, OneFrame DEF Listen, Sound, StackIsSound, Handling, Halfway
    <2>3. StackIsSound(p)'
      BY <2>1, <2>2 DEF StackIsSound, Settled, serverVars
    <2>4. ASSUME NEW q \in Pids \ {p} PROVE StackIsSound(q)'
      BY <1>7, <2>1, OtherStack DEF Listen, Sound, TypeOK, serverVars
    <2> QED
      BY <2>3, <2>4 DEF Sound
  <1>8. ASSUME NEW p \in Pids, Interrupt(p) PROVE Sound'
    <2>1. frames'[p] = <<>> /\ at'[p] = "leaving"
      BY <1>8 DEF Interrupt, TypeOK
    <2>2. StackIsSound(p)'
      BY <2>1, IdleStack DEF Handling
    <2>3. ASSUME NEW q \in Pids \ {p} PROVE StackIsSound(q)'
      BY <1>8, OtherStack DEF Interrupt, Sound, TypeOK, history
    <2> QED
      BY <2>2, <2>3 DEF Sound
  <1>9. ASSUME NEW p \in Pids, HandlerStep(p) PROVE Sound'
    <2>1. StackIsSound(p)'
      BY <1>9, HandlerStack DEF Sound
    <2>2. ASSUME NEW q \in Pids \ {p} PROVE StackIsSound(q)'
      BY <1>9, OtherStack DEF HandlerStep, Load, LoadFails, SetProvider, SetUploads, SetRoot,
                              Returned, Replaced, processVars, history, Sound, TypeOK
    <2> QED
      BY <2>1, <2>2 DEF Sound
  <1>10. CASE Check \/ Scan \/ Resolve \/ SendIsLost \/ UNCHANGED vars
              \/ \E c \in Configs : Edit(c)
    BY <1>1, <1>10 DEF Check, Scan, Resolve, SendIsLost, vars, Edit, processVars, history
  <1>11. ASSUME NEW p \in Pids, p = tool.target, SendReload PROVE Sound'
    <2>1. PICK frame \in Frame :
              /\ frame.step = "load"
              /\ frames' = [frames EXCEPT ![p] = Append(@, frame)]
      <3> DEFINE g == [step |-> "load", runtime |-> NoRuntime]
      <3>1. g \in Frame /\ g.step = "load"
        BY DaemonAssumption DEF Frame, NoRuntime, Runtime, Roots
      <3>2. frames' = [frames EXCEPT ![p] = Append(@, g)]
        BY <1>11 DEF SendReload
      <3> HIDE DEF g
      <3> QED
        BY <3>1, <3>2
    <2>2. /\ at[p] \in Handling
          /\ nested' = [nested EXCEPT ![p] =
                 IF frames[p] # <<>> THEN "yes" ELSE IF @ = "yes" THEN "over" ELSE @]
          /\ UNCHANGED <<at, provider, uploads, root>>
      BY <1>11 DEF SendReload, processVars
    <2>3. ASSUME nested'[p] # "yes" PROVE Halfway(p)'
      <3>1. frames[p] = <<>> /\ (nested'[p] = "no" => nested[p] = "no")
        BY <2>2, <2>3 DEF TypeOK
      <3>2. nested[p] = "no" => Settled(p)
        BY <2>1, <2>2, <3>1, OneFrame DEF Sound, StackIsSound, Halfway
      <3>3. frames'[p] = <<frame>>
        BY <2>1, <2>2, <3>1, OneFrame DEF TypeOK
      <3> QED
        BY <2>1, <2>2, <3>2, <3>3 DEF Halfway, Settled
    <2>4. StackIsSound(p)'
      BY <2>2, <2>3 DEF StackIsSound
    <2>5. ASSUME NEW q \in Pids \ {p} PROVE StackIsSound(q)'
      <3>1. frames'[q] = frames[q] /\ nested'[q] = nested[q]
        BY <2>1, <2>2 DEF TypeOK
      <3> QED
        BY <2>2, <3>1, OtherStack DEF Sound
    <2> QED
      BY <2>4, <2>5 DEF Sound
  <1>12. CASE SendKills
    BY <1>12, GoneStack DEF SendKills, TargetIsPid
  <1>13. SendReload => tool.target \in Pids
    BY DEF SendReload, TargetIsPid
  <1> QED
    BY <1>3, <1>4, <1>5, <1>6, <1>7, <1>8, <1>9, <1>10, <1>11, <1>12, <1>13
       DEF Next, MainStep, ToolStep

\* Nothing runs: there are no frames.
LEMMA InitSound == Init => Sound
  BY DEF Init, Sound, StackIsSound, Handling

\* In every reachable state the stacks of handler frames are sound.
THEOREM StacksAreSound == Spec => []Sound
  <1>1. TypeOK /\ TargetIsPid /\ Sound /\ [Next]_vars => Sound'
    BY SoundStep
  <1> QED
    BY <1>1, InitSound, Types, PTL DEF Spec

(***************************************************************************)
(* Between requests the provider, the upload store and the root that a     *)
(* server uses belong to one runtime, unless reloads interrupted each      *)
(* other and none that ran alone has succeeded since (reload_server).      *)
(***************************************************************************)
THEOREM OneRuntime == Spec => []RuntimeIsOne
  <1>1. TypeOK /\ Sound => RuntimeIsOne
    BY OneFrame DEF Sound, StackIsSound, Halfway, Settled, RuntimeIsOne, Quiet, Handling, TypeOK
  <1> QED
    BY <1>1, Types, StacksAreSound, PTL
----
(***************************************************************************)
(* The newest configuration.  A server that was asked after the last edit, *)
(* of a file it can use, has its runtime, or is about to have it.          *)
(***************************************************************************)
HasNewest(p) ==
    /\ frames[p] = <<>> /\ nested[p] = "no" => provider[p].edit = edits
    /\ \A frame \in Frame :
           frames[p] = <<frame>> /\ frame.step # "load" => frame.runtime.edit = edits

Newest ==
    \A p \in Pids :
        /\ asked[p] <= edits
        /\ at[p] \in Handling /\ nested[p] # "yes" /\ asked[p] = edits /\ Usable => HasNewest(p)

\* A step that leaves the file, the runtime and the signals of a process alone.
LEMMA NewestKept ==
    ASSUME Newest, NEW p \in Pids, UNCHANGED <<config, edits>>, nested'[p] = nested[p],
           frames'[p] = frames[p], provider'[p] = provider[p], asked'[p] = asked[p],
           at'[p] \in Handling => at[p] \in Handling
    PROVE  /\ asked'[p] <= edits'
           /\ at'[p] \in Handling /\ nested'[p] # "yes" /\ asked'[p] = edits' /\ Usable'
                  => HasNewest(p)'
  BY DEF Newest, HasNewest, Usable

\* An instance that goes uses no configuration.
LEMMA GoneNewest ==
    ASSUME TypeOK, Newest, NEW p \in Pids, Gone(p)
    PROVE  Newest'
  <1>1. at'[p] \notin Handling /\ asked'[p] <= edits'
    BY DEF Gone, TypeOK, Handling
  <1>2. ASSUME NEW q \in Pids \ {p}
        PROVE  /\ asked'[q] <= edits'
               /\ at'[q] \in Handling /\ nested'[q] # "yes" /\ asked'[q] = edits' /\ Usable'
                      => HasNewest(q)'
    BY NewestKept DEF Gone, TypeOK
  <1> QED
    BY <1>1, <1>2 DEF Newest

\* A step of the handler: one that nothing interrupts ends with what the file says.
LEMMA HandlerNewest ==
    ASSUME TypeOK, Sound, Newest, NEW p \in Pids, HandlerStep(p)
    PROVE  Newest'
  <1>1. /\ at[p] \in Handling /\ frames[p] # <<>>
        /\ UNCHANGED <<config, edits, at, asked>>
        /\ nested'[p] = "yes" <=> nested[p] = "yes"
    BY DEF HandlerStep, Load, LoadFails, SetProvider, SetUploads, SetRoot, Running, processVars,
           history, TypeOK
  <1>2. ASSUME NEW q \in Pids \ {p}
        PROVE  /\ asked'[q] <= edits'
               /\ at'[q] \in Handling /\ nested'[q] # "yes" /\ asked'[q] = edits' /\ Usable'
                      => HasNewest(q)'
    <2>1. frames'[q] = frames[q] /\ provider'[q] = provider[q] /\ nested'[q] = nested[q]
      BY DEF HandlerStep, Load, LoadFails, SetProvider, SetUploads, SetRoot, Returned, Replaced,
             history, TypeOK
    <2> QED
      BY <1>1, <2>1, NewestKept
  <1>3. ASSUME nested[p] # "yes", asked[p] = edits, Usable PROVE HasNewest(p)'
    <2>1. PICK frame \in Frame :
              /\ frames[p] = <<frame>>
              /\ frame.step \in {"uploads", "root"} => provider[p] = frame.runtime
      BY <1>1, <1>3 DEF Sound, StackIsSound, Halfway
    <2>2. /\ Last(frames[p]) = frame
          /\ Returned(p)[p] = <<>>
          /\ \A g : Replaced(p, g)[p] = <<g>>
      BY <2>1, OneFrame DEF Returned, Replaced, TypeOK
    <2>3. frame.step # "load" => frame.runtime.edit = edits
      BY <1>1, <1>3, <2>1 DEF Newest, HasNewest
    <2>4. ASSUME NEW g, frames'[p] = <<g>>, g.runtime.edit = edits PROVE HasNewest(p)'
      BY <1>1, <2>4, OneFrame DEF HasNewest
    <2>5. CASE Load(p)
      <3> DEFINE runtime == [id |-> built[p] + 1, edit |-> edits, root |-> config.root]
                 g == [frame EXCEPT !.step = "provider", !.runtime = runtime]
      <3>1. g.runtime.edit = edits
        BY DEF Frame
      <3>2. frames'[p] = <<g>>
        BY <2>2, <2>5 DEF Load
      <3> HIDE DEF g
      <3> QED
        BY <2>4, <3>1, <3>2
    <2>6. CASE LoadFails(p)
      BY <1>3, <2>6 DEF LoadFails
    <2>7. CASE SetProvider(p)
      <3> DEFINE g == [frame EXCEPT !.step = "uploads"]
      <3>1. g.runtime.edit = edits
        BY <2>2, <2>3, <2>7 DEF Frame, SetProvider, Running
      <3>2. frames'[p] = <<g>>
        BY <2>2, <2>7 DEF SetProvider
      <3> HIDE DEF g
      <3> QED
        BY <2>4, <3>1, <3>2
    <2>8. CASE SetUploads(p)
      <3> DEFINE g == [frame EXCEPT !.step = "root"]
      <3>1. g.runtime.edit = edits
        BY <2>2, <2>3, <2>8 DEF Frame, SetUploads, Running
      <3>2. frames'[p] = <<g>>
        BY <2>2, <2>8 DEF SetUploads
      <3> HIDE DEF g
      <3> QED
        BY <2>4, <3>1, <3>2
    <2>9. CASE SetRoot(p)
      <3>1. provider'[p].edit = edits'
        BY <1>1, <2>1, <2>2, <2>3, <2>9 DEF SetRoot, Running
      <3>2. frames'[p] = <<>>
        BY <2>2, <2>9 DEF SetRoot
      <3> QED
        BY <3>1, <3>2, OneFrame DEF HasNewest
    <2> QED
      BY <2>5, <2>6, <2>7, <2>8, <2>9 DEF HandlerStep
  <1>4. asked'[p] <= edits' /\ (Usable' <=> Usable)
    BY <1>1 DEF Newest, Usable
  <1> QED
    BY <1>1, <1>2, <1>3, <1>4 DEF Newest

\* Every step keeps it that a server asked after the last edit has, or gets, that content.
LEMMA NewestStep ==
    ASSUME TypeOK, TargetIsPid, Sound, Newest, [Next]_vars
    PROVE  Newest'
  <1>1. CASE /\ UNCHANGED <<config, edits, nested, frames, provider, asked>>
             /\ \A p \in Pids : at'[p] \in Handling => at[p] \in Handling
    BY <1>1, NewestKept DEF Newest
  <1>2. ASSUME NEW c \in Configs, Edit(c) PROVE Newest'
    <2>1. \A p \in Pids : asked'[p] <= edits /\ edits' = edits + 1 /\ edits \in Nat
                           /\ asked'[p] \in Nat
      BY <1>2 DEF Edit, Newest, TypeOK
    <2>2. \A p \in Pids : asked'[p] <= edits' /\ asked'[p] # edits'
      BY <2>1
    <2> QED
      BY <2>2 DEF Newest
  <1>3. ASSUME NEW p \in Pids, NEW h \in BOOLEAN, Launch(p, h) PROVE Newest'
    <2>1. /\ at[p] = "free" /\ at' = [at EXCEPT ![p] = "starting"]
          /\ UNCHANGED <<config, edits, nested, frames, provider, asked>>
      BY <1>3 DEF Launch, serverVars
    <2> QED
      BY <1>1, <2>1 DEF TypeOK, Handling
  <1>4. ASSUME NEW p \in Pids, Prepare(p) PROVE Newest'
    <2>1. at'[p] \notin Handling /\ asked'[p] <= edits'
      BY <1>4 DEF Prepare, TypeOK, Handling
    <2>2. ASSUME NEW q \in Pids \ {p}
          PROVE  /\ asked'[q] <= edits'
                 /\ at'[q] \in Handling /\ nested'[q] # "yes" /\ asked'[q] = edits' /\ Usable'
                        => HasNewest(q)'
      BY <1>4, NewestKept DEF Prepare, TypeOK, serverVars
    <2> QED
      BY <2>1, <2>2 DEF Newest
  <1>5. ASSUME NEW p \in Pids, PrepareFails(p) \/ BuildFails(p) \/ Leave(p) \/ Kill(p)
        PROVE  Newest'
    BY <1>5, GoneNewest DEF PrepareFails, BuildFails, Leave, Kill
  <1>6. ASSUME NEW p \in Pids, Build(p) PROVE Newest'
    <2>1. frames'[p] = <<>>
      BY <1>6 DEF Build, Sound, StackIsSound, Handling
    <2>2. provider'[p].edit = asked[p] /\ UNCHANGED <<edits, asked>>
      BY <1>6 DEF Build, TypeOK, history
    <2>3. /\ asked'[p] <= edits'
          /\ asked'[p] = edits' => HasNewest(p)'
      BY <2>1, <2>2, OneFrame DEF HasNewest, Newest
    <2>4. ASSUME NEW q \in Pids \ {p}
          PROVE  /\ asked'[q] <= edits'
                 /\ at'[q] \in Handling /\ nested'[q] # "yes" /\ asked'[q] = edits' /\ Usable'
                        => HasNewest(q)'
      BY <1>6, NewestKept DEF Build, TypeOK, history
    <2> QED
      BY <2>3, <2>4 DEF Newest
  <1>7. ASSUME NEW p \in Pids, Listen(p) \/ Recycle(p) \/ Resemble(p) PROVE Newest'
    <2>1. UNCHANGED <<config, edits, nested, frames, provider, asked>>
      BY <1>7 DEF Listen, Recycle, Resemble, serverVars, history
    <2>2. \A q \in Pids : at'[q] \in Handling => at[q] \in Handling
      BY <1>7 DEF Listen, Recycle, Resemble, TypeOK, Handling
    <2> QED
      BY <1>1, <2>1, <2>2
  <1>8. ASSUME NEW p \in Pids, Interrupt(p) PROVE Newest'
    <2>1. at'[p] \notin Handling /\ asked'[p] <= edits'
      BY <1>8 DEF Interrupt, TypeOK, Handling, Newest, history
    <2>2. ASSUME NEW q \in Pids \ {p}
          PROVE  /\ asked'[q] <= edits'
                 /\ at'[q] \in Handling /\ nested'[q] # "yes" /\ asked'[q] = edits' /\ Usable'
                        => HasNewest(q)'
      BY <1>8, NewestKept DEF Interrupt, TypeOK, history
    <2> QED
      BY <2>1, <2>2 DEF Newest
  <1>9. ASSUME NEW p \in Pids, HandlerStep(p) PROVE Newest'
    BY <1>9, HandlerNewest
  <1>10. CASE Check \/ Scan \/ Resolve \/ SendIsLost \/ UNCHANGED vars
    <2>1. UNCHANGED <<config, edits, nested, frames, provider, asked, at>>
      BY <1>10 DEF Check, Scan, Resolve, SendIsLost, vars, processVars, serverVars, history
    <2> QED
      BY <1>1, <2>1
  <1>11. ASSUME NEW p \in Pids, p = tool.target, SendReload PROVE Newest'
    <2>1. PICK frame : /\ frame.step = "load"
                       /\ frames' = [frames EXCEPT ![p] = Append(@, frame)]
      BY <1>11 DEF SendReload
    <2>2. /\ nested' = [nested EXCEPT ![p] =
                 IF frames[p] # <<>> THEN "yes" ELSE IF @ = "yes" THEN "over" ELSE @]
          /\ asked' = [asked EXCEPT ![p] = edits]
          /\ UNCHANGED <<config, edits, at, provider>>
      BY <1>11 DEF SendReload, processVars
    <2>3. asked'[p] <= edits'
      BY <2>2 DEF TypeOK
    <2>4. nested'[p] # "yes" => HasNewest(p)'
      <3> SUFFICES ASSUME nested'[p] # "yes" PROVE HasNewest(p)'
        OBVIOUS
      <3>1. frames[p] = <<>>
        BY <2>2 DEF TypeOK
      <3>2. frames'[p] = <<frame>>
        BY <2>1, <3>1, OneFrame DEF TypeOK
      <3> QED
        BY <2>1, <3>2, OneFrame DEF HasNewest
    <2>5. ASSUME NEW q \in Pids \ {p}
          PROVE  /\ asked'[q] <= edits'
                 /\ at'[q] \in Handling /\ nested'[q] # "yes" /\ asked'[q] = edits' /\ Usable'
                        => HasNewest(q)'
      <3>1. frames'[q] = frames[q] /\ nested'[q] = nested[q] /\ asked'[q] = asked[q]
        BY <2>1, <2>2 DEF TypeOK
      <3> QED
        BY <2>2, <3>1, NewestKept
    <2> QED
      BY <2>3, <2>4, <2>5 DEF Newest
  <1>12. CASE SendKills
    BY <1>12, GoneNewest DEF SendKills, TargetIsPid
  <1>13. SendReload => tool.target \in Pids
    BY DEF SendReload, TargetIsPid
  <1> QED
    BY <1>2, <1>3, <1>4, <1>5, <1>6, <1>7, <1>8, <1>9, <1>10, <1>11, <1>12, <1>13
       DEF Next, MainStep, ToolStep

(***************************************************************************)
(* A server that was asked to reload after the last change of its file     *)
(* works with that file, if it is usable, unless reloads interrupted each  *)
(* other and none that ran alone has succeeded since (handle_reload,       *)
(* reload_server).                                                         *)
(***************************************************************************)
THEOREM NewestIsUsed == Spec => []NewestConfigIsUsed
  <1>1. Init => Newest
    BY DEF Init, Newest, Handling
  <1>2. TypeOK /\ TargetIsPid /\ Sound /\ Newest /\ [Next]_vars => Newest'
    BY NewestStep
  <1>3. Newest => NewestConfigIsUsed
    BY DEF Newest, HasNewest, NewestConfigIsUsed, Quiet, Handling
  <1> QED
    BY <1>1, <1>2, <1>3, Types, StacksAreSound, PTL DEF Spec
----
(***************************************************************************)
(* An instance that has run alone since its start, and what the tool finds *)
(* of it: its own pid in its pidfile, and, unless a process is like it, no *)
(* other.                                                                  *)
(***************************************************************************)
LoneIsKnown ==
    \A p \in Pids : alone[p] =>
        /\ at[p] \in Instance
        /\ \A q \in Pids \ {p} : at[q] \notin Instance
        /\ at[p] # "starting" => pidfile[read[p].pidfile] = p

ToolSees(p) ==
    /\ at[p] = "serving"
    /\ tool.at = "scan" => tool.told = "nothing"
    /\ alone[p] /\ tool.at = "read" /\ ~tool.alike => tool.found \subseteq {p}
    /\ alone[p] /\ read[p].pidfile = tool.config.pidfile =>
           /\ tool.told # "none"
           /\ tool.told = "many" => tool.alike
           /\ tool.at = "send" => tool.target = p

ToolIsRight == \A p \in tool.steady : p \in Pids /\ ToolSees(p)

\* While an instance runs, no other one is alone.
LEMMA OnlyOneAlone ==
    ASSUME LoneIsKnown, NEW p \in Pids, at[p] \in Instance
    PROVE  \A q \in Pids \ {p} : ~alone[q]
  BY DEF LoneIsKnown

\* Every step keeps it that an instance that is alone is known by its pidfile.
LEMMA LoneStep ==
    ASSUME TypeOK, TargetIsPid, LoneIsKnown, [Next]_vars
    PROVE  LoneIsKnown'
  <1>1. ASSUME NEW p \in Pids, NEW h \in BOOLEAN, Launch(p, h) PROVE LoneIsKnown'
    <2>1. /\ at' = [at EXCEPT ![p] = "starting"]
          /\ alone'[p] => \A q \in Pids \ {p} : at[q] \notin Instance
          /\ \A q \in Pids \ {p} : alone'[q] => alone[q] /\ at[q] \notin Instance
      BY <1>1 DEF Launch
    <2>2. \A q \in Pids \ {p} : ~alone'[q]
      BY <2>1 DEF LoneIsKnown
    <2> QED
      BY <2>1, <2>2 DEF LoneIsKnown, TypeOK, Instance
  <1>2. ASSUME NEW p \in Pids, Prepare(p) PROVE LoneIsKnown'
    <2>1. \A q \in Pids \ {p} : ~alone[q]
      BY <1>2, OnlyOneAlone DEF Prepare, Instance
    <2>2. pidfile'[read'[p].pidfile] = p
      BY <1>2, DaemonAssumption DEF Prepare, WrittenPidfile, TypeOK
    <2>3. /\ at' = [at EXCEPT ![p] = "written"] /\ alone' = alone
      BY <1>2 DEF Prepare
    <2> QED
      BY <2>1, <2>2, <2>3 DEF LoneIsKnown, TypeOK, Instance
  <1>3. ASSUME NEW p \in Pids, Build(p) \/ Listen(p) \/ Interrupt(p) PROVE LoneIsKnown'
    <2>1. /\ UNCHANGED <<read, pidfile, alone>> /\ at[p] \in Instance \ {"starting"}
          /\ at'[p] \in Instance /\ \A q \in Pids \ {p} : at'[q] = at[q]
      BY <1>3 DEF Build, Listen, Interrupt, history, TypeOK, Instance
    <2> QED
      BY <2>1 DEF LoneIsKnown
  <1>4. ASSUME NEW p \in Pids, Gone(p), at[p] \in Instance PROVE LoneIsKnown'
    <2>1. \A q \in Pids : ~alone'[q]
      BY <1>4, OnlyOneAlone DEF Gone, TypeOK
    <2> QED
      BY <2>1 DEF LoneIsKnown
  <1>5. ASSUME NEW p \in Pids, PrepareFails(p) \/ BuildFails(p) \/ Leave(p) \/ Kill(p)
        PROVE  LoneIsKnown'
    BY <1>4, <1>5 DEF PrepareFails, BuildFails, Leave, Kill, Instance
  <1>6. ASSUME NEW p \in Pids, HandlerStep(p) PROVE LoneIsKnown'
    <2>1. UNCHANGED <<at, read, pidfile, alone>>
      BY <1>6 DEF HandlerStep, Load, LoadFails, SetProvider, SetUploads, SetRoot, processVars,
                  history
    <2> QED
      BY <2>1 DEF LoneIsKnown
  <1>7. ASSUME NEW p \in Pids, Recycle(p) \/ Resemble(p) PROVE LoneIsKnown'
    <2>1. /\ UNCHANGED <<read, pidfile, alone>> /\ at[p] \notin Instance
          /\ at'[p] \notin Instance /\ \A q \in Pids \ {p} : at'[q] = at[q]
      BY <1>7 DEF Recycle, Resemble, history, TypeOK, Instance
    <2> QED
      BY <2>1 DEF LoneIsKnown
  <1>8. CASE Check \/ Scan \/ Resolve \/ SendReload \/ SendIsLost \/ UNCHANGED vars
             \/ \E c \in Configs : Edit(c)
    <2>1. UNCHANGED <<at, read, pidfile, alone>>
      BY <1>8 DEF Check, Scan, Resolve, SendReload, SendIsLost, vars, Edit, processVars, history
    <2> QED
      BY <2>1 DEF LoneIsKnown
  <1>9. ASSUME NEW p \in Pids, p = tool.target, SendKills PROVE LoneIsKnown'
    <2>1. CASE at[p] \in Instance
      BY <1>4, <1>9, <2>1 DEF SendKills
    <2>2. CASE at[p] \notin Instance
      <3>1. /\ pidfile' = pidfile /\ ~alone'[p] /\ at'[p] \notin Instance
            /\ \A q \in Pids \ {p} : /\ at'[q] = at[q] /\ alone'[q] = alone[q]
                                      /\ read'[q] = read[q]
        BY <1>9, <2>2 DEF SendKills, Gone, TypeOK, Instance
      <3> QED
        BY <3>1 DEF LoneIsKnown
    <2> QED
      BY <2>1, <2>2
  <1>10. SendKills => tool.target \in Pids
    BY DEF SendKills, TargetIsPid
  <1> QED
    BY <1>1, <1>2, <1>3, <1>5, <1>6, <1>7, <1>8, <1>9, <1>10 DEF Next, MainStep, ToolStep

\* Steps of the processes: the tool forgets those that stop serving.
LEMMA ToolWaits ==
    ASSUME ToolIsRight,
           tool'.at = tool.at, tool'.found = tool.found, tool'.config = tool.config,
           tool'.alike = tool.alike,
           tool'.told = tool.told, tool'.target = tool.target, tool'.steady \subseteq tool.steady,
           \A p \in tool'.steady : /\ at'[p] = at[p] /\ read'[p] = read[p]
                                   /\ alone'[p] => alone[p]
    PROVE  ToolIsRight'
  BY DEF ToolIsRight, ToolSees

\* Every step keeps it that the tool finds the lone server.
LEMMA ToolRightStep ==
    ASSUME TypeOK, TargetIsPid, LoneIsKnown, ToolIsRight, [Next]_vars
    PROVE  ToolIsRight'
  <1>1. ASSUME NEW p \in Pids, NEW h \in BOOLEAN, Launch(p, h) PROVE ToolIsRight'
    <2>1. /\ at[p] = "free" /\ at' = [at EXCEPT ![p] = "starting"] /\ UNCHANGED <<tool, read>>
          /\ \A q \in Pids \ {p} : alone'[q] => alone[q]
      BY <1>1 DEF Launch
    <2>2. \A q \in tool.steady : q \in Pids /\ at[q] = "serving"
      BY DEF ToolIsRight, ToolSees
    <2>3. p \notin tool.steady
      BY <2>1, <2>2
    <2> QED
      BY <2>1, <2>2, <2>3, ToolWaits DEF TypeOK
  <1>2. ASSUME NEW p \in Pids, at[p] # "serving", tool' = tool,
               \A q \in Pids \ {p} : /\ at'[q] = at[q] /\ read'[q] = read[q]
                                     /\ alone'[q] => alone[q]
        PROVE  ToolIsRight'
    <2>1. p \notin tool.steady /\ \A q \in tool.steady : q \in Pids
      BY <1>2 DEF ToolIsRight, ToolSees
    <2> QED
      BY <1>2, <2>1, ToolWaits
  <1>3. ASSUME NEW p \in Pids,
               \/ Prepare(p) \/ Build(p) \/ Listen(p) \/ Recycle(p) \/ Resemble(p)
               \/ PrepareFails(p) \/ BuildFails(p) \/ Leave(p)
        PROVE  ToolIsRight'
    <2>1. /\ at[p] # "serving" /\ tool' = tool
          /\ \A q \in Pids \ {p} : /\ at'[q] = at[q] /\ read'[q] = read[q]
                                   /\ alone'[q] => alone[q]
      BY <1>3 DEF Prepare, Build, Listen, Recycle, Resemble, PrepareFails, BuildFails, Leave, Gone,
                  history, TypeOK
    <2> QED
      BY <1>2, <2>1
  <1>4. ASSUME NEW p \in Pids, Interrupt(p) \/ Kill(p) PROVE ToolIsRight'
    <2>1. tool \in Tool /\ tool' = [tool EXCEPT !.steady = @ \ {p}]
      BY <1>4 DEF Interrupt, Kill, TypeOK
    <2>2. \A q \in Pids \ {p} : /\ at'[q] = at[q] /\ read'[q] = read[q]
                                /\ alone'[q] => alone[q]
      BY <1>4 DEF Interrupt, Kill, Gone, history, TypeOK
    <2>3. \A q \in tool.steady : q \in Pids
      BY DEF ToolIsRight
    <2> QED
      BY <2>1, <2>2, <2>3, ToolWaits DEF Tool
  <1>5. ASSUME NEW p \in Pids, HandlerStep(p) PROVE ToolIsRight'
    <2>1. UNCHANGED <<at, read, alone, tool>>
      BY <1>5 DEF HandlerStep, Load, LoadFails, SetProvider, SetUploads, SetRoot, processVars,
                  history
    <2> QED
      BY <2>1, ToolWaits
  <1>6. CASE UNCHANGED vars \/ \E c \in Configs : Edit(c)
    <2>1. UNCHANGED <<at, read, alone, tool>>
      BY <1>6 DEF vars, Edit, processVars, history
    <2> QED
      BY <2>1, ToolWaits
  <1>7. CASE Check
    BY <1>7 DEF Check, ToolIsRight, ToolSees, processVars
  <1>8. CASE Scan
    <2> DEFINE seen == {p \in Pids : Shown(p)}
               others == \E p \in Pids : at[p] = "alike"
    <2>1. /\ tool \in Tool /\ tool.at = "scan"
          /\ tool' = [tool EXCEPT !.at = "read", !.found = seen, !.alike = others]
          /\ UNCHANGED <<at, read, alone>>
      BY <1>8 DEF Scan, TypeOK, processVars, history
    <2>2. \A p \in tool.steady : alone[p] /\ ~others => seen \subseteq {p}
      BY DEF ToolIsRight, LoneIsKnown, Shown
    <2>3. \A p \in tool.steady : tool.told = "nothing"
      BY <2>1 DEF ToolIsRight, ToolSees
    <2> HIDE DEF seen, others
    <2>4. /\ tool'.at = "read" /\ tool'.found = seen /\ tool'.steady = tool.steady
          /\ tool'.config = tool.config /\ tool'.told = tool.told /\ tool'.alike = others
      BY <2>1 DEF Tool
    <2> QED
      BY <2>1, <2>2, <2>3, <2>4 DEF ToolIsRight, ToolSees
  <1>9. CASE Resolve
    <2>1. tool \in Tool /\ tool.at = "read" /\ UNCHANGED <<at, read, alone>>
      BY <1>9 DEF Resolve, TypeOK, processVars, history
    <2>2. /\ tool'.at \notin {"scan", "read"}
          /\ tool'.steady = tool.steady /\ tool'.config = tool.config /\ tool'.alike = tool.alike
      BY <1>9, <2>1 DEF Resolve, Tool
    <2>3. ASSUME NEW p \in tool.steady, alone[p], read[p].pidfile = tool.config.pidfile
          PROVE  /\ tool'.told # "none"
                 /\ tool'.told = "many" => tool.alike
                 /\ tool'.at = "send" => tool'.target = p
      <3>1. p \in Pids /\ (~tool.alike => tool.found \subseteq {p})
        BY <2>1, <2>3 DEF ToolIsRight, ToolSees
      <3>2. pidfile[tool.config.pidfile] = p
        BY <2>3, <3>1 DEF ToolIsRight, ToolSees, LoneIsKnown
      <3>3. p \in Candidates /\ Candidates \subseteq Pids
        BY <2>1, <3>1, <3>2, DaemonAssumption DEF Candidates, Tool
      <3>4. CASE Cardinality(Candidates) = 1
        <4>1. IsFiniteSet(Candidates)
          BY <3>3, FS_Subset, DaemonAssumption
        <4>2. PICK q : Candidates = {q}
          BY <3>4, <4>1, FS_Singleton
        <4>3. (CHOOSE r \in Candidates : TRUE) = p
          BY <3>3, <4>2
        <4> QED
          BY <1>9, <2>1, <3>4, <4>3 DEF Resolve, Tool
      <3>5. CASE Cardinality(Candidates) # 1
        <4>1. ASSUME ~tool.alike PROVE FALSE
          <5>1. Candidates = {p}
            BY <3>1, <3>2, <4>1, DaemonAssumption DEF Candidates
          <5> QED
            BY <3>5, <5>1, FS_Singleton
        <4> QED
          BY <1>9, <2>1, <3>3, <3>5, <4>1 DEF Resolve, Tool
      <3> QED
        BY <3>4, <3>5
    <2> QED
      BY <2>1, <2>2, <2>3 DEF ToolIsRight, ToolSees
  <1>10. CASE SendReload \/ SendKills \/ SendIsLost
    <2>1. tool' = Sent /\ tool \in Tool
      BY <1>10 DEF SendReload, SendKills, SendIsLost, TypeOK
    <2>2. Sent.steady = {}
      BY <2>1 DEF Sent, Tool
    <2> QED
      BY <2>1, <2>2 DEF ToolIsRight
  <1> QED
    BY <1>1, <1>3, <1>4, <1>5, <1>6, <1>7, <1>8, <1>9, <1>10 DEF Next, MainStep, ToolStep

(***************************************************************************)
(* A server that runs alone is never missed, and no other process gets its *)
(* signal, whatever earlier instances left behind and however it was       *)
(* started; the tool gives up only when a process was running that looks   *)
(* like an instance (find_config_pids, resolve_reload_pid).                *)
(***************************************************************************)
THEOREM LoneServerIsFound == Spec => []ReloadFindsLoneServer
  <1>1. Init => LoneIsKnown /\ ToolIsRight
    BY DEF Init, LoneIsKnown, ToolIsRight
  <1>2. TypeOK /\ TargetIsPid /\ LoneIsKnown /\ ToolIsRight /\ [Next]_vars
            => (LoneIsKnown /\ ToolIsRight)'
    BY LoneStep, ToolRightStep
  <1>3. ToolIsRight => ReloadFindsLoneServer
    BY DEF ToolIsRight, ToolSees, ReloadFindsLoneServer, Sought
  <1> QED
    BY <1>1, <1>2, <1>3, Types, PTL DEF Spec
====
