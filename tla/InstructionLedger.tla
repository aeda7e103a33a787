---- MODULE InstructionLedger ----
(***************************************************************************)
(* What the session layer promises the author of a handler, whatever the   *)
(* link and the boards do: an instruction is handed out once, to one       *)
(* board; it is answered at most once, and only while it is the latest one *)
(* of its board; the handler goes on to its next instruction exactly when  *)
(* the last one is answered; the bytes exec_recv returns are those of its  *)
(* own upload.  An instruction whose answer sends the handler astray, to   *)
(* await something that is no instruction, stays loose: until it is        *)
(* followed by another, each further answer sends the handler on.          *)
(***************************************************************************)
EXTENDS Naturals

CONSTANTS Instructions, Boards, Nobody

VARIABLES
    state,    \* [Instructions -> "unused", "open", "loose", "answered", "dropped"]
    holder,   \* [Instructions -> the board it was handed to]
    kind,     \* [Instructions -> "nothing", "probe", "exec", "recv"]
    result    \* [Instructions -> {} or the instructions whose upload it returned]

vars == <<state, holder, kind, result>>

Init ==
    /\ state = [i \in Instructions |-> "unused"]
    /\ holder = [i \in Instructions |-> Nobody]
    /\ kind = [i \in Instructions |-> "nothing"]
    /\ result = [i \in Instructions |-> {}]

\* The instructions of b the handler still waits at.
OpenOf(b) == {i \in Instructions : state[i] \in {"open", "loose"} /\ holder[i] = b}

\* The instructions in drop are given up, those in answered answered and those in n
\* handed out to b.
Move(drop, answered, n, b) ==
    /\ n \subseteq {i \in Instructions : state[i] = "unused"}
    /\ state' = [i \in Instructions |->
           IF i \in n THEN "open" ELSE IF i \in answered THEN "answered"
           ELSE IF i \in drop THEN IF state[i] = "open" THEN "dropped" ELSE "answered"
           ELSE state[i]]
    /\ holder' = [i \in Instructions |-> IF i \in n THEN b ELSE holder[i]]

\* A board starts over: what was open for it is dropped, a probe is handed out.
Begin(b, n) ==
    /\ Move(OpenOf(b), {}, {n}, b)
    /\ kind' = [kind EXCEPT ![n] = "probe"]
    /\ UNCHANGED result

\* Only an exec_recv returns bytes, and only its own.
Returns(i) ==
    /\ result' \in {result, [result EXCEPT ![i] = {i}]}
    /\ kind[i] # "recv" => UNCHANGED result

\* The open instruction i is answered and the handler goes on to n.
AnswerAndIssue(b, i, n) ==
    /\ i \in OpenOf(b)
    /\ Move({}, {i}, {n}, b)
    /\ kind' \in {[kind EXCEPT ![n] = "exec"], [kind EXCEPT ![n] = "recv"]}
    /\ Returns(i)

\* The open instruction i is answered and the handler is over.
AnswerAndClose(b, i) ==
    /\ i \in OpenOf(b)
    /\ Move({}, {i}, {}, b)
    /\ Returns(i)
    /\ UNCHANGED kind

\* The open instruction i is answered and the handler awaits no instruction.
AnswerAstray(b, i) ==
    /\ i \in OpenOf(b)
    /\ state' = [state EXCEPT ![i] = "loose"]
    /\ Returns(i)
    /\ UNCHANGED <<holder, kind>>

\* One session, or with the server every session, is given up.
Abandon(drop) ==
    /\ drop \subseteq {i \in Instructions : state[i] \in {"open", "loose"}}
    /\ Move(drop, {}, {}, Nobody)
    /\ UNCHANGED <<kind, result>>

Next ==
    \/ \E drop \in SUBSET Instructions : Abandon(drop)
    \/ \E b \in Boards, n \in Instructions : Begin(b, n)
    \/ \E b \in Boards, i \in Instructions, n \in Instructions : AnswerAndIssue(b, i, n)
    \/ \E b \in Boards, i \in Instructions : AnswerAndClose(b, i)
    \/ \E b \in Boards, i \in Instructions : AnswerAstray(b, i)

Spec == Init /\ [][Next]_vars
====
