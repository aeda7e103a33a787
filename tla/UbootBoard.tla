---- MODULE UbootBoard ----
(***************************************************************************)
(* The other side: a board whose U-Boot sources the scripts it is served.  *)
(* Its behaviour is fixed by the commands _continue_command and            *)
(* _append_receive write into every script, and is the one the simulated   *)
(* client of test_client.py follows.  U-Boot itself is external.           *)
(***************************************************************************)
EXTENDS TftpDialogue

VARIABLE board   \* [Clients -> what the board is doing]

Modes == {"off", "waiting", "running", "putting", "done", "stopped"}

(***************************************************************************)
(* token and kind are those of the script it sourced last; attempt counts  *)
(* the tries of its tftpput, acked says the server acknowledged the last   *)
(* block of this try.  "done": the script had no continuation; "stopped":  *)
(* its RRQ failed and the script said so.                                  *)
(***************************************************************************)
BoardState ==
    [mode: Modes,
     boot: 0 .. MaxBoots,
     token: Tokens \cup {NoToken},
     kind: {"none", "probe", "exec", "recv"},
     attempt: 0 .. MaxPuts,
     acked: BOOLEAN]

BoardTypeOK == board \in [Clients -> BoardState]

BoardInit ==
    board = [c \in Clients |->
        [mode |-> "off", boot |-> 0, token |-> NoToken, kind |-> "none",
         attempt |-> 0, acked |-> FALSE]]

\* The WRQ of the current try.
PutOf(c) == [client |-> c, token |-> board[c].token, attempt |-> board[c].attempt]

\* The board sends the RRQ that ends its script, with what the script reports.
Ask(c, report) ==
    /\ board' = [board EXCEPT ![c].mode = "waiting"]
    /\ Open(c, [client |-> c, boot |-> board[c].boot, token |-> board[c].token,
                report |-> report])

\* Power on, at any moment: the boot command sends the initial RRQ.
Boot(c) ==
    /\ board[c].boot < MaxBoots
    /\ board' = [board EXCEPT ![c] =
           [mode |-> "waiting", boot |-> @.boot + 1, token |-> NoToken,
            kind |-> "none", attempt |-> 0, acked |-> FALSE]]
    /\ Open(c, [client |-> c, boot |-> board[c].boot + 1, token |-> NoToken,
                report |-> "start"])

\* The answer to its RRQ arrives: a script to source, or an error.
Receive(c, script) ==
    /\ board[c].mode = "waiting"
    /\ board' = [board EXCEPT ![c] =
           CASE script.kind = "miss" -> [@ EXCEPT !.mode = "stopped"]
             [] script.kind = "final" -> [@ EXCEPT !.mode = "done"]
             [] OTHER -> [@ EXCEPT !.mode = "running",
                                   !.token = script.token,
                                   !.kind = script.kind,
                                   !.attempt = 0,
                                   !.acked = FALSE]]
    /\ Close(c)

\* No answer is on its way: the RRQ or everything sent back was lost, or the
\* server handled it without answering.
Unanswered(c) == Lossy \/ (asking[c] \cap wire = {} /\ answers[c] = {})

\* tftpboot gives up: "uboot-tftp: continuation RRQ failed".
TimeOut(c) ==
    /\ board[c].mode = "waiting"
    /\ Unanswered(c)
    /\ board' = [board EXCEPT ![c].mode = "stopped"]
    /\ Close(c)

\* The script ran to its last command, the continuation RRQ.
Continue(c) ==
    /\ board[c].mode = "running"
    /\ \/ board[c].kind = "probe" /\ \E report \in {"hush", "nohush"} : Ask(c, report)
       \/ board[c].kind = "exec" /\ Ask(c, "plain")

\* A receive script starts its tftpput, or restarts it after a timeout.
StartPut(c) ==
    /\ \/ board[c].mode = "running" /\ board[c].kind = "recv"
       \/ board[c].mode = "putting" /\ Lossy
    /\ board[c].attempt < MaxPuts
    /\ board' = [board EXCEPT ![c] =
           [@ EXCEPT !.mode = "putting", !.attempt = board[c].attempt + 1, !.acked = FALSE]]
    /\ puts' = puts \cup {[PutOf(c) EXCEPT !.attempt = @ + 1]}
    /\ UNCHANGED <<wire, asking, answers>>

\* The acknowledgement of the last block reaches the board, or is lost later on.
Acknowledge(c) == board' = [board EXCEPT ![c].acked = TRUE]

\* The upload was acknowledged: the then-branch of the receive.
PutSucceeds(c) ==
    /\ board[c].mode = "putting"
    /\ board[c].acked
    /\ Ask(c, "ok")

\* The upload was not acknowledged, or a required command is missing: the
\* else-branch.  underWay says that the server still serves the upload.
PutFails(c, underWay) ==
    /\ \/ board[c].mode = "running" /\ board[c].kind = "recv"
       \/ board[c].mode = "putting" /\ (Lossy \/ ~(underWay \/ board[c].acked \/ PutOf(c) \in puts))
    /\ Ask(c, "failed")
====
