---- MODULE TftpDialogue ----
(***************************************************************************)
(* What a U-Boot board and the server say to each other: read requests     *)
(* (RRQ) that start or continue a session, the scripts served in return,   *)
(* and the uploads (WRQ) a script makes on the way.  A token is the value  *)
(* scripted.py draws with secrets.token_urlsafe: here the next unused      *)
(* number, because two draws never collide.                                *)
(***************************************************************************)
EXTENDS Naturals

CONSTANTS
    Clients,     \* client ids: the <ident> of id=<ident>, already lower-cased
    Artifacts,   \* keys of the downloads a handler may acquire
    MaxToken,    \* bound: tokens drawn in a behaviour
    MaxBoots,    \* bound: power cycles of a board
    MaxPuts,     \* bound: attempts of one tftpput by the board
    Duplicates,  \* the link may deliver a packet again, however late
    Lossy        \* the link may lose a packet, so a board may time out

ASSUME BoundsAssumption ==
    /\ MaxToken \in Nat \ {0}
    /\ MaxBoots \in Nat \ {0}
    /\ MaxPuts \in Nat \ {0}
    /\ Duplicates \in BOOLEAN
    /\ Lossy \in BOOLEAN

Tokens == 1 .. MaxToken

\* The token of an initial RRQ and of a script that is not continued.
NoToken == 0

(***************************************************************************)
(* An RRQ.  boot is the UDP endpoint of the transfer: a board that is      *)
(* power cycled uses another one.  report is what the path carries back:   *)
(* nothing on the initial RRQ, the result of the shell probe, nothing of   *)
(* interest after exec, and recv=ok or recv=failed after exec_recv.        *)
(***************************************************************************)
Reports == {"start", "hush", "nohush", "plain", "ok", "failed"}

Request ==
    [client: Clients, boot: 1 .. MaxBoots, token: Tokens \cup {NoToken}, report: Reports]

\* One transfer of a tftpput: attempt tells a restarted upload from its first try.
Put == [client: Clients, token: Tokens, attempt: 1 .. MaxPuts]

\* The scripts the server compiles; "miss" is the TFTP error "file not found".
Script ==
    [kind: {"probe", "exec", "recv", "final", "miss"}, token: Tokens \cup {NoToken}]

\* The bytes of one upload: those of the tftpput of one token, whole or cut short.
Body == [token: Tokens, whole: BOOLEAN]

VARIABLES
    wire,     \* RRQs sent
    puts,     \* WRQs sent
    asking,   \* [Clients -> the RRQ whose transfer the board has open, or {}]
    answers   \* [Clients -> scripts and errors under way to that transfer]

link == <<wire, puts, asking, answers>>

LinkTypeOK ==
    /\ wire \subseteq Request
    /\ puts \subseteq Put
    /\ asking \in [Clients -> SUBSET Request]
    /\ answers \in [Clients -> SUBSET Script]

LinkInit ==
    /\ wire = {}
    /\ puts = {}
    /\ asking = [c \in Clients |-> {}]
    /\ answers = [c \in Clients |-> {}]

\* A packet that has been handled is gone, unless the link may repeat it.
Without(packets, p) == IF Duplicates THEN packets ELSE packets \ {p}

\* The server answers the RRQ r with a script.  A board that has closed the transfer,
\* or is at another one by now, never sees it: each transfer has its own UDP port.
Answer(r, script) ==
    /\ wire' = Without(wire, r)
    /\ answers' = [answers EXCEPT ![r.client] = IF r \in asking[r.client] THEN @ \cup {script} ELSE @]
    /\ UNCHANGED <<puts, asking>>

\* The server handles r without an answer.
NoAnswer(r) ==
    /\ wire' = Without(wire, r)
    /\ UNCHANGED <<puts, asking, answers>>

\* The board of client c opens a transfer for the RRQ r, and closes the one it had.
Open(c, r) ==
    /\ wire' = wire \cup {r}
    /\ asking' = [asking EXCEPT ![c] = {r}]
    /\ answers' = [answers EXCEPT ![c] = {}]
    /\ UNCHANGED puts

Close(c) ==
    /\ asking' = [asking EXCEPT ![c] = {}]
    /\ answers' = [answers EXCEPT ![c] = {}]
    /\ UNCHANGED <<wire, puts>>
====
