---- MODULE MCCommandGuards ----
(***************************************************************************)
(* CommandGuards for TLC: a few commands; every list of required commands, *)
(* alone, after queued commands, before one snippet, and a snippet that is *)
(* given an empty list.                                                    *)
(***************************************************************************)
EXTENDS CommandGuards

CONSTANTS Queued, Snippet   \* the lists queued lines require, and what a snippet does

Few == {S \in SUBSET Cmds : Cardinality(S) <= MaxNeeds}

Request(queued, own, snippet) == [queued |-> queued, own |-> own, snippet |-> snippet]

MCRequests ==
    {Request({}, S, {}) : S \in Few}
        \cup {Request(Q, S, {}) :
                   Q \in Queued, S \in {T \in Few : Cardinality(T) < MaxNeeds}}
        \cup {Request({}, S, {Snippet}) : S \in {T \in Few : Cardinality(T) < MaxNeeds}}
====
