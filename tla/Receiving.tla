----------------------------- MODULE Receiving -----------------------------
(***************************************************************************)
(* A receiving session: Fetch, waitForDirect and the punchWatcher of       *)
(* src/internal/p2p/node.go.                                               *)
(*                                                                         *)
(* libp2p's hole puncher works in the background once the two peers are    *)
(* connected and reports each try to the watcher, which counts only while  *)
(* waitForDirect has an entry for the peer.                                *)
(***************************************************************************)
EXTENDS Node, Codes

CONSTANTS
    HolePunchAttempts,
    Inputs          \* what a person types for a code

ASSUME ReceivingAssumption == HolePunchAttempts \in Nat \ {0}

VARIABLES
    code,           \* node -> the code Fetch was called with, <<>> before
    failures,       \* node -> tries that failed since the wait began
    watching,       \* node -> whether the watcher has an entry for the peer
    gaveUp,         \* node -> the entry's channel: "none", "open" or "closed"
    reply           \* node -> "none", or the answer to the question: "yes", "no"

punchVars == <<failures, watching, gaveUp>>
receivingVars == <<code, punchVars, reply>>

ReceivingInit ==
    /\ code = [n \in Nodes |-> <<>>]
    /\ failures = [n \in Nodes |-> 0]
    /\ watching = [n \in Nodes |-> FALSE]
    /\ gaveUp = [n \in Nodes |-> "none"]
    /\ reply = [n \in Nodes |-> "none"]

SameSession == UNCHANGED <<life, upgrade, interrupted, outcome, code, reply>>

\* Fetch checks the code and the folder again, and then the room is looked up, its
\* sender dialled and a direct route waited for: each with a status, each may fail.
FetchStarts(n) ==
    /\ \/ Moves(n, "Fetch", "called", "failing")
       \/ Moves(n, "Fetch", "called", "looking") /\ CheckCode(code[n])
       \/ Tells(n, "Fetch", "looking", "notice", "lookup")
       \/ \E to \in {"dialling", "failing"} : Moves(n, "Fetch", "lookup", to)
       \/ Tells(n, "Fetch", "dialling", "notice", "dial")
       \/ Moves(n, "Fetch", "dial", "failing")
       \/ Tells(n, "Fetch", "opening", "notice", "watch")
    /\ SameSession /\ UNCHANGED <<direct, punchVars>>

\* The first connection usually goes through the relay.
Connect(n) ==
    /\ Moves(n, "Fetch", "dial", "opening")
    /\ \E isDirect \in BOOLEAN : direct' = [direct EXCEPT ![n] = isDirect]
    /\ SameSession /\ UNCHANGED punchVars

\* punchWatcher.watch.
Watch(n) ==
    /\ Moves(n, "Fetch", "watch", "waiting")
    /\ failures' = [failures EXCEPT ![n] = 0]
    /\ watching' = [watching EXCEPT ![n] = TRUE]
    /\ gaveUp' = [gaveUp EXCEPT ![n] = "open"]
    /\ SameSession /\ UNCHANGED direct

\* Mutation: the entry stays after its channel is closed.
CountFailureTwice(n, k) ==
    IF watching[n]
    THEN /\ failures' = [failures EXCEPT ![n] = @ + k]
         /\ gaveUp' = [gaveUp EXCEPT
                ![n] = IF failures'[n] >= HolePunchAttempts THEN "closed" ELSE @]
         /\ UNCHANGED watching
    ELSE UNCHANGED punchVars

\* Mutation: one failure more than the tries there are before it gives up.
CountFailureLate(n, k) ==
    IF watching[n]
    THEN /\ failures' = [failures EXCEPT ![n] = @ + k]
         /\ IF failures'[n] > HolePunchAttempts
            THEN /\ watching' = [watching EXCEPT ![n] = FALSE]
                 /\ gaveUp' = [gaveUp EXCEPT ![n] = "closed"]
            ELSE UNCHANGED <<watching, gaveUp>>
    ELSE UNCHANGED punchVars

\* punchWatcher.countFailure.
CountFailure(n, k) ==
    IF watching[n]
    THEN /\ failures' = [failures EXCEPT ![n] = @ + k]
         /\ IF failures'[n] >= HolePunchAttempts
            THEN /\ watching' = [watching EXCEPT ![n] = FALSE]
                 /\ gaveUp' = [gaveUp EXCEPT ![n] = "closed"]
            ELSE UNCHANGED <<watching, gaveUp>>
    ELSE UNCHANGED punchVars

\* punchWatcher.Trace: a try that failed, or a peer that cannot coordinate one.  It
\* reports whenever it likes; with no entry that changes nothing.
Trace(n) ==
    /\ at[n]["Fetch"] = "waiting"
    /\ \E k \in {1, HolePunchAttempts} : CountFailure(n, k)
    /\ UNCHANGED <<nodeVars, code, reply>>

\* punchWatcher.forget, and the channel, which only the wait had.
Forget(n) ==
    /\ watching' = [watching EXCEPT ![n] = FALSE]
    /\ failures' = [failures EXCEPT ![n] = 0]
    /\ gaveUp' = [gaveUp EXCEPT ![n] = "none"]

EndWait(n, to) ==
    /\ Moves(n, "Fetch", "waiting", to)
    /\ Forget(n)
    /\ SameSession /\ UNCHANGED direct

\* waitForDirect, apart from its deadline: a direct connection is there when it
\* looks; the watcher gave up; or the node or its user has gone.
WaitForDirect(n) ==
    \/ direct[n] /\ EndWait(n, "connectedDirect")
    \/ gaveUp[n] = "closed" /\ ~direct[n] /\ EndWait(n, "connectedRelayed")
    \/ (interrupted \/ life[n] = "closed") /\ EndWait(n, "connectedRelayed")

WaitTimesOut(n) == ~direct[n] /\ EndWait(n, "connectedRelayed")

\* Fetch says how the two are connected and opens the stream; while the sender
\* still reads its files, Receive reports that.
OpenStream(n) ==
    /\ \/ /\ Tells(n, "Fetch", "connectedDirect", "direct", "opened")
          /\ UNCHANGED upgrade
       \/ /\ Tells(n, "Fetch", "connectedRelayed", "relayed", "opened")
          /\ WatchUnlessDirect(n, "Fetch", FALSE)
       \/ /\ \/ Tells(n, "Fetch", "opened", "notice", "opened")
             \/ \E to \in {"asking", "failing"} : Moves(n, "Fetch", "opened", to)
          /\ UNCHANGED upgrade
    /\ UNCHANGED <<life, direct, interrupted, outcome, receivingVars>>

\* confirm: the question is put, and its answer waited for.
Confirm(n) ==
    /\ \/ Tells(n, "Fetch", "asking", "manifest", "asked")
       \/ reply[n] = "yes" /\ Moves(n, "Fetch", "asked", "receiving")
       \/ (reply[n] = "no" \/ interrupted) /\ Moves(n, "Fetch", "asked", "failing")
    /\ SameSession /\ UNCHANGED <<direct, punchVars>>

\* Receive: leftovers are read, chunks arrive, and the files are saved or not.
Receive(n) ==
    /\ \/ Tells(n, "Fetch", "receiving", "preparing", "receiving")
       \/ \E to \in {"received", "failing"} : Moves(n, "Fetch", "receiving", to)
    /\ SameSession /\ UNCHANGED <<direct, punchVars>>

ReceiveProgress(n) ==
    /\ at[n]["Fetch"] = "receiving"
    /\ EmitProgress(n)
    /\ SameSession /\ UNCHANGED <<at, direct, punchVars>>

FetchEnds(n) ==
    /\ \/ Tells(n, "Fetch", "received", "saved", "saved")
       \/ Tells(n, "Fetch", "failing", "failed", "failed")
    /\ SameSession /\ UNCHANGED <<direct, punchVars>>

FetchStep(n) ==
    \/ FetchStarts(n) \/ Connect(n) \/ Watch(n) \/ WaitForDirect(n)
    \/ OpenStream(n) \/ Confirm(n) \/ Receive(n) \/ FetchEnds(n)

ReceivingStep(n) ==
    \/ FetchStep(n) \/ WaitTimesOut(n) \/ Trace(n) \/ ReceiveProgress(n)

=============================================================================
