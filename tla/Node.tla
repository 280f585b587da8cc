-------------------------------- MODULE Node --------------------------------
(***************************************************************************)
(* A node as its consumer sees it: the channel of events between the       *)
(* goroutines of Host or Fetch and whoever reads them, of                  *)
(* src/internal/p2p/node.go.                                               *)
(*                                                                         *)
(* at says where each goroutine of a node is.  Serves are the streams a    *)
(* sender serves, upgrade says where the watchDirectUpgrade of a stream or *)
(* of Fetch is.  Hosting and Receiving have the goroutines themselves.     *)
(***************************************************************************)
EXTENDS Integers, Sequences, SequencesExt, FiniteSets

CONSTANTS
    Nodes,          \* the nodes one run of the program may start, 1, 2, ...
    Serves,
    Capacity        \* of the channel

Goroutines == {"Host", "watchOffer", "keepRoom", "Fetch"} \cup Serves

\* Streams that may start out through the relay.
Streams == Serves \cup {"Fetch"}

NoNode == 0

ASSUME NodeAssumption ==
    /\ Nodes \subseteq Nat \ {NoNode} /\ Nodes # {}
    /\ Serves \cap {"Host", "watchOffer", "keepRoom", "Fetch"} = {}
    /\ Capacity \in Nat \ {0}

\* StatusEvent, PreparedEvent, RemotePreparingEvent, RejectedEvent, ServerLostEvent
\* and ServerBackEvent all only leave a note: "notice".  A ConnectedEvent is
\* "direct" or "relayed", a DoneEvent "saved" or "failed".
Events == {"notice", "preparing", "direct", "relayed", "manifest", "progress",
           "saved", "failed", "roomLost"}

VARIABLES
    life,           \* node -> "none", "open" or "closed"
    events,         \* node -> what its channel holds
    at,             \* node -> goroutine -> where it is
    direct,         \* node -> whether a connection to the peer bypasses the relay
    upgrade,        \* node -> stream -> its watchDirectUpgrade
    interrupted,    \* whether the context of the program's transfer is cancelled
    outcome         \* of the program: "running", "ok", "error" or "crashed"

nodeVars == <<life, events, at, direct, upgrade, interrupted, outcome>>

NodeInit ==
    /\ life = [n \in Nodes |-> "none"]
    /\ events = [n \in Nodes |-> <<>>]
    /\ at = [n \in Nodes |-> [g \in Goroutines |-> "off"]]
    /\ direct = [n \in Nodes |-> FALSE]
    /\ upgrade = [n \in Nodes |-> [s \in Streams |-> "off"]]
    /\ interrupted = FALSE
    /\ outcome = "running"

Goto(n, g, l) == at' = [at EXCEPT ![n][g] = l]

\* New, once a meeting point answers.
Start(n) == life' = [life EXCEPT ![n] = "open"]

Close(n) == life' = [life EXCEPT ![n] = "closed"]

Put(n, e) ==
    /\ Len(events[n]) < Capacity
    /\ events' = [events EXCEPT ![n] = Append(@, e)]

\* Mutation: emit waits for a reader even if the node is closed.
EmitForever(n, e) == Put(n, e)

\* emit: an event waits for its place in the channel, and no longer than the node
\* lives.
Emit(n, e) ==
    \/ Put(n, e)
    \/ life[n] = "closed" /\ UNCHANGED events

\* emit, for progress: dropped when the channel is full.
EmitProgress(n) == Put(n, "progress")

\* g is at from: it emits e and goes on to to.
Tells(n, g, from, e, to) ==
    /\ at[n][g] = from
    /\ Emit(n, e)
    /\ Goto(n, g, to)

\* g is at from and goes on to to.
Moves(n, g, from, to) ==
    /\ at[n][g] = from
    /\ Goto(n, g, to)
    /\ UNCHANGED events

\* serve and Fetch start watchDirectUpgrade for a stream that is not direct.
WatchUnlessDirect(n, s, isDirect) ==
    upgrade' = [upgrade EXCEPT ![n][s] = IF isDirect THEN @ ELSE "polling"]

\* The transfer's context ends with serve; Fetch hands on the program's.
UpgradeIsOver(n, s) ==
    \/ life[n] = "closed"
    \/ IF s \in Serves THEN at[n][s] = "off" ELSE interrupted

\* Mutation: the watcher ends without a word.
UpgradeSilently(n, s) ==
    \/ /\ upgrade[n][s] = "polling"
       /\ direct[n] \/ UpgradeIsOver(n, s)
       /\ upgrade' = [upgrade EXCEPT ![n][s] = "off"]
       /\ UNCHANGED <<life, events, at, direct, interrupted, outcome>>

\* watchDirectUpgrade: a tick that finds a direct connection is reported; a tick
\* and the end of the transfer may be ready at once.
WatchUpgrade(n, s) ==
    /\ UNCHANGED <<life, at, direct, interrupted, outcome>>
    /\ \/ /\ upgrade[n][s] = "polling" /\ direct[n]
          /\ upgrade' = [upgrade EXCEPT ![n][s] = "found"]
          /\ UNCHANGED events
       \/ /\ upgrade[n][s] = "found"
          /\ Emit(n, "direct")
          /\ upgrade' = [upgrade EXCEPT ![n][s] = "off"]
       \/ /\ upgrade[n][s] = "polling" /\ UpgradeIsOver(n, s)
          /\ upgrade' = [upgrade EXCEPT ![n][s] = "off"]
          /\ UNCHANGED events

\* The hole puncher gets through: the peers now have a direct connection.
PunchesThrough(n) ==
    /\ ~direct[n]
    /\ at[n]["Fetch"] = "waiting" \/ \E s \in Streams : upgrade[n][s] = "polling"
    /\ direct' = [direct EXCEPT ![n] = TRUE]
    /\ UNCHANGED <<life, events, at, upgrade, interrupted, outcome>>

=============================================================================
