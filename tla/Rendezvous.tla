----------------------------- MODULE Rendezvous -----------------------------
(***************************************************************************)
(* The meeting point: src/internal/rendezvous/rendezvous.go.               *)
(*                                                                         *)
(* A Registry holds one room per nameplate.  Its handler, its connection   *)
(* notifications and the relay's questions all take the same lock, so each *)
(* is one atomic action here; what interleaves is the order in which they  *)
(* get the lock.  A request that was read from its stream waits in inbox   *)
(* until its handler gets the lock, and a connection's end reaches the     *)
(* registry in two steps, a check without the lock and then the mark.      *)
(*                                                                         *)
(* The clock is a natural number.  Zero is Go's zero time: an ownerGone of *)
(* zero is an owner who is connected.                                      *)
(***************************************************************************)
EXTENDS Integers, FiniteSets, Sequences

CONSTANTS
    Peers,              \* libp2p identities that talk to the server
    Nameplates,         \* the numbers a room can be found by
    Ranges,             \* sequence of [lo, hi]: the ranges freeNameplate tries
    NameplateSparsity,
    MaxRoomsPerPeer,
    MaxRooms,           \* 0 is unlimited
    RoomTTL,
    OwnerGrace,
    LookupWindow,
    MaxLookups,
    MaxGlobalMisses,
    Kinds,              \* the request types the peers send
    NoRoom,
    \* Bounds of the model.
    LinksPerPeer,       \* connections one peer may have at once
    MaxInFlight,        \* requests read and not yet handled
    MaxOpened,          \* rooms opened since the server started
    MaxTime

\* The clock starts later than one window after the zero time, as any real
\* clock does.
StartTime == LookupWindow + 1

ASSUME LimitsAssumption ==
    /\ MaxRoomsPerPeer \in Nat \ {0}
    /\ MaxRooms \in Nat
    /\ RoomTTL \in Nat /\ OwnerGrace \in Nat /\ LookupWindow \in Nat
    /\ MaxLookups \in Nat \ {0}
    /\ MaxGlobalMisses \in Nat
    /\ NameplateSparsity \in Nat \ {0}

ASSUME BoundsAssumption ==
    /\ LinksPerPeer \in Nat \ {0}
    /\ MaxInFlight \in Nat /\ MaxOpened \in Nat /\ MaxTime \in Nat

ASSUME NameplatesAssumption ==
    /\ Nameplates \subseteq Nat \ {0}
    /\ IsFiniteSet(Nameplates)
    /\ Ranges \in Seq([lo : Nat, hi : Nat])
    /\ \A i \in DOMAIN Ranges : Ranges[i].lo .. Ranges[i].hi \subseteq Nameplates

ASSUME KindsAssumption == Kinds \subseteq {"register", "unregister", "lookup"}

\* What a request may carry instead of a nameplate: nothing, or something that
\* does not pass the first checks, a nameplate without a nameplate's shape or,
\* in a register, no valid address or too many.
Unnamed == 0
Malformed == -1

Room == [owner : Peers, createdAt : Nat, ownerGone : Nat]

ASSUME NoRoomAssumption == NoRoom \notin Room

Table == [Nameplates -> Room \cup {NoRoom}]

Counters == [registered : Nat, unregistered : Nat, expired : Nat,
             abandoned : Nat, evicted : Nat]

Links == Peers \X (1 .. LinksPerPeer)

Request == [from : Peers, type : Kinds,
            nameplate : Nameplates \cup {Unnamed, Malformed}]

Window == [count : Nat, start : Nat]

VARIABLES
    now,
    rooms,       \* nameplate -> Room or NoRoom
    lookups,     \* peer -> window of its answered lookups
    globalMiss,  \* window of the lookups that found nothing
    stats,       \* the counters of rooms, by how they came and went
    conn,        \* link -> where its connection is between its two notifications
    inbox,       \* requests read from their streams and not handled yet
    reply        \* what this step answered, and to whom

registry == <<rooms, lookups, globalMiss, stats>>
vars == <<now, rooms, lookups, globalMiss, stats, conn, inbox, reply>>

NoReply == [to |-> "nobody", type |-> "none", nameplate |-> Unnamed]

EmptyWindow == [count |-> 0, start |-> 0]

EmptyStats == [registered |-> 0, unregistered |-> 0, expired |-> 0,
               abandoned |-> 0, evicted |-> 0]

-----------------------------------------------------------------------------
(* Operators on a room table t.                                            *)

Taken(t) == {n \in Nameplates : t[n] # NoRoom}

OwnedBy(t, p) == {n \in Taken(t) : t[n].owner = p}

RoomsOf(t, p) == Cardinality(OwnedBy(t, p))

\* Rooms whose owner has been seen to leave.
OwnerIsGone(t) == {n \in Taken(t) : t[n].ownerGone # 0}

\* Mutation: the zero of an owner who is connected counts as the earliest time.
LongestGoneOfAll(t) ==
    {n \in Taken(t) : \A m \in Taken(t) : t[n].ownerGone <= t[m].ownerGone}

\* Those whose owner left first; evictAbandoned drops one of them.
LongestGone(t) ==
    {n \in OwnerIsGone(t) :
        \A m \in OwnerIsGone(t) : t[n].ownerGone <= t[m].ownerGone}

Without(t, S) == [n \in Nameplates |-> IF n \in S THEN NoRoom ELSE t[n]]

\* Whether one more room leaves range i sparse.
StaysSparse(t, i) ==
    LET range == Ranges[i].lo .. Ranges[i].hi
    IN  (Cardinality(range \cap Taken(t)) + 1) * NameplateSparsity
            <= Ranges[i].hi - Ranges[i].lo + 1

\* The numbers freeNameplate may pick: the free ones of the shortest range
\* that stays sparse, or any free one when none does.
FreeNameplates(t) ==
    LET shortest == {i \in DOMAIN Ranges :
                        /\ StaysSparse(t, i)
                        /\ \A k \in 1 .. i - 1 : ~StaysSparse(t, k)}
    IN  {n \in Nameplates \ Taken(t) :
            \/ shortest = {}
            \/ \E i \in shortest : n \in Ranges[i].lo .. Ranges[i].hi}

CurrentWindow(w) ==
    IF now - w.start > LookupWindow THEN [count |-> 0, start |-> now] ELSE w

-----------------------------------------------------------------------------
(* dropExpired runs at the head of every request and of every question.    *)

Expired == {n \in Taken(rooms) : now - rooms[n].createdAt > RoomTTL}

\* Mutation: a room that has expired is counted as abandoned as well.
AbandonedToo ==
    {n \in OwnerIsGone(rooms) : now - rooms[n].ownerGone > OwnerGrace}

Abandoned ==
    {n \in OwnerIsGone(rooms) \ Expired : now - rooms[n].ownerGone > OwnerGrace}

SweptRooms == Without(rooms, Expired \cup Abandoned)

\* Mutation: the sweep drops the counters that are still running.
SweptLookupsInverted ==
    [p \in Peers |-> IF now - lookups[p].start <= LookupWindow
                     THEN EmptyWindow ELSE lookups[p]]

SweptLookups ==
    [p \in Peers |-> IF now - lookups[p].start > LookupWindow
                     THEN EmptyWindow ELSE lookups[p]]

SweptStats ==
    [stats EXCEPT !.expired = @ + Cardinality(Expired),
                  !.abandoned = @ + Cardinality(Abandoned)]

-----------------------------------------------------------------------------
(* Requests.                                                               *)

\* The request leaves the inbox and its sender is answered.
Answer(r, type, n) ==
    /\ inbox' = inbox \ {r}
    /\ reply' = [to |-> r.from, type |-> type, nameplate |-> n]
    /\ UNCHANGED <<now, conn>>

\* Mutation: the table may hold one room more than its limit.
VerdictOneMore(t, r) ==
    IF r.nameplate = Malformed THEN "malformed"
    ELSE IF r.nameplate \in Taken(t)
         THEN IF t[r.nameplate].owner = r.from THEN "refresh" ELSE "in_use"
    ELSE IF RoomsOf(t, r.from) >= MaxRoomsPerPeer THEN "too_many"
    ELSE IF MaxRooms = 0 \/ Cardinality(Taken(t)) <= MaxRooms THEN "open"
    ELSE IF OwnerIsGone(t) # {} THEN "evict" ELSE "full"

\* What register decides about r, with the swept table t.
Verdict(t, r) ==
    IF r.nameplate = Malformed THEN "malformed"
    ELSE IF r.nameplate \in Taken(t)
         THEN IF t[r.nameplate].owner = r.from THEN "refresh" ELSE "in_use"
    ELSE IF RoomsOf(t, r.from) >= MaxRoomsPerPeer THEN "too_many"
    ELSE IF MaxRooms = 0 \/ Cardinality(Taken(t)) < MaxRooms THEN "open"
    ELSE IF OwnerIsGone(t) # {} THEN "evict" ELSE "full"

RejectRegister(r) ==
    LET verdict == Verdict(SweptRooms, r) IN
    /\ r.type = "register"
    /\ verdict \in {"malformed", "in_use", "too_many", "full"}
    /\ rooms' = SweptRooms
    /\ stats' = SweptStats
    /\ lookups' = SweptLookups
    /\ Answer(r, verdict, r.nameplate)
    /\ UNCHANGED globalMiss

\* Mutation: a refresh starts the hour again.
RefreshClock(r) ==
    /\ r.type = "register"
    /\ Verdict(SweptRooms, r) = "refresh"
    /\ rooms' = [SweptRooms EXCEPT ![r.nameplate].ownerGone = 0,
                                   ![r.nameplate].createdAt = now]
    /\ stats' = SweptStats
    /\ lookups' = SweptLookups
    /\ Answer(r, "ok", r.nameplate)
    /\ UNCHANGED globalMiss

\* New addresses, the original clock, and an owner taken to be connected.
Refresh(r) ==
    /\ r.type = "register"
    /\ Verdict(SweptRooms, r) = "refresh"
    /\ rooms' = [SweptRooms EXCEPT ![r.nameplate].ownerGone = 0]
    /\ stats' = SweptStats
    /\ lookups' = SweptLookups
    /\ Answer(r, "ok", r.nameplate)
    /\ UNCHANGED globalMiss

\* A new room in table t: under the nameplate asked for, or a free one.
OpenIn(t, s, r) ==
    \E n \in IF r.nameplate = Unnamed THEN FreeNameplates(t) ELSE {r.nameplate} :
        /\ stats.registered < MaxOpened
        /\ rooms' = [t EXCEPT ![n] = [owner |-> r.from, createdAt |-> now,
                                      ownerGone |-> 0]]
        /\ stats' = [s EXCEPT !.registered = @ + 1]
        /\ lookups' = SweptLookups
        /\ Answer(r, "ok", n)
        /\ UNCHANGED globalMiss

OpenRoom(r) ==
    /\ r.type = "register"
    /\ Verdict(SweptRooms, r) = "open"
    /\ OpenIn(SweptRooms, SweptStats, r)

\* A full table makes space by dropping the room whose owner left first.
EvictAndOpen(r) ==
    /\ r.type = "register"
    /\ Verdict(SweptRooms, r) = "evict"
    /\ \E oldest \in LongestGone(SweptRooms) :
          OpenIn(Without(SweptRooms, {oldest}),
                 [SweptStats EXCEPT !.evicted = @ + 1], r)

Unregister(r) ==
    LET own == OwnedBy(SweptRooms, r.from) \cap {r.nameplate} IN
    /\ r.type = "unregister"
    /\ rooms' = Without(SweptRooms, own)
    /\ stats' = [SweptStats EXCEPT !.unregistered = @ + Cardinality(own)]
    /\ lookups' = SweptLookups
    /\ Answer(r, "ok", r.nameplate)
    /\ UNCHANGED globalMiss

\* A nameplate of the wrong shape is refused before anything is counted.
MalformedLookup(r) ==
    /\ r.type = "lookup"
    /\ r.nameplate \notin Nameplates
    /\ rooms' = SweptRooms
    /\ stats' = SweptStats
    /\ lookups' = SweptLookups
    /\ Answer(r, "malformed", r.nameplate)
    /\ UNCHANGED globalMiss

\* Mutation: under pressure nobody is answered.
ThrottledAll(p) ==
    LET count == CurrentWindow(SweptLookups[p]).count
        underPressure == CurrentWindow(globalMiss).count >= MaxGlobalMisses
    IN  count >= MaxLookups \/ underPressure

\* Too many lookups by this peer, or one already while the server is under
\* pressure.
Throttled(p) ==
    LET count == CurrentWindow(SweptLookups[p]).count
        underPressure == CurrentWindow(globalMiss).count >= MaxGlobalMisses
    IN  count >= MaxLookups \/ (underPressure /\ count > 0)

ThrottleLookup(r) ==
    /\ r.type = "lookup"
    /\ r.nameplate \in Nameplates
    /\ Throttled(r.from)
    /\ rooms' = SweptRooms
    /\ stats' = SweptStats
    /\ lookups' = SweptLookups
    /\ globalMiss' = CurrentWindow(globalMiss)
    /\ Answer(r, "throttled", r.nameplate)

\* Mutation: the room is taken from the table as it was before the sweep.
LookupAnswerUnswept(n) ==
    IF rooms[n] = NoRoom THEN "not_found"
    ELSE IF rooms[n].ownerGone # 0 THEN "reconnecting" ELSE "found"

LookupAnswer(n) ==
    IF SweptRooms[n] = NoRoom THEN "not_found"
    ELSE IF SweptRooms[n].ownerGone # 0 THEN "reconnecting" ELSE "found"

AnswerLookup(r) ==
    LET answer == LookupAnswer(r.nameplate)
        window == CurrentWindow(SweptLookups[r.from])
        misses == CurrentWindow(globalMiss)
    IN
    /\ r.type = "lookup"
    /\ r.nameplate \in Nameplates
    /\ ~Throttled(r.from)
    /\ rooms' = SweptRooms
    /\ stats' = SweptStats
    /\ lookups' = [SweptLookups EXCEPT ![r.from] = [window EXCEPT !.count = @ + 1]]
    /\ globalMiss' = IF answer = "not_found"
                     THEN [misses EXCEPT !.count = @ + 1] ELSE misses
    /\ Answer(r, answer, r.nameplate)

Handle(r) ==
    \/ RejectRegister(r) \/ Refresh(r) \/ OpenRoom(r) \/ EvictAndOpen(r)
    \/ Unregister(r)
    \/ MalformedLookup(r) \/ ThrottleLookup(r) \/ AnswerLookup(r)

-----------------------------------------------------------------------------
(* Questions the relay service and the health endpoint ask.                *)

\* AllowReserve asks about the peer itself, AllowConnect about the peer dialled.
HasPeer(p) ==
    /\ rooms' = SweptRooms
    /\ stats' = SweptStats
    /\ lookups' = SweptLookups
    /\ reply' = [to |-> p, nameplate |-> Unnamed,
                 type |-> IF RoomsOf(SweptRooms, p) > 0 THEN "allowed" ELSE "denied"]
    /\ UNCHANGED <<now, globalMiss, conn, inbox>>

\* ActiveRooms and Stats: both drop what has lapsed before they count.
Snapshot ==
    /\ rooms' = SweptRooms
    /\ stats' = SweptStats
    /\ lookups' = SweptLookups
    /\ reply' = NoReply
    /\ UNCHANGED <<now, globalMiss, conn, inbox>>

-----------------------------------------------------------------------------
(* Connections.  A link is "opening" while its ConnectedF has not run,     *)
(* "closing" while its DisconnectedF has not looked, and "marking" once    *)
(* DisconnectedF has seen the peer gone and is about to call ownerGone.    *)

\* Connectedness: what the network answers the moment it is asked.
Connected(p) == \E l \in Links : l[1] = p /\ conn[l] \in {"opening", "up"}

Dial(l) ==
    /\ conn[l] = "down"
    /\ conn' = [conn EXCEPT ![l] = "opening"]
    /\ reply' = NoReply
    /\ UNCHANGED <<now, registry, inbox>>

\* Streams on a connection are served once its ConnectedF has returned.
OwnerBack(l) ==
    /\ conn[l] = "opening"
    /\ conn' = [conn EXCEPT ![l] = "up"]
    /\ rooms' = [n \in Nameplates |-> IF n \in OwnedBy(rooms, l[1])
                                      THEN [rooms[n] EXCEPT !.ownerGone = 0]
                                      ELSE rooms[n]]
    /\ reply' = NoReply
    /\ UNCHANGED <<now, lookups, globalMiss, stats, inbox>>

Hangup(l) ==
    /\ conn[l] = "up"
    /\ conn' = [conn EXCEPT ![l] = "closing"]
    /\ reply' = NoReply
    /\ UNCHANGED <<now, registry, inbox>>

\* DisconnectedF looks at the peer's other connections, without the lock.
Disconnected(l) ==
    /\ conn[l] = "closing"
    /\ conn' = [conn EXCEPT ![l] = IF Connected(l[1]) THEN "down" ELSE "marking"]
    /\ reply' = NoReply
    /\ UNCHANGED <<now, registry, inbox>>

\* Mutation: what is stored is how long the grace period has left to run.
OwnerGoneCountdown(l) ==
    /\ conn[l] = "marking"
    /\ conn' = [conn EXCEPT ![l] = "down"]
    /\ rooms' = [n \in Nameplates |->
                    IF n \in OwnedBy(rooms, l[1]) \ OwnerIsGone(rooms)
                    THEN [rooms[n] EXCEPT !.ownerGone = OwnerGrace - now]
                    ELSE rooms[n]]
    /\ reply' = NoReply
    /\ UNCHANGED <<now, lookups, globalMiss, stats, inbox>>

\* Starts the grace period of every room of the peer that is not in one yet.
OwnerGone(l) ==
    /\ conn[l] = "marking"
    /\ conn' = [conn EXCEPT ![l] = "down"]
    /\ rooms' = [n \in Nameplates |->
                    IF n \in OwnedBy(rooms, l[1]) \ OwnerIsGone(rooms)
                    THEN [rooms[n] EXCEPT !.ownerGone = now]
                    ELSE rooms[n]]
    /\ reply' = NoReply
    /\ UNCHANGED <<now, lookups, globalMiss, stats, inbox>>

\* Handler reads a request from a stream; its peer may hang up before the
\* handler gets the lock.
Receive(r) ==
    /\ \E l \in Links : l[1] = r.from /\ conn[l] = "up"
    /\ Cardinality(inbox) < MaxInFlight
    /\ inbox' = inbox \cup {r}
    /\ reply' = NoReply
    /\ UNCHANGED <<now, registry, conn>>

\* The registry lives in memory: a restarted server starts from nothing.
Restart ==
    /\ rooms' = [n \in Nameplates |-> NoRoom]
    /\ lookups' = [p \in Peers |-> EmptyWindow]
    /\ globalMiss' = EmptyWindow
    /\ stats' = EmptyStats
    /\ conn' = [l \in Links |-> "down"]
    /\ inbox' = {}
    /\ reply' = NoReply
    /\ UNCHANGED now

Tick ==
    /\ now < MaxTime
    /\ now' = now + 1
    /\ reply' = NoReply
    /\ UNCHANGED <<registry, conn, inbox>>

-----------------------------------------------------------------------------
Init ==
    /\ now = StartTime
    /\ rooms = [n \in Nameplates |-> NoRoom]
    /\ lookups = [p \in Peers |-> EmptyWindow]
    /\ globalMiss = EmptyWindow
    /\ stats = EmptyStats
    /\ conn = [l \in Links |-> "down"]
    /\ inbox = {}
    /\ reply = NoReply

Next ==
    \/ \E r \in Request : Receive(r)
    \/ \E r \in inbox : Handle(r)
    \/ \E p \in Peers : HasPeer(p)
    \/ Snapshot
    \/ \E l \in Links : Dial(l) \/ OwnerBack(l) \/ Hangup(l)
                        \/ Disconnected(l) \/ OwnerGone(l)
    \/ Restart
    \/ Tick

Spec == Init /\ [][Next]_vars

-----------------------------------------------------------------------------
(* Properties.                                                             *)

\* Every variable keeps its type.
TypeOK ==
    /\ now \in Nat
    /\ rooms \in Table
    /\ lookups \in [Peers -> Window]
    /\ globalMiss \in Window
    /\ stats \in Counters
    /\ conn \in [Links -> {"down", "opening", "up", "closing", "marking"}]
    /\ inbox \subseteq Request

WithinLimits(t) ==
    /\ \A p \in Peers : RoomsOf(t, p) <= MaxRoomsPerPeer
    /\ MaxRooms > 0 => Cardinality(Taken(t)) <= MaxRooms

\* Whatever order registers, refreshes, evictions and reconnects come in, no
\* peer holds more rooms than it may and the table never outgrows its limit:
\* the two checks of register are enough.
RoomLimits == WithinLimits(rooms)

Balances(t, s) ==
    s.registered = s.unregistered + s.expired + s.abandoned + s.evicted
                   + Cardinality(Taken(t))

\* The counters account for every room exactly once: what was opened is still
\* open, or was closed by its owner, expired, abandoned or evicted.
LedgerBalances == Balances(rooms, stats)

KeepsOwnersAndClocks ==
    \A n \in Taken(rooms) \cap Taken(rooms)' :
        \/ /\ rooms'[n].owner = rooms[n].owner
           /\ rooms'[n].createdAt = rooms[n].createdAt
        \/ n \in Expired \cup Abandoned \cup LongestGone(SweptRooms)

\* A room's owner and its clock change only with the room: a step that puts
\* another owner or another opening time under a nameplate finds the old room
\* already lapsed, or the one to evict because its owner left first, so nobody
\* takes a live code over and no refresh extends one.
OnlyLapsedRoomsChangeHands == [][KeepsOwnersAndClocks]_vars

KeepsPresentOwners ==
    \A n \in Taken(rooms) \ (Taken(rooms)' \cup Expired \cup OwnerIsGone(rooms)) :
        \/ \E r \in inbox \ inbox' :
              r.type = "unregister" /\ r.nameplate = n /\ r.from = rooms[n].owner
        \/ Restart

\* A room within its hour whose owner is not marked as gone disappears only
\* with its owner's own unregister or with the server: no sweep, eviction or
\* other peer's request takes it.
PresentOwnerKeepsRoom == [][KeepsPresentOwners]_vars

IsFresh(n) ==
    /\ now - rooms[n].createdAt <= RoomTTL
    /\ rooms[n].ownerGone # 0 => now - rooms[n].ownerGone <= OwnerGrace

AnswersAreFresh ==
    /\ reply'.type = "found" =>
          \E n \in Taken(rooms) :
             n = reply'.nameplate /\ IsFresh(n) /\ rooms[n].ownerGone = 0
    /\ reply'.type = "allowed" =>
          \E n \in Taken(rooms) : rooms[n].owner = reply'.to /\ IsFresh(n)

\* Every yes of the server (a lookup found, a relay reservation or connection
\* allowed) is about a room within its hour whose owner has not been gone for
\* longer than the grace period, however long ago anything last swept the table.
PositiveAnswersAreFresh == [][AnswersAreFresh]_vars

=============================================================================
