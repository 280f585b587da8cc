-------------------------- MODULE RendezvousProofs --------------------------
(***************************************************************************)
(* Proofs about Rendezvous and its history, for any peers, nameplates,      *)
(* limits and bounds.                                                      *)
(***************************************************************************)
EXTENDS RendezvousHistory, FiniteSetTheorems, TLAPS

-----------------------------------------------------------------------------
(* Lemmas about a room table.                                              *)

\* The taken nameplates, and those of one peer, are finite sets.
LEMMA TakenFinite ==
    ASSUME NEW t
    PROVE  /\ IsFiniteSet(Taken(t))
           /\ Cardinality(Taken(t)) \in Nat
           /\ \A p : IsFiniteSet(OwnedBy(t, p)) /\ RoomsOf(t, p) \in Nat
<1>1. IsFiniteSet(Taken(t))
  BY FS_Subset, NameplatesAssumption DEF Taken
<1>2. ASSUME NEW p PROVE IsFiniteSet(OwnedBy(t, p))
  BY <1>1, FS_Subset DEF OwnedBy
<1> QED BY <1>1, <1>2, FS_CardinalityType DEF RoomsOf

\* Dropping a set of rooms drops exactly those.
LEMMA WithoutTaken ==
    ASSUME NEW t \in Table, NEW S
    PROVE  /\ Without(t, S) \in Table
           /\ Taken(Without(t, S)) = Taken(t) \ S
           /\ \A n \in Nameplates \ S : Without(t, S)[n] = t[n]
           /\ \A p : OwnedBy(Without(t, S), p) = OwnedBy(t, p) \ S
BY DEF Without, Taken, Table, OwnedBy

\* Dropping rooms keeps the limits.
LEMMA WithoutWithinLimits ==
    ASSUME NEW t \in Table, NEW S, WithinLimits(t)
    PROVE  WithinLimits(Without(t, S))
<1>1. Cardinality(Taken(Without(t, S))) <= Cardinality(Taken(t))
  BY WithoutTaken, TakenFinite, FS_Subset
<1>2. ASSUME NEW p \in Peers
      PROVE  RoomsOf(Without(t, S), p) <= RoomsOf(t, p)
  BY WithoutTaken, TakenFinite, FS_Subset DEF RoomsOf
<1>3. /\ Cardinality(Taken(t)) \in Nat
      /\ Cardinality(Taken(Without(t, S))) \in Nat
      /\ \A p \in Peers : RoomsOf(t, p) \in Nat /\ RoomsOf(Without(t, S), p) \in Nat
  BY TakenFinite
<1> QED BY <1>1, <1>2, <1>3, LimitsAssumption DEF WithinLimits

\* A table changed only in when owners left takes the same nameplates for the
\* same peers.
LEMMA SameOwnersSameTaken ==
    ASSUME NEW t \in Table, NEW u \in Table,
           \A n \in Nameplates :
              /\ t[n] = NoRoom <=> u[n] = NoRoom
              /\ t[n] # NoRoom => u[n].owner = t[n].owner
    PROVE  /\ Taken(u) = Taken(t)
           /\ \A p : OwnedBy(u, p) = OwnedBy(t, p)
           /\ WithinLimits(t) => WithinLimits(u)
           /\ \A s : Balances(t, s) => Balances(u, s)
<1>1. Taken(u) = Taken(t)
  BY DEF Taken
<1>2. ASSUME NEW p PROVE OwnedBy(u, p) = OwnedBy(t, p)
  BY <1>1 DEF OwnedBy, Taken
<1> QED BY <1>1, <1>2 DEF WithinLimits, Balances, RoomsOf

\* Opening one more room under a free nameplate.
LEMMA OneMoreRoom ==
    ASSUME NEW t \in Table, NEW n \in Nameplates \ Taken(t), NEW e \in Room
    PROVE  LET u == [t EXCEPT ![n] = e]
           IN  /\ u \in Table
               /\ Cardinality(Taken(u)) = Cardinality(Taken(t)) + 1
               /\ RoomsOf(u, e.owner) = RoomsOf(t, e.owner) + 1
               /\ \A p : p # e.owner => RoomsOf(u, p) = RoomsOf(t, p)
<1> DEFINE u == [t EXCEPT ![n] = e]
<1>1. u \in Table
  BY DEF Table
<1>2. Taken(u) = Taken(t) \cup {n}
  BY NoRoomAssumption DEF Taken, Table
<1>3. OwnedBy(u, e.owner) = OwnedBy(t, e.owner) \cup {n}
  BY <1>2 DEF OwnedBy, Taken, Table
<1>4. ASSUME NEW p, p # e.owner PROVE OwnedBy(u, p) = OwnedBy(t, p)
  BY <1>2, <1>4 DEF OwnedBy, Taken, Table
<1>5. n \notin OwnedBy(t, e.owner)
  BY DEF OwnedBy
<1>6. Cardinality(Taken(u)) = Cardinality(Taken(t)) + 1
  BY <1>2, TakenFinite, FS_AddElement
<1>7. RoomsOf(u, e.owner) = RoomsOf(t, e.owner) + 1
  BY <1>3, <1>5, TakenFinite, FS_AddElement DEF RoomsOf
<1>8. ASSUME NEW p, p # e.owner PROVE RoomsOf(u, p) = RoomsOf(t, p)
  BY <1>4, <1>8 DEF RoomsOf
<1> QED BY <1>1, <1>6, <1>7, <1>8

-----------------------------------------------------------------------------
(* The inductive invariant: types, the limits and the balanced counters.   *)

RegistryInv == TypeOK /\ RoomLimits /\ LedgerBalances

\* What a sweep leaves: a table of the right type, within its limits, with
\* balanced counters.
LEMMA SweepKeepsInvariant ==
    ASSUME RegistryInv
    PROVE  /\ SweptRooms \in Table
           /\ SweptStats \in Counters
           /\ SweptLookups \in [Peers -> Window]
           /\ WithinLimits(SweptRooms)
           /\ Balances(SweptRooms, SweptStats)
<1> DEFINE A == Abandoned
           E == Expired
           T == Taken(rooms)
<1>1. rooms \in Table /\ stats \in Counters /\ lookups \in [Peers -> Window]
  BY DEF RegistryInv, TypeOK
<1>2. E \subseteq T /\ A \subseteq T /\ E \cap A = {}
  BY DEF Expired, Abandoned, OwnerIsGone
<1>3. /\ IsFiniteSet(E) /\ IsFiniteSet(A) /\ IsFiniteSet(T \ (E \cup A))
      /\ IsFiniteSet(E \cup A)
  BY <1>2, TakenFinite, FS_Subset
<1>4. /\ Cardinality(E) \in Nat /\ Cardinality(A) \in Nat
      /\ Cardinality(T) \in Nat /\ Cardinality(T \ (E \cup A)) \in Nat
  BY <1>3, TakenFinite, FS_CardinalityType
<1>5. Cardinality(E \cup A) = Cardinality(E) + Cardinality(A)
  <2>1. Cardinality(E \cup A) = Cardinality(E) + Cardinality(A) - Cardinality(E \cap A)
    BY <1>3, FS_Union
  <2>2. Cardinality(E \cap A) = 0
    BY <1>2, FS_EmptySet
  <2> QED BY <2>1, <2>2, <1>4
<1>6. Cardinality(T) = Cardinality(E \cup A) + Cardinality(T \ (E \cup A))
  <2>1. T = (E \cup A) \cup (T \ (E \cup A)) /\ (E \cup A) \cap (T \ (E \cup A)) = {}
    BY <1>2
  <2>2. Cardinality((E \cup A) \cup (T \ (E \cup A)))
            = Cardinality(E \cup A) + Cardinality(T \ (E \cup A))
              - Cardinality((E \cup A) \cap (T \ (E \cup A)))
    BY <1>3, FS_Union
  <2> QED BY <2>1, <2>2, <1>4, <1>5, FS_EmptySet
<1>7. SweptRooms \in Table /\ Taken(SweptRooms) = T \ (E \cup A)
  BY <1>1, WithoutTaken DEF SweptRooms
<1>8. SweptStats \in Counters
  <2>1. stats.expired + Cardinality(E) \in Nat /\ stats.abandoned + Cardinality(A) \in Nat
    BY <1>1, <1>4 DEF Counters
  <2>2. SweptStats = [stats EXCEPT !.expired = stats.expired + Cardinality(E),
                                   !.abandoned = stats.abandoned + Cardinality(A)]
    BY DEF SweptStats
  <2> HIDE DEF A, E
  <2> QED BY <1>1, <2>1, <2>2 DEF Counters
<1>9. SweptLookups \in [Peers -> Window]
  BY <1>1 DEF SweptLookups, Window, EmptyWindow
<1>10. WithinLimits(SweptRooms)
  BY <1>1, WithoutWithinLimits DEF RegistryInv, RoomLimits, SweptRooms
<1>11. Balances(SweptRooms, SweptStats)
  <2>1. /\ SweptStats.registered = stats.registered
        /\ SweptStats.unregistered = stats.unregistered
        /\ SweptStats.evicted = stats.evicted
        /\ SweptStats.expired = stats.expired + Cardinality(E)
        /\ SweptStats.abandoned = stats.abandoned + Cardinality(A)
    BY <1>1 DEF SweptStats, Counters
  <2>2. stats.registered = stats.unregistered + stats.expired + stats.abandoned
                           + stats.evicted + Cardinality(T)
    BY DEF RegistryInv, LedgerBalances, Balances
  <2> QED BY <1>1, <1>4, <1>5, <1>6, <1>7, <2>1, <2>2 DEF Balances, Counters
<1> QED BY <1>7, <1>8, <1>9, <1>10, <1>11

\* Windows stay windows.
LEMMA CurrentWindowType ==
    ASSUME NEW w \in Window, now \in Nat
    PROVE  CurrentWindow(w) \in Window
BY DEF CurrentWindow, Window

\* Opening a room where register's two checks passed keeps the invariant.
LEMMA OpenKeepsInvariant ==
    ASSUME TypeOK, NEW t \in Table, NEW s \in Counters, NEW r \in Request,
           SweptLookups \in [Peers -> Window],
           WithinLimits(t), Balances(t, s),
           r.nameplate # Malformed, r.nameplate \notin Taken(t),
           RoomsOf(t, r.from) < MaxRoomsPerPeer,
           MaxRooms = 0 \/ Cardinality(Taken(t)) < MaxRooms,
           OpenIn(t, s, r)
    PROVE  RegistryInv'
<1>1. PICK n \in IF r.nameplate = Unnamed THEN FreeNameplates(t) ELSE {r.nameplate} :
          /\ rooms' = [t EXCEPT ![n] = [owner |-> r.from, createdAt |-> now,
                                        ownerGone |-> 0]]
          /\ stats' = [s EXCEPT !.registered = @ + 1]
          /\ lookups' = SweptLookups
          /\ Answer(r, "ok", n)
          /\ UNCHANGED globalMiss
  BY DEF OpenIn
<1> DEFINE e == [owner |-> r.from, createdAt |-> now, ownerGone |-> 0]
<1>2. e \in Room /\ e.owner = r.from /\ r.from \in Peers
  BY DEF Room, Request, TypeOK
<1>3. n \in Nameplates \ Taken(t)
  BY DEF FreeNameplates, Request
<1>4. /\ rooms' \in Table
      /\ Cardinality(Taken(rooms')) = Cardinality(Taken(t)) + 1
      /\ RoomsOf(rooms', r.from) = RoomsOf(t, r.from) + 1
      /\ \A p : p # r.from => RoomsOf(rooms', p) = RoomsOf(t, p)
  <2>1. rooms' = [t EXCEPT ![n] = e]
    BY <1>1
  <2> HIDE DEF e
  <2> QED BY <1>2, <1>3, <2>1, OneMoreRoom
<1>5. /\ Cardinality(Taken(t)) \in Nat
      /\ \A p \in Peers : RoomsOf(t, p) \in Nat
  BY TakenFinite
<1>6. TypeOK'
  BY <1>1, <1>4 DEF TypeOK, Answer, Counters
<1>7. WithinLimits(rooms')
  BY <1>2, <1>4, <1>5, LimitsAssumption DEF WithinLimits
<1>8. Balances(rooms', stats')
  BY <1>1, <1>4, <1>5 DEF Balances, Counters
<1> QED BY <1>6, <1>7, <1>8 DEF RegistryInv, RoomLimits, LedgerBalances

\* A step that leaves the swept table and counters as they are.
LEMMA SweepStep ==
    ASSUME RegistryInv, rooms' = SweptRooms, stats' = SweptStats,
           lookups' \in [Peers -> Window], globalMiss' \in Window,
           inbox' \subseteq inbox, UNCHANGED <<now, conn>>
    PROVE  RegistryInv'
<1>1. TypeOK'
  BY SweepKeepsInvariant DEF RegistryInv, TypeOK
<1>2. RoomLimits' /\ LedgerBalances'
  BY SweepKeepsInvariant DEF RoomLimits, LedgerBalances, WithinLimits, Balances
<1> QED BY <1>1, <1>2 DEF RegistryInv

\* A step that only changes when owners left.
LEMMA OwnerStep ==
    ASSUME RegistryInv, rooms' \in Table,
           \A n \in Nameplates :
              /\ rooms[n] = NoRoom <=> rooms'[n] = NoRoom
              /\ rooms[n] # NoRoom => rooms'[n].owner = rooms[n].owner,
           conn' \in [Links -> {"down", "opening", "up", "closing", "marking"}],
           now' \in Nat, inbox' \subseteq Request,
           UNCHANGED <<lookups, globalMiss, stats>>
    PROVE  RegistryInv'
<1>1. TypeOK'
  BY DEF RegistryInv, TypeOK
<1>2. rooms \in Table
  BY DEF RegistryInv, TypeOK
<1>3. WithinLimits(rooms') /\ Balances(rooms', stats)
  BY <1>2, SameOwnersSameTaken DEF RegistryInv, RoomLimits, LedgerBalances
<1> QED BY <1>1, <1>3 DEF RegistryInv, RoomLimits, LedgerBalances, WithinLimits, Balances

\* The invariant holds initially.
LEMMA InitInvariant == Init => RegistryInv
<1> SUFFICES ASSUME Init PROVE RegistryInv
  OBVIOUS
<1>1. TypeOK
  BY LimitsAssumption
     DEF Init, TypeOK, StartTime, Table, Window, EmptyWindow, Counters, EmptyStats
<1>2. Taken(rooms) = {} /\ \A p : OwnedBy(rooms, p) = {}
  BY DEF Init, Taken, OwnedBy
<1>3. Cardinality(Taken(rooms)) = 0 /\ \A p : RoomsOf(rooms, p) = 0
  BY <1>2, FS_EmptySet DEF RoomsOf
<1>4. RoomLimits
  BY <1>3, LimitsAssumption DEF RoomLimits, WithinLimits
<1>5. LedgerBalances
  BY <1>3 DEF Init, EmptyStats, LedgerBalances, Balances
<1> QED BY <1>1, <1>4, <1>5 DEF RegistryInv

\* Every request keeps the invariant.
LEMMA HandleKeepsInvariant ==
    ASSUME RegistryInv, NEW r \in inbox, Handle(r)
    PROVE  RegistryInv'
<1>1. r \in Request /\ TypeOK /\ now \in Nat /\ globalMiss \in Window
  BY DEF RegistryInv, TypeOK
<1> DEFINE t == SweptRooms
<1>2. /\ t \in Table /\ SweptStats \in Counters
      /\ SweptLookups \in [Peers -> Window]
      /\ WithinLimits(t) /\ Balances(t, SweptStats)
  BY SweepKeepsInvariant
<1>3. r.from \in Peers
  BY <1>1 DEF Request
<1>4. Cardinality(Taken(t)) \in Nat /\ RoomsOf(t, r.from) \in Nat
  BY TakenFinite
<1>5. CASE RejectRegister(r)
  BY <1>1, <1>2, <1>5, SweepStep DEF RejectRegister, Answer
<1>6. CASE Refresh(r)
  <2> DEFINE u == [t EXCEPT ![r.nameplate].ownerGone = 0]
  <2>1. r.nameplate \in Taken(t)
    BY <1>6 DEF Refresh, Verdict
  <2>2. t[r.nameplate] \in Room /\ r.nameplate \in Nameplates
    BY <1>2, <2>1 DEF Taken, Table
  <2>3. u \in Table
    BY <1>2, <2>2 DEF Table, Room
  <2>4. \A n \in Nameplates : /\ t[n] = NoRoom <=> u[n] = NoRoom
                              /\ t[n] # NoRoom => u[n].owner = t[n].owner
    BY <1>2, <2>1, <2>2, <2>3, NoRoomAssumption DEF Table, Room, Taken
  <2>5. WithinLimits(u) /\ Balances(u, SweptStats)
    BY <1>2, <2>3, <2>4, SameOwnersSameTaken
  <2>6. rooms' = u /\ stats' = SweptStats /\ lookups' = SweptLookups /\ Answer(r, "ok", r.nameplate)
        /\ UNCHANGED globalMiss
    BY <1>6 DEF Refresh
  <2>7. TypeOK'
    BY <1>1, <1>2, <2>3, <2>6 DEF TypeOK, Answer
  <2> QED BY <2>5, <2>6, <2>7 DEF RegistryInv, RoomLimits, LedgerBalances
<1>7. CASE OpenRoom(r)
  <2>1. OpenIn(t, SweptStats, r) /\ Verdict(t, r) = "open"
    BY <1>7 DEF OpenRoom
  <2>2. /\ r.nameplate # Malformed /\ r.nameplate \notin Taken(t)
        /\ ~(RoomsOf(t, r.from) >= MaxRoomsPerPeer)
        /\ MaxRooms = 0 \/ Cardinality(Taken(t)) < MaxRooms
    BY <2>1 DEF Verdict
  <2> QED BY <1>1, <1>2, <1>4, <2>1, <2>2, OpenKeepsInvariant, LimitsAssumption
<1>8. CASE EvictAndOpen(r)
  <2>1. Verdict(t, r) = "evict"
    BY <1>8 DEF EvictAndOpen
  <2>2. /\ r.nameplate # Malformed /\ r.nameplate \notin Taken(t)
        /\ ~(RoomsOf(t, r.from) >= MaxRoomsPerPeer)
        /\ MaxRooms # 0
    BY <2>1 DEF Verdict
  <2>3. PICK oldest \in LongestGone(t) :
           OpenIn(Without(t, {oldest}), [SweptStats EXCEPT !.evicted = @ + 1], r)
    BY <1>8 DEF EvictAndOpen
  <2> DEFINE u == Without(t, {oldest})
             s == [SweptStats EXCEPT !.evicted = @ + 1]
  <2>4. oldest \in Taken(t)
    BY DEF LongestGone, OwnerIsGone
  <2>5. u \in Table /\ Taken(u) = Taken(t) \ {oldest}
        /\ OwnedBy(u, r.from) = OwnedBy(t, r.from) \ {oldest}
    BY <1>2, WithoutTaken
  <2>6. Cardinality(Taken(u)) = Cardinality(Taken(t)) - 1
    BY <2>4, <2>5, TakenFinite, FS_RemoveElement
  <2>7. RoomsOf(u, r.from) <= RoomsOf(t, r.from)
    BY <2>5, TakenFinite, FS_Subset DEF RoomsOf
  <2>8. WithinLimits(u)
    BY <1>2, WithoutWithinLimits
  <2>9. s \in Counters /\ Balances(u, s)
    BY <1>2, <1>4, <2>6 DEF Counters, Balances
  <2>10. Cardinality(Taken(u)) < MaxRooms
    BY <1>2, <1>4, <2>2, <2>6, LimitsAssumption DEF WithinLimits
  <2>11. RoomsOf(u, r.from) < MaxRoomsPerPeer
    <3>1. RoomsOf(u, r.from) \in Nat
      BY TakenFinite
    <3> QED BY <1>4, <2>2, <2>7, <3>1, LimitsAssumption
  <2>12. r.nameplate \notin Taken(u)
    BY <2>2, <2>5
  <2> HIDE DEF u, s
  <2>13. OpenIn(u, s, r)
    BY <2>3 DEF u, s
  <2> QED
    BY <1>1, <1>2, <2>2, <2>5, <2>8, <2>9, <2>10, <2>11, <2>12, <2>13, OpenKeepsInvariant
<1>9. CASE Unregister(r)
  <2> DEFINE own == OwnedBy(t, r.from) \cap {r.nameplate}
             u == Without(t, own)
  <2>1. rooms' = u /\ stats' = [SweptStats EXCEPT !.unregistered = @ + Cardinality(own)]
        /\ lookups' = SweptLookups /\ Answer(r, "ok", r.nameplate) /\ UNCHANGED globalMiss
    BY <1>9 DEF Unregister
  <2>2. u \in Table /\ Taken(u) = Taken(t) \ own /\ WithinLimits(u)
    BY <1>2, WithoutTaken, WithoutWithinLimits
  <2>3. /\ Cardinality(own) \in Nat
        /\ Cardinality(Taken(u)) = Cardinality(Taken(t)) - Cardinality(own)
    <3>1. CASE own = {}
      <4>1. Cardinality(own) = 0
        BY <3>1, FS_EmptySet
      <4>2. Taken(u) = Taken(t)
        BY <2>2, <3>1
      <4> HIDE DEF own, u
      <4> QED BY <1>4, <4>1, <4>2
    <3>2. CASE own # {}
      <4>1. own = {r.nameplate} /\ r.nameplate \in Taken(t)
        BY <3>2 DEF OwnedBy
      <4>2. Cardinality(own) = 1
        BY <4>1, FS_Singleton
      <4>3. Taken(u) = Taken(t) \ {r.nameplate}
        BY <2>2, <4>1
      <4>4. Cardinality(Taken(u)) = Cardinality(Taken(t)) - 1
        BY <4>1, <4>3, TakenFinite, FS_RemoveElement
      <4> HIDE DEF own, u
      <4> QED BY <1>4, <4>2, <4>4
    <3> QED BY <3>1, <3>2
  <2> HIDE DEF own, u
  <2>4. stats' \in Counters /\ Balances(u, stats')
    <3>1. SweptStats.unregistered + Cardinality(own) \in Nat
      BY <1>2, <2>3 DEF Counters
    <3>2. stats' = [SweptStats EXCEPT !.unregistered
                                         = SweptStats.unregistered + Cardinality(own)]
      BY <2>1
    <3>3. stats' \in Counters
      BY <1>2, <3>1, <3>2 DEF Counters
    <3>4. /\ stats'.unregistered = SweptStats.unregistered + Cardinality(own)
          /\ stats'.registered = SweptStats.registered
          /\ stats'.expired = SweptStats.expired
          /\ stats'.abandoned = SweptStats.abandoned
          /\ stats'.evicted = SweptStats.evicted
      BY <1>2, <3>2 DEF Counters
    <3> QED BY <1>2, <1>4, <2>3, <3>3, <3>4 DEF Counters, Balances
  <2>5. TypeOK'
    BY <1>1, <1>2, <2>1, <2>2, <2>4 DEF TypeOK, Answer
  <2> QED BY <2>1, <2>2, <2>4, <2>5 DEF RegistryInv, RoomLimits, LedgerBalances
<1>10. CASE MalformedLookup(r)
  BY <1>1, <1>2, <1>10, SweepStep DEF MalformedLookup, Answer
<1>11. CASE ThrottleLookup(r)
  BY <1>1, <1>2, <1>11, SweepStep, CurrentWindowType DEF ThrottleLookup, Answer
<1>12. CASE AnswerLookup(r)
  <2>1. CurrentWindow(globalMiss) \in Window /\ CurrentWindow(SweptLookups[r.from]) \in Window
    BY <1>1, <1>2, <1>3, CurrentWindowType
  <2>2. globalMiss' \in Window
    BY <1>12, <2>1 DEF AnswerLookup, Window
  <2>3. lookups' \in [Peers -> Window]
    <3> DEFINE w == [CurrentWindow(SweptLookups[r.from]) EXCEPT !.count = @ + 1]
    <3>1. w \in Window
      BY <2>1 DEF Window
    <3>2. lookups' = [SweptLookups EXCEPT ![r.from] = w]
      BY <1>12 DEF AnswerLookup
    <3> HIDE DEF w
    <3> QED BY <1>2, <1>3, <3>1, <3>2
  <2> QED BY <1>12, <2>2, <2>3, SweepStep DEF AnswerLookup, Answer
<1> QED
  BY <1>5, <1>6, <1>7, <1>8, <1>9, <1>10, <1>11, <1>12 DEF Handle

\* So does every other step.
LEMMA NextKeepsInvariant == RegistryInv /\ [Next]_vars => RegistryInv'
<1> SUFFICES ASSUME RegistryInv, [Next]_vars PROVE RegistryInv'
  OBVIOUS
<1>1. TypeOK /\ rooms \in Table /\ now \in Nat
  BY DEF RegistryInv, TypeOK
<1>2. CASE UNCHANGED vars
  BY <1>2 DEF vars, RegistryInv, TypeOK, RoomLimits, LedgerBalances, WithinLimits,
              Balances, RoomsOf, OwnedBy, Taken
<1>3. ASSUME NEW r \in Request, Receive(r) PROVE RegistryInv'
  BY <1>1, <1>3, OwnerStep DEF Receive, registry, TypeOK
<1>4. ASSUME NEW r \in inbox, Handle(r) PROVE RegistryInv'
  BY <1>4, HandleKeepsInvariant
<1>5. ASSUME NEW p \in Peers, HasPeer(p) PROVE RegistryInv'
  BY <1>1, <1>5, SweepKeepsInvariant, SweepStep DEF HasPeer, TypeOK
<1>6. CASE Snapshot
  BY <1>1, <1>6, SweepKeepsInvariant, SweepStep DEF Snapshot, TypeOK
<1>7. ASSUME NEW l \in Links, Dial(l) PROVE RegistryInv'
  BY <1>1, <1>7, OwnerStep DEF Dial, registry, TypeOK
<1>8. ASSUME NEW l \in Links, OwnerBack(l) PROVE RegistryInv'
  <2>1. rooms' \in Table
    BY <1>1, <1>8 DEF OwnerBack, OwnedBy, Taken, Table, Room
  <2>2. \A n \in Nameplates : /\ rooms[n] = NoRoom <=> rooms'[n] = NoRoom
                              /\ rooms[n] # NoRoom => rooms'[n].owner = rooms[n].owner
    BY <1>1, <1>8, <2>1, NoRoomAssumption DEF OwnerBack, OwnedBy, Taken, Table, Room
  <2> QED BY <1>1, <1>8, <2>1, <2>2, OwnerStep DEF OwnerBack, TypeOK
<1>9. ASSUME NEW l \in Links, Hangup(l) PROVE RegistryInv'
  BY <1>1, <1>9, OwnerStep DEF Hangup, registry, TypeOK
<1>10. ASSUME NEW l \in Links, Disconnected(l) PROVE RegistryInv'
  BY <1>1, <1>10, OwnerStep DEF Disconnected, registry, TypeOK
<1>11. ASSUME NEW l \in Links, OwnerGone(l) PROVE RegistryInv'
  <2>1. rooms' \in Table
    BY <1>1, <1>11 DEF OwnerGone, OwnedBy, Taken, Table, Room
  <2>2. \A n \in Nameplates : /\ rooms[n] = NoRoom <=> rooms'[n] = NoRoom
                              /\ rooms[n] # NoRoom => rooms'[n].owner = rooms[n].owner
    BY <1>1, <1>11, <2>1, NoRoomAssumption DEF OwnerGone, OwnedBy, Taken, Table, Room
  <2> QED BY <1>1, <1>11, <2>1, <2>2, OwnerStep DEF OwnerGone, TypeOK
<1>12. CASE Restart
  <2>1. Taken(rooms') = {} /\ \A p : OwnedBy(rooms', p) = {}
    BY <1>12 DEF Restart, Taken, OwnedBy
  <2>2. Cardinality(Taken(rooms')) = 0 /\ \A p : RoomsOf(rooms', p) = 0
    BY <2>1, FS_EmptySet DEF RoomsOf
  <2>3. TypeOK'
    BY <1>1, <1>12
       DEF Restart, TypeOK, Table, Window, EmptyWindow, Counters, EmptyStats
  <2>4. RoomLimits' /\ LedgerBalances'
    BY <1>12, <2>2, LimitsAssumption
       DEF RoomLimits, WithinLimits, Restart, EmptyStats, LedgerBalances, Balances
  <2> QED BY <2>3, <2>4 DEF RegistryInv
<1>13. CASE Tick
  BY <1>1, <1>13, OwnerStep DEF Tick, registry, TypeOK
<1> QED
  BY <1>2, <1>3, <1>4, <1>5, <1>6, <1>7, <1>8, <1>9, <1>10, <1>11, <1>12, <1>13 DEF Next

\* Every reachable state is well typed, within the limits of the table and of
\* each peer, and its counters balance: register's checks, the sweep, eviction
\* and unregister are enough, in any order and for any limits.
THEOREM RegistryIsSound == Spec => [](TypeOK /\ RoomLimits /\ LedgerBalances)
<1>1. Init => RegistryInv
  BY InitInvariant
<1>2. RegistryInv /\ [Next]_vars => RegistryInv'
  BY NextKeepsInvariant
<1>3. RegistryInv => TypeOK /\ RoomLimits /\ LedgerBalances
  BY DEF RegistryInv
<1> QED BY <1>1, <1>2, <1>3, PTL DEF Spec

-----------------------------------------------------------------------------
(* Action properties.                                                      *)

\* A room the sweep keeps is as it was.
LEMMA SweptAreTheSame ==
    ASSUME RegistryInv
    PROVE  /\ Taken(SweptRooms) = Taken(rooms) \ (Expired \cup Abandoned)
           /\ \A n \in Taken(SweptRooms) : SweptRooms[n] = rooms[n]
<1>1. rooms \in Table
  BY DEF RegistryInv, TypeOK
<1>2. Taken(SweptRooms) = Taken(rooms) \ (Expired \cup Abandoned)
  BY <1>1, WithoutTaken DEF SweptRooms
<1>3. \A n \in Taken(SweptRooms) : SweptRooms[n] = rooms[n]
  BY <1>1, <1>2, WithoutTaken DEF SweptRooms, Taken
<1> QED BY <1>2, <1>3

\* What a request can do to the rooms the sweep keeps: drop its sender's own
\* room or the one whose owner left first, add one under a free nameplate,
\* restart a grace period.
LEMMA HandleRooms ==
    ASSUME RegistryInv, NEW r \in inbox, Handle(r)
    PROVE  /\ \A n \in Taken(SweptRooms) \ Taken(rooms') :
                 \/ n \in LongestGone(SweptRooms)
                 \/ /\ r.type = "unregister" /\ r.nameplate = n
                    /\ r.from = SweptRooms[n].owner
           /\ \A n \in Taken(SweptRooms) \cap Taken(rooms') :
                 \/ n \in LongestGone(SweptRooms)
                 \/ /\ rooms'[n].owner = SweptRooms[n].owner
                    /\ rooms'[n].createdAt = SweptRooms[n].createdAt
           /\ inbox' = inbox \ {r}
<1> DEFINE t == SweptRooms
<1>1. t \in Table
  BY SweepKeepsInvariant
<1>2. r \in Request
  BY DEF RegistryInv, TypeOK
<1> HIDE DEF t
<1>3. CASE rooms' = t /\ inbox' = inbox \ {r}
  BY <1>3 DEF t
<1>4. CASE Refresh(r)
  <2>1. r.nameplate \in Taken(t) /\ rooms' = [t EXCEPT ![r.nameplate].ownerGone = 0]
        /\ inbox' = inbox \ {r}
    BY <1>4 DEF Refresh, Verdict, Answer, t
  <2>2. t[r.nameplate] \in Room /\ r.nameplate \in Nameplates
    BY <1>1, <2>1 DEF Taken, Table
  <2>3. rooms' \in Table
    BY <1>1, <2>1, <2>2 DEF Table, Room
  <2>4. \A n \in Taken(t) : /\ rooms'[n] \in Room
                            /\ rooms'[n].owner = t[n].owner
                            /\ rooms'[n].createdAt = t[n].createdAt
    BY <1>1, <2>1, <2>2 DEF Table, Taken, Room
  <2>5. Taken(t) \subseteq Taken(rooms')
    BY <2>4, NoRoomAssumption DEF Taken
  <2> QED BY <2>1, <2>4, <2>5 DEF t
<1>5. ASSUME NEW u \in Table, NEW s, OpenIn(u, s, r), r.nameplate \notin Taken(u),
             r.nameplate # Malformed, NEW S, u = Without(t, S), S \subseteq LongestGone(t)
      PROVE  /\ \A n \in Taken(t) \ Taken(rooms') : n \in LongestGone(t)
             /\ \A n \in Taken(t) \cap Taken(rooms') :
                   \/ n \in LongestGone(t)
                   \/ rooms'[n] = t[n]
             /\ inbox' = inbox \ {r}
  <2>1. PICK n \in IF r.nameplate = Unnamed THEN FreeNameplates(u) ELSE {r.nameplate} :
            /\ rooms' = [u EXCEPT ![n] = [owner |-> r.from, createdAt |-> now,
                                          ownerGone |-> 0]]
            /\ Answer(r, "ok", n)
    BY <1>5 DEF OpenIn
  <2>2. n \in Nameplates \ Taken(u)
    BY <1>2, <1>5, <2>1 DEF FreeNameplates, Request
  <2>3. \A m \in Nameplates \ {n} : rooms'[m] = u[m]
    BY <1>5, <2>1 DEF Table
  <2>4. Taken(u) = Taken(t) \ S /\ \A m \in Nameplates \ S : u[m] = t[m]
    BY <1>1, <1>5, WithoutTaken
  <2>5. \A m \in Taken(t) \ S : rooms'[m] = t[m] /\ m \in Taken(rooms')
    BY <2>2, <2>3, <2>4 DEF Taken
  <2> QED BY <1>5, <2>1, <2>5 DEF Answer
<1>6. CASE OpenRoom(r)
  <2>1. /\ OpenIn(t, SweptStats, r)
        /\ r.nameplate \notin Taken(t) /\ r.nameplate # Malformed
    BY <1>6 DEF OpenRoom, Verdict, t
  <2>2. t = Without(t, {})
    BY <1>1 DEF Without, Table
  <2> QED BY <1>1, <1>5, <2>1, <2>2 DEF t
<1>7. CASE EvictAndOpen(r)
  <2>1. PICK oldest \in LongestGone(t) :
           OpenIn(Without(t, {oldest}), [SweptStats EXCEPT !.evicted = @ + 1], r)
    BY <1>7 DEF EvictAndOpen, t
  <2>2. r.nameplate \notin Taken(t) /\ r.nameplate # Malformed
    BY <1>7 DEF EvictAndOpen, Verdict, t
  <2>3. Without(t, {oldest}) \in Table /\ r.nameplate \notin Taken(Without(t, {oldest}))
    BY <1>1, <2>2, WithoutTaken
  <2> QED BY <1>5, <2>1, <2>2, <2>3 DEF t
<1>8. CASE Unregister(r)
  <2> DEFINE own == OwnedBy(t, r.from) \cap {r.nameplate}
  <2>1. rooms' = Without(t, own) /\ r.type = "unregister" /\ inbox' = inbox \ {r}
    BY <1>8 DEF Unregister, Answer, t
  <2>2. Taken(rooms') = Taken(t) \ own /\ \A n \in Nameplates \ own : rooms'[n] = t[n]
    BY <1>1, <2>1, WithoutTaken
  <2>3. \A n \in Taken(t) \ Taken(rooms') : r.nameplate = n /\ r.from = t[n].owner
    BY <2>2 DEF OwnedBy
  <2>4. \A n \in Taken(t) \cap Taken(rooms') : rooms'[n] = t[n]
    BY <2>2 DEF Taken
  <2> QED BY <2>1, <2>3, <2>4 DEF t
<1> QED
  BY <1>3, <1>4, <1>6, <1>7, <1>8
     DEF Handle, RejectRegister, MalformedLookup, ThrottleLookup, AnswerLookup, Answer, t

\* What a notification does to a room: nothing but start or end its grace.
LEMMA OwnerRooms ==
    ASSUME RegistryInv, NEW l \in Links, OwnerBack(l) \/ OwnerGone(l)
    PROVE  /\ Taken(rooms') = Taken(rooms)
           /\ \A n \in Taken(rooms) : /\ rooms'[n].owner = rooms[n].owner
                                      /\ rooms'[n].createdAt = rooms[n].createdAt
<1>1. rooms \in Table /\ now \in Nat
  BY DEF RegistryInv, TypeOK
<1>2. rooms' \in Table
  BY <1>1 DEF OwnerBack, OwnerGone, OwnedBy, Taken, Table, Room
<1>3. \A n \in Nameplates : /\ rooms[n] = NoRoom <=> rooms'[n] = NoRoom
                            /\ rooms[n] # NoRoom => /\ rooms'[n].owner = rooms[n].owner
                                                    /\ rooms'[n].createdAt = rooms[n].createdAt
  BY <1>1, <1>2, NoRoomAssumption DEF OwnerBack, OwnerGone, OwnedBy, Taken, Table, Room
<1> QED BY <1>3 DEF Taken

\* No step gives a live room another owner or another clock, and none takes a
\* room within its hour from an owner who is not marked as gone, other than on
\* that owner's request or with the server.
LEMMA StepsKeepOwners ==
    RegistryInv /\ [Next]_vars => [KeepsOwnersAndClocks /\ KeepsPresentOwners]_vars
<1> SUFFICES ASSUME RegistryInv, Next
             PROVE  KeepsOwnersAndClocks /\ KeepsPresentOwners
  BY DEF KeepsOwnersAndClocks
<1>1. CASE UNCHANGED rooms
  BY <1>1 DEF KeepsOwnersAndClocks, KeepsPresentOwners, Taken
<1>2. CASE rooms' = SweptRooms
  <2>1. Taken(rooms') = Taken(rooms) \ (Expired \cup Abandoned)
        /\ \A n \in Taken(rooms') : rooms'[n] = rooms[n]
    BY <1>2, SweptAreTheSame
  <2> QED BY <2>1 DEF KeepsOwnersAndClocks, KeepsPresentOwners, Abandoned
<1>3. ASSUME NEW r \in inbox, Handle(r)
      PROVE  KeepsOwnersAndClocks /\ KeepsPresentOwners
  <2>1. KeepsOwnersAndClocks
    <3> SUFFICES ASSUME NEW n \in Taken(rooms) \cap Taken(rooms)',
                        n \notin Expired \cup Abandoned \cup LongestGone(SweptRooms)
                 PROVE  /\ rooms'[n].owner = rooms[n].owner
                        /\ rooms'[n].createdAt = rooms[n].createdAt
      BY DEF KeepsOwnersAndClocks
    <3>1. n \in Taken(SweptRooms) /\ SweptRooms[n] = rooms[n]
      BY SweptAreTheSame
    <3> QED BY <1>3, <3>1, HandleRooms
  <2>2. KeepsPresentOwners
    <3> SUFFICES ASSUME NEW n \in Taken(rooms) \ (Taken(rooms)' \cup Expired \cup OwnerIsGone(rooms))
                 PROVE  \E q \in inbox \ inbox' :
                           /\ q.type = "unregister" /\ q.nameplate = n
                           /\ q.from = rooms[n].owner
      BY DEF KeepsPresentOwners
    <3>1. n \in Taken(SweptRooms) /\ SweptRooms[n] = rooms[n]
      BY SweptAreTheSame DEF Abandoned
    <3>2. n \notin LongestGone(SweptRooms)
      BY <3>1 DEF LongestGone, OwnerIsGone
    <3> QED BY <1>3, <3>1, <3>2, HandleRooms
  <2> QED BY <2>1, <2>2
<1>4. ASSUME NEW l \in Links, OwnerBack(l) \/ OwnerGone(l)
      PROVE  KeepsOwnersAndClocks /\ KeepsPresentOwners
  BY <1>4, OwnerRooms DEF KeepsOwnersAndClocks, KeepsPresentOwners
<1>5. CASE Restart
  BY <1>5 DEF Restart, KeepsOwnersAndClocks, KeepsPresentOwners, Taken
<1> QED
  BY <1>1, <1>2, <1>3, <1>4, <1>5
     DEF Next, Receive, HasPeer, Snapshot, Dial, Hangup, Disconnected, Tick, registry

\* A live room never changes hands and no refresh extends its clock, for any
\* number of peers, nameplates and requests in flight.
THEOREM RoomsKeepOwners == Spec => OnlyLapsedRoomsChangeHands
<1>1. RegistryInv /\ [Next]_vars => [KeepsOwnersAndClocks]_vars
  BY StepsKeepOwners
<1>2. Init => RegistryInv
  BY InitInvariant
<1>3. RegistryInv /\ [Next]_vars => RegistryInv'
  BY NextKeepsInvariant
<1> QED BY <1>1, <1>2, <1>3, PTL DEF Spec, OnlyLapsedRoomsChangeHands

\* No eviction, sweep or foreign request takes the room of an owner the server
\* believes to be connected.
THEOREM PresentOwnersKeepRooms == Spec => PresentOwnerKeepsRoom
<1>1. RegistryInv /\ [Next]_vars => [KeepsPresentOwners]_vars
  BY StepsKeepOwners
<1>2. Init => RegistryInv
  BY InitInvariant
<1>3. RegistryInv /\ [Next]_vars => RegistryInv'
  BY NextKeepsInvariant
<1> QED BY <1>1, <1>2, <1>3, PTL DEF Spec, PresentOwnerKeepsRoom

\* A room the sweep keeps is within its hour and its grace.
LEMMA SweptAreFresh ==
    ASSUME RegistryInv, NEW n \in Taken(SweptRooms)
    PROVE  n \in Taken(rooms) /\ SweptRooms[n] = rooms[n] /\ IsFresh(n)
<1>1. n \in Taken(rooms) \ (Expired \cup Abandoned) /\ SweptRooms[n] = rooms[n]
  BY SweptAreTheSame
<1>2. rooms[n] \in Room /\ now \in Nat
  BY <1>1 DEF RegistryInv, TypeOK, Table, Taken
<1> QED
  BY <1>1, <1>2, LimitsAssumption DEF IsFresh, Expired, Abandoned, OwnerIsGone, Room

\* Only a lookup is answered "found", and only a question "allowed".
LEMMA StepsAnswerFresh == RegistryInv /\ [Next]_vars => [AnswersAreFresh]_vars
<1> SUFFICES ASSUME RegistryInv, Next PROVE AnswersAreFresh
  BY DEF AnswersAreFresh
<1>1. CASE reply'.type \notin {"found", "allowed"}
  BY <1>1 DEF AnswersAreFresh
<1>2. ASSUME NEW r \in inbox, AnswerLookup(r) PROVE AnswersAreFresh
  <2>1. /\ reply' = [to |-> r.from, type |-> LookupAnswer(r.nameplate),
                     nameplate |-> r.nameplate]
        /\ r.nameplate \in Nameplates
    BY <1>2 DEF AnswerLookup, Answer
  <2>2. reply'.type # "allowed"
    BY <2>1 DEF LookupAnswer
  <2>3. CASE reply'.type = "found"
    <3>1. r.nameplate \in Taken(SweptRooms) /\ SweptRooms[r.nameplate].ownerGone = 0
      BY <2>1, <2>3 DEF LookupAnswer, Taken
    <3>2. /\ r.nameplate \in Taken(rooms) /\ IsFresh(r.nameplate)
          /\ rooms[r.nameplate].ownerGone = 0
      BY <3>1, SweptAreFresh
    <3> QED BY <2>1, <2>2, <3>2 DEF AnswersAreFresh
  <2> QED BY <2>2, <2>3 DEF AnswersAreFresh
<1>3. ASSUME NEW p \in Peers, HasPeer(p) PROVE AnswersAreFresh
  <2>1. reply' = [to |-> p, nameplate |-> Unnamed,
                  type |-> IF RoomsOf(SweptRooms, p) > 0 THEN "allowed" ELSE "denied"]
    BY <1>3 DEF HasPeer
  <2>2. CASE RoomsOf(SweptRooms, p) > 0
    <3>1. OwnedBy(SweptRooms, p) # {}
      BY <2>2, FS_EmptySet DEF RoomsOf
    <3>2. PICK n \in OwnedBy(SweptRooms, p) : TRUE
      BY <3>1
    <3>3. n \in Taken(SweptRooms) /\ SweptRooms[n].owner = p
      BY DEF OwnedBy
    <3>4. n \in Taken(rooms) /\ rooms[n].owner = p /\ IsFresh(n)
      BY <3>3, SweptAreFresh
    <3> QED BY <2>1, <2>2, <3>4 DEF AnswersAreFresh
  <2>3. CASE ~(RoomsOf(SweptRooms, p) > 0)
    BY <2>1, <2>3 DEF AnswersAreFresh
  <2> QED BY <2>2, <2>3
<1>4. ASSUME NEW r \in inbox, RejectRegister(r) PROVE reply'.type \notin {"found", "allowed"}
  <2>1. /\ Verdict(SweptRooms, r) \in {"malformed", "in_use", "too_many", "full"}
        /\ reply'.type = Verdict(SweptRooms, r)
    BY <1>4 DEF RejectRegister, Answer
  <2> QED BY <2>1
<1>5. ASSUME NEW r \in inbox, OpenRoom(r) \/ EvictAndOpen(r)
      PROVE  reply'.type \notin {"found", "allowed"}
  <2>1. ASSUME NEW t, NEW s, OpenIn(t, s, r) PROVE reply'.type = "ok"
    BY <2>1 DEF OpenIn, Answer
  <2>2. reply'.type = "ok"
    <3> HIDE DEF OpenIn
    <3> QED BY <1>5, <2>1 DEF OpenRoom, EvictAndOpen
  <2> QED BY <2>2
<1>6. ASSUME NEW r \in inbox, Handle(r) PROVE AnswersAreFresh
  <2>1. ASSUME Refresh(r) \/ Unregister(r) \/ MalformedLookup(r) \/ ThrottleLookup(r)
        PROVE  reply'.type \notin {"found", "allowed"}
    BY <2>1 DEF Refresh, Unregister, MalformedLookup, ThrottleLookup, Answer
  <2> QED BY <1>1, <1>2, <1>4, <1>5, <1>6, <2>1 DEF Handle
<1>7. CASE reply' = NoReply
  BY <1>1, <1>7 DEF NoReply
<1> QED
  BY <1>3, <1>6, <1>7
     DEF Next, Receive, Snapshot, Dial, OwnerBack, Hangup, Disconnected, OwnerGone,
         Restart, Tick

\* The server says yes only about a room within its hour and its owner's grace,
\* however long the table went without a sweep.
THEOREM YesIsFresh == Spec => PositiveAnswersAreFresh
<1>1. RegistryInv /\ [Next]_vars => [AnswersAreFresh]_vars
  BY StepsAnswerFresh
<1>2. Init => RegistryInv
  BY InitInvariant
<1>3. RegistryInv /\ [Next]_vars => RegistryInv'
  BY NextKeepsInvariant
<1> QED BY <1>1, <1>2, <1>3, PTL DEF Spec, PositiveAnswersAreFresh

-----------------------------------------------------------------------------
(* What is answered now and what was answered before: RendezvousHistory.    *)

\* The times a, all answered up to t.
IsLog(a, t) ==
    /\ a \in Seq(Nat)
    /\ \A i \in DOMAIN a : a[i] <= t
    /\ \A i, j \in DOMAIN a : i <= j => a[i] <= a[j]

\* No more than one limit of them within a window before t.
OneLimitBefore(a, t) ==
    \A i \in DOMAIN a : i + MaxLookups > Len(a) + 1 \/ a[i] + LookupWindow < t

\* The last w.count of them, from place b on, are those that window w counts, and
\* what came before goes with the window before it.
Counts(a, w, b) ==
    /\ b \in DOMAIN a /\ b + w.count = Len(a) + 1
    /\ w.count \in 1 .. MaxLookups
    /\ a[b] = w.start
    /\ \A i \in 1 .. b - MaxLookups : a[i] + LookupWindow < w.start

\* Twice the limit spans more than a window.
Rate(a) ==
    \A i, j \in DOMAIN a : j = i + 2 * MaxLookups - 1 => a[j] - a[i] > LookupWindow

\* A peer's window and the answers it had.
LogFits(a, w, t) ==
    /\ IsLog(a, t) /\ Rate(a)
    /\ IF w = EmptyWindow THEN OneLimitBefore(a, t)
       ELSE \E b \in Nat : Counts(a, w, b)

HistoryInv ==
    /\ now \in Nat /\ now > LookupWindow
    /\ answered \in [Peers -> Seq(Nat)]
    /\ \A p \in Peers : LogFits(answered[p], lookups[p], now)

-----------------------------------------------------------------------------
(* One peer's log a, window w and time t.                                   *)

LEMMA LimitsAreNumbers == MaxLookups \in Nat /\ MaxLookups >= 1 /\ LookupWindow \in Nat
BY LimitsAssumption

\* Time passes.
LEMMA LogsLast ==
    ASSUME NEW a, NEW w, NEW t \in Nat, NEW u \in Nat, t <= u, LogFits(a, w, t)
    PROVE  LogFits(a, w, u)
<1>1. IsLog(a, u)
  BY DEF LogFits, IsLog
<1>2. OneLimitBefore(a, t) => OneLimitBefore(a, u)
  BY LimitsAssumption DEF LogFits, IsLog, OneLimitBefore
<1> QED BY <1>1, <1>2 DEF LogFits

\* A stale window may be dropped.
LEMMA StaleIsForgotten ==
    ASSUME NEW a, NEW w \in Window, NEW t \in Nat, LogFits(a, w, t),
           w = EmptyWindow \/ t - w.start > LookupWindow
    PROVE  OneLimitBefore(a, t)
<1>1. CASE w = EmptyWindow
  BY <1>1 DEF LogFits
<1>2. CASE w # EmptyWindow
  <2>1. PICK b \in Nat : Counts(a, w, b)
    BY <1>2 DEF LogFits
  <2>2. SUFFICES ASSUME NEW i \in DOMAIN a, i + MaxLookups <= Len(a) + 1
                 PROVE  a[i] + LookupWindow < t
    BY LimitsAssumption DEF LogFits, IsLog, OneLimitBefore
  <2>3. /\ a \in Seq(Nat) /\ i \in Nat /\ Len(a) \in Nat /\ w.start \in Nat /\ w.count \in Nat
        /\ a[i] \in Nat
    BY DEF LogFits, IsLog, Window
  <2>4. i <= b
    BY <2>1, <2>2, <2>3, LimitsAssumption DEF Counts
  <2>5. a[i] <= w.start
    BY <2>1, <2>4 DEF Counts, LogFits, IsLog
  <2> QED BY <1>2, <2>3, <2>5, LimitsAssumption
<1> QED BY <1>1, <1>2

LEMMA AppendedTo ==
    ASSUME NEW a \in Seq(Nat), NEW t \in Nat
    PROVE  /\ Append(a, t) \in Seq(Nat)
           /\ Len(Append(a, t)) = Len(a) + 1 /\ Len(a) \in Nat
           /\ DOMAIN a = 1 .. Len(a) /\ DOMAIN Append(a, t) = 1 .. Len(a) + 1
           /\ \A i \in 1 .. Len(a) : Append(a, t)[i] = a[i] /\ a[i] \in Nat
           /\ Append(a, t)[Len(a) + 1] = t
OBVIOUS

LEMMA LogGrows ==
    ASSUME NEW a, NEW t \in Nat, IsLog(a, t)
    PROVE  IsLog(Append(a, t), t)
<1>1. a \in Seq(Nat)
  BY DEF IsLog
<1> QED BY <1>1, AppendedTo DEF IsLog

\* An answer that starts a window.
LEMMA WindowStarts ==
    ASSUME NEW a, NEW t \in Nat, IsLog(a, t), Rate(a), OneLimitBefore(a, t)
    PROVE  LogFits(Append(a, t), [count |-> 1, start |-> t], t)
<1> DEFINE n == Len(a)
           w == [count |-> 1, start |-> t]
           c == Append(a, t)
<1>1. a \in Seq(Nat)
  BY DEF IsLog
<1>2. /\ n \in Nat /\ DOMAIN a = 1 .. n /\ DOMAIN c = 1 .. n + 1 /\ Len(c) = n + 1
      /\ \A i \in 1 .. n : c[i] = a[i] /\ a[i] \in Nat
      /\ c[n + 1] = t
  BY <1>1, AppendedTo
<1>window. w.count = 1 /\ w.start = t /\ w # EmptyWindow
  BY DEF EmptyWindow
<1> HIDE DEF n, c, w
<1>3. \A i \in 1 .. n : i + MaxLookups > n + 1 \/ a[i] + LookupWindow < t
  BY <1>2 DEF OneLimitBefore, n
<1>4. Counts(c, w, n + 1)
  <2>1. \A i \in 1 .. n + 1 - MaxLookups : c[i] + LookupWindow < t
    BY <1>2, <1>3, LimitsAreNumbers
  <2> QED BY <1>2, <1>window, <2>1, LimitsAreNumbers DEF Counts
<1>rate. \A i, j \in 1 .. n : j = i + 2 * MaxLookups - 1 => a[j] - a[i] > LookupWindow
  BY <1>2 DEF Rate
<1>5. ASSUME NEW i \in 1 .. n + 1, NEW j \in 1 .. n + 1, j = i + 2 * MaxLookups - 1
      PROVE  c[j] - c[i] > LookupWindow
  <2>1. CASE j <= n
    BY <1>2, <1>5, <1>rate, <2>1, LimitsAreNumbers
  <2>2. CASE j = n + 1
    <3>1. i <= n /\ i + MaxLookups <= n + 1
      BY <1>2, <1>5, <2>2, LimitsAreNumbers
    <3>2. a[i] + LookupWindow < t
      BY <1>2, <1>3, <3>1, LimitsAreNumbers
    <3> QED BY <1>2, <2>2, <3>1, <3>2, LimitsAreNumbers
  <2> QED BY <1>2, <2>1, <2>2
<1>6. Rate(c)
  BY <1>2, <1>5 DEF Rate
<1>7. IsLog(c, t)
  BY LogGrows DEF c
<1>8. n + 1 \in Nat
  BY <1>2
<1>9. LogFits(c, w, t)
  BY <1>window, <1>4, <1>6, <1>7, <1>8 DEF LogFits
<1> QED BY <1>9 DEF c, w

\* An answer within one.
LEMMA WindowCounts ==
    ASSUME NEW a, NEW w \in Window, NEW t \in Nat, NEW b \in Nat,
           IsLog(a, t), Rate(a), Counts(a, w, b), w.count < MaxLookups
    PROVE  LogFits(Append(a, t), [w EXCEPT !.count = @ + 1], t)
<1> DEFINE n == Len(a)
           v == [w EXCEPT !.count = @ + 1]
           c == Append(a, t)
<1>1. a \in Seq(Nat)
  BY DEF IsLog
<1>2. /\ n \in Nat /\ DOMAIN a = 1 .. n /\ DOMAIN c = 1 .. n + 1 /\ Len(c) = n + 1
      /\ \A i \in 1 .. n : c[i] = a[i] /\ a[i] \in Nat
      /\ c[n + 1] = t
  BY <1>1, AppendedTo
<1>3. /\ w.count \in Nat /\ w.start \in Nat /\ v.count = w.count + 1 /\ v.start = w.start
      /\ v \in Window
  BY DEF Window
<1>4. /\ b \in 1 .. n /\ b + w.count = n + 1 /\ a[b] = w.start /\ w.count \in 1 .. MaxLookups
      /\ \A i \in 1 .. b - MaxLookups : a[i] + LookupWindow < w.start
  BY <1>2 DEF Counts
<1> HIDE DEF n, c, v
<1>5. Counts(c, v, b)
  <2>1. \A i \in 1 .. b - MaxLookups : c[i] + LookupWindow < v.start
    BY <1>2, <1>3, <1>4, LimitsAreNumbers
  <2>2. b \in DOMAIN c /\ b + v.count = Len(c) + 1 /\ c[b] = v.start
    <3>1. b \in 1 .. n /\ b \in 1 .. n + 1 /\ c[b] = a[b]
      BY <1>2, <1>4
    <3>2. \A k \in Nat : b + k = n + 1 => b + (k + 1) = n + 1 + 1
      BY <1>2
    <3>3. b + (w.count + 1) = n + 1 + 1
      BY <1>3, <1>4, <3>2
    <3>4. b + v.count = n + 1 + 1
      BY <1>3, <3>3
    <3> QED BY <1>2, <1>3, <1>4, <3>1, <3>4
  <2>3. v.count \in 1 .. MaxLookups
    BY <1>3, <1>4, LimitsAreNumbers
  <2> QED BY <2>1, <2>2, <2>3 DEF Counts
<1>6. w.start <= t
  BY <1>2, <1>4 DEF IsLog
<1>rate. \A i, j \in 1 .. n : j = i + 2 * MaxLookups - 1 => a[j] - a[i] > LookupWindow
  BY <1>2 DEF Rate
<1>7. ASSUME NEW i \in 1 .. n + 1, NEW j \in 1 .. n + 1, j = i + 2 * MaxLookups - 1
      PROVE  c[j] - c[i] > LookupWindow
  <2>1. CASE j <= n
    BY <1>2, <1>7, <1>rate, <2>1, LimitsAreNumbers
  <2>2. CASE j = n + 1
    <3>1. i <= n /\ i \in 1 .. b - MaxLookups
      BY <1>2, <1>3, <1>4, <1>7, <2>2, LimitsAreNumbers
    <3>2. a[i] + LookupWindow < w.start
      BY <1>4, <3>1
    <3> QED BY <1>2, <1>3, <1>6, <2>2, <3>1, <3>2, LimitsAreNumbers
  <2> QED BY <1>2, <2>1, <2>2
<1>8. Rate(c)
  BY <1>2, <1>7 DEF Rate
<1>9. IsLog(c, t)
  BY LogGrows DEF c
<1>10. v # EmptyWindow
  BY <1>3 DEF EmptyWindow
<1> QED BY <1>5, <1>8, <1>9, <1>10 DEF LogFits, v, c

-----------------------------------------------------------------------------
(* The steps of the registry.                                               *)

\* A step records at most one answer, and at now.
LEMMA HistoryGrows ==
    ASSUME HistoryInv, RecordAnswer
    PROVE  /\ answered' \in [Peers -> Seq(Nat)]
           /\ \A p \in Peers :
                 \/ answered'[p] = answered[p]
                 \/ /\ p = reply'.to /\ reply'.type \in Answers
                    /\ answered'[p] = Append(answered[p], now)
           /\ reply'.type \notin Answers => answered' = answered
           /\ \A p \in Peers :
                 p = reply'.to /\ reply'.type \in Answers =>
                    answered'[p] = Append(answered[p], now)
<1>1. answered \in [Peers -> Seq(Nat)] /\ now \in Nat
  BY DEF HistoryInv
<1>2. CASE reply'.type \notin Answers
  BY <1>1, <1>2 DEF RecordAnswer
<1>3. CASE reply'.type \in Answers
  <2>1. answered' = [answered EXCEPT ![reply'.to] = Append(@, now)]
    BY <1>3 DEF RecordAnswer
  <2>2. CASE reply'.to \in Peers
    <3>1. Append(answered[reply'.to], now) \in Seq(Nat)
      BY <1>1, <2>2
    <3> QED BY <1>1, <1>3, <2>1, <2>2, <3>1
  <2>3. CASE reply'.to \notin Peers
    BY <1>1, <1>3, <2>1, <2>3
  <2> QED BY <2>2, <2>3
<1> QED BY <1>2, <1>3

LEMMA HistoryStepsAreSteps == [HistoryNext]_historyVars => [Next]_vars
BY DEF HistoryNext, historyVars, Next

\* A sweep drops a peer's window or leaves it.
LEMMA SweptWindows ==
    ASSUME TypeOK
    PROVE  /\ SweptLookups \in [Peers -> Window]
           /\ \A p \in Peers : SweptLookups[p] \in {EmptyWindow, lookups[p]}
           /\ \A p \in Peers :
                 SweptLookups[p] = lookups[p] \/ now - lookups[p].start > LookupWindow
BY DEF TypeOK, SweptLookups, Window, EmptyWindow

LEMMA EmptyLogFits == \A t : LogFits(<<>>, EmptyWindow, t)
<1>1. DOMAIN <<>> = {} /\ <<>> \in Seq(Nat)
  OBVIOUS
<1> QED BY <1>1 DEF LogFits, IsLog, Rate, OneLimitBefore

\* Whatever is dropped or left, the log fits.
LEMMA SweptLogsFit ==
    ASSUME TypeOK, HistoryInv, NEW p \in Peers
    PROVE  LogFits(answered[p], SweptLookups[p], now)
<1>1. lookups[p] \in Window /\ LogFits(answered[p], lookups[p], now) /\ now \in Nat
  BY DEF TypeOK, HistoryInv
<1>2. CASE SweptLookups[p] = lookups[p]
  BY <1>1, <1>2
<1>3. CASE SweptLookups[p] = EmptyWindow /\ now - lookups[p].start > LookupWindow
  <2>1. OneLimitBefore(answered[p], now)
    BY <1>1, <1>3, StaleIsForgotten
  <2> QED BY <1>1, <1>3, <2>1 DEF LogFits
<1> QED BY <1>2, <1>3, SweptWindows

\* Only an answered lookup starts a window or counts in one.
LEMMA StepsKeepLogs ==
    ASSUME TypeOK, HistoryInv, Next, ~Restart, RecordAnswer, now' >= now, now' \in Nat
    PROVE  \A p \in Peers : LogFits(answered'[p], lookups'[p], now')
<1>1. now \in Nat
  BY DEF TypeOK
<1>2. ASSUME lookups' = SweptLookups \/ lookups' = lookups, answered' = answered
      PROVE  \A p \in Peers : LogFits(answered'[p], lookups'[p], now')
  BY <1>1, <1>2, SweptLogsFit, LogsLast DEF HistoryInv
<1>3. ASSUME NEW r \in inbox, AnswerLookup(r)
      PROVE  \A p \in Peers : LogFits(answered'[p], lookups'[p], now')
  <2>1. r.from \in Peers /\ now' = now
    BY <1>3 DEF TypeOK, Request, AnswerLookup, Answer
  <2>2. reply'.to = r.from /\ reply'.type \in Answers
    BY <1>3 DEF AnswerLookup, Answer, LookupAnswer, Answers
  <2>3. answered'[r.from] = Append(answered[r.from], now)
    BY <2>1, <2>2, HistoryGrows
  <2> DEFINE old == SweptLookups[r.from]
             window == CurrentWindow(old)
             a == answered[r.from]
  <2>4. old \in Window /\ window \in Window /\ LogFits(a, old, now)
    BY <1>1, <2>1, SweptWindows, SweptLogsFit, CurrentWindowType
  <2>5. lookups' = [SweptLookups EXCEPT ![r.from] = [window EXCEPT !.count = @ + 1]]
    BY <1>3 DEF AnswerLookup
  <2>6. lookups'[r.from] = [window EXCEPT !.count = @ + 1]
    BY <2>1, <2>5, SweptWindows
  <2>7. \A p \in Peers \ {r.from} : lookups'[p] = SweptLookups[p] /\ answered'[p] = answered[p]
    BY <2>2, <2>5, SweptWindows, HistoryGrows
  <2>8. window.count < MaxLookups
    BY <1>3, <2>4, LimitsAssumption DEF AnswerLookup, Throttled, Window
  <2>9. LogFits(Append(a, now), [window EXCEPT !.count = @ + 1], now)
    <3>1. CASE now - old.start > LookupWindow
      <4>1. window = [count |-> 0, start |-> now]
        BY <3>1 DEF CurrentWindow
      <4>2. [window EXCEPT !.count = @ + 1] = [count |-> 1, start |-> now]
        BY <4>1
      <4> HIDE DEF window, old
      <4>3. OneLimitBefore(a, now) /\ IsLog(a, now) /\ Rate(a)
        BY <1>1, <2>4, <3>1, StaleIsForgotten DEF LogFits
      <4> QED BY <1>1, <4>2, <4>3, WindowStarts
    <3>2. CASE ~(now - old.start > LookupWindow)
      <4>1. window = old
        BY <3>2 DEF CurrentWindow
      <4>2. old # EmptyWindow
        BY <3>2, LimitsAssumption DEF HistoryInv, EmptyWindow
      <4> HIDE DEF window, old
      <4>3. PICK b \in Nat : Counts(a, old, b)
        BY <2>4, <4>2 DEF LogFits
      <4>4. IsLog(a, now) /\ Rate(a)
        BY <2>4 DEF LogFits
      <4> QED BY <1>1, <2>4, <2>8, <4>1, <4>3, <4>4, WindowCounts
    <3> QED BY <3>1, <3>2
  <2> HIDE DEF window, old
  <2>10. LogFits(answered'[r.from], lookups'[r.from], now')
    BY <2>1, <2>3, <2>6, <2>9
  <2>11. \A p \in Peers \ {r.from} : LogFits(answered'[p], lookups'[p], now')
    BY <2>1, <2>7, SweptLogsFit
  <2> QED BY <2>10, <2>11
<1>4. ASSUME ~\E r \in inbox : AnswerLookup(r)
      PROVE  (lookups' = SweptLookups \/ lookups' = lookups) /\ answered' = answered
  <2>1. ASSUME NEW r \in inbox, Handle(r)
        PROVE  lookups' = SweptLookups /\ reply'.type \notin Answers
    <3>1. CASE RejectRegister(r)
      <4>1. \E verdict \in {"malformed", "in_use", "too_many", "full"} :
                reply' = [to |-> r.from, type |-> verdict, nameplate |-> r.nameplate]
        BY <3>1 DEF RejectRegister, Answer
      <4> QED BY <3>1, <4>1 DEF RejectRegister, Answers
    <3>2. CASE Refresh(r) \/ Unregister(r) \/ MalformedLookup(r) \/ ThrottleLookup(r)
      BY <3>2 DEF Refresh, Unregister, MalformedLookup, ThrottleLookup, Answer, Answers
    <3>3. ASSUME NEW t, NEW s, OpenIn(t, s, r)
          PROVE  lookups' = SweptLookups /\ reply'.type \notin Answers
      BY <3>3 DEF OpenIn, Answer, Answers
    <3> QED BY <1>4, <2>1, <3>1, <3>2, <3>3 DEF Handle, OpenRoom, EvictAndOpen
  <2>2. ASSUME ~\E r \in inbox : Handle(r)
        PROVE  (lookups' = SweptLookups \/ lookups' = lookups) /\ reply'.type \notin Answers
    BY <2>2 DEF Next, Receive, HasPeer, Snapshot, Dial, OwnerBack, Hangup, Disconnected,
       OwnerGone, Tick, registry, NoReply, Answers
  <2> QED BY <2>1, <2>2, HistoryGrows
<1> QED BY <1>2, <1>3, <1>4

LEMMA NextKeepsHistory ==
    TypeOK /\ HistoryInv /\ [HistoryNext]_historyVars => HistoryInv'
<1> SUFFICES ASSUME TypeOK, HistoryInv, [HistoryNext]_historyVars PROVE HistoryInv'
  OBVIOUS
<1>1. now' \in Nat /\ now' >= now /\ now' > LookupWindow
  <2>1. now' = now \/ now' = now + 1
    BY DEF HistoryNext, historyVars, vars, Next, Receive, Handle, RejectRegister, Refresh,
       OpenRoom, EvictAndOpen, OpenIn, Unregister, MalformedLookup, ThrottleLookup, AnswerLookup,
       Answer, HasPeer, Snapshot, Dial, OwnerBack, Hangup, Disconnected, OwnerGone, Restart, Tick
  <2> QED BY <2>1, LimitsAssumption DEF HistoryInv
<1>2. CASE UNCHANGED historyVars
  BY <1>2 DEF historyVars, vars, HistoryInv
<1>3. CASE Next /\ ~Restart /\ RecordAnswer
  BY <1>1, <1>3, HistoryGrows, StepsKeepLogs DEF HistoryInv
<1>4. CASE Restart /\ answered' = NothingAnswered
  <2>1. \A p \in Peers : answered'[p] = <<>> /\ lookups'[p] = EmptyWindow
    BY <1>4 DEF Restart, NothingAnswered
  <2>2. answered' \in [Peers -> Seq(Nat)]
    BY <1>4 DEF NothingAnswered
  <2> QED BY <1>1, <2>1, <2>2, EmptyLogFits DEF HistoryInv
<1> QED BY <1>2, <1>3, <1>4 DEF HistoryNext

LEMMA InitStartsHistory == HistoryInit => HistoryInv
<1> SUFFICES ASSUME HistoryInit PROVE HistoryInv
  OBVIOUS
<1>1. \A p \in Peers : answered[p] = <<>> /\ lookups[p] = EmptyWindow
  BY DEF HistoryInit, Init, NothingAnswered
<1>2. answered \in [Peers -> Seq(Nat)]
  BY DEF HistoryInit, NothingAnswered
<1>3. now \in Nat /\ now > LookupWindow
  BY LimitsAssumption DEF HistoryInit, Init, StartTime
<1> QED BY <1>1, <1>2, <1>3, EmptyLogFits DEF HistoryInv

\* No other request, question, notification or restart answers "throttled".
LEMMA OnlyLookupsAreThrottled ==
    ASSUME Next, reply'.type = "throttled"
    PROVE  \E r \in inbox : ThrottleLookup(r)
<1>1. ASSUME NEW r \in inbox, RejectRegister(r) PROVE reply'.type # "throttled"
  <2>1. \E verdict \in {"malformed", "in_use", "too_many", "full"} :
            reply' = [to |-> r.from, type |-> verdict, nameplate |-> r.nameplate]
    BY <1>1 DEF RejectRegister, Answer
  <2> QED BY <2>1
<1>2. ASSUME NEW r \in inbox,
             Refresh(r) \/ Unregister(r) \/ MalformedLookup(r)
      PROVE  reply'.type # "throttled"
  BY <1>2 DEF Refresh, Unregister, MalformedLookup, Answer
<1>3. ASSUME NEW r \in inbox, OpenRoom(r) \/ EvictAndOpen(r)
      PROVE  reply'.type # "throttled"
  <2>1. ASSUME NEW t, NEW s, OpenIn(t, s, r) PROVE reply'.type # "throttled"
    BY <2>1 DEF OpenIn, Answer
  <2> QED BY <1>3, <2>1 DEF OpenRoom, EvictAndOpen
<1>4. ASSUME NEW r \in inbox, AnswerLookup(r) PROVE reply'.type # "throttled"
  <2>1. \E answer \in Answers :
            reply' = [to |-> r.from, type |-> answer, nameplate |-> r.nameplate]
    BY <1>4 DEF AnswerLookup, LookupAnswer, Answer, Answers
  <2> QED BY <2>1 DEF Answers
<1>5. ASSUME ~\E r \in inbox : Handle(r) PROVE reply'.type # "throttled"
  BY <1>5 DEF Next, Receive, HasPeer, Snapshot, Dial, OwnerBack, Hangup, Disconnected,
     OwnerGone, Restart, Tick, NoReply
<1> QED BY <1>1, <1>2, <1>3, <1>4, <1>5 DEF Handle

\* Only a window that counts something holds its peer back, even under pressure.
LEMMA ThrottledHaveWindows ==
    ASSUME TypeOK, NEW p \in Peers, Throttled(p)
    PROVE  /\ lookups[p] # EmptyWindow
           /\ ~(now - lookups[p].start > LookupWindow)
<1> DEFINE old == SweptLookups[p]
           count == CurrentWindow(old).count
<1>1. old \in Window /\ old \in {EmptyWindow, lookups[p]}
  BY SweptWindows
<1>2. count \in Nat
  <2>1. now \in Nat
    BY DEF TypeOK
  <2>2. CurrentWindow(old) \in Window
    BY ONLY <1>1, <2>1, CurrentWindowType
  <2> HIDE DEF old
  <2> QED BY <2>2 DEF Window
<1>3. count >= MaxLookups \/ count > 0
  BY DEF Throttled
<1>4. count > 0
  <2> HIDE DEF count
  <2> QED BY <1>2, <1>3, LimitsAssumption
<1>5. ~(now - old.start > LookupWindow) /\ old.count > 0
  <2>1. CASE now - old.start > LookupWindow
    BY <1>4, <2>1 DEF CurrentWindow
  <2>2. CASE ~(now - old.start > LookupWindow)
    BY <1>4, <2>2 DEF CurrentWindow
  <2> QED BY <2>1, <2>2
<1> HIDE DEF old, count
<1>6. old = lookups[p] /\ lookups[p] # EmptyWindow
  BY <1>1, <1>5 DEF EmptyWindow
<1> QED BY <1>5, <1>6

\* Who is throttled has had an answer that is not older than the window.
LEMMA OnlyAnsweredAreThrottled ==
    TypeOK /\ HistoryInv /\ [HistoryNext]_historyVars =>
        [reply'.type = "throttled" =>
            \E i \in DOMAIN answered[reply'.to] :
                answered[reply'.to][i] >= now - LookupWindow
        ]_historyVars
<1> SUFFICES ASSUME TypeOK, HistoryInv, HistoryNext, reply'.type = "throttled"
             PROVE  \E i \in DOMAIN answered[reply'.to] :
                        answered[reply'.to][i] >= now - LookupWindow
  OBVIOUS
<1>1. Next
  BY DEF HistoryNext, Next
<1>2. PICK r \in inbox : ThrottleLookup(r)
  BY <1>1, OnlyLookupsAreThrottled
<1>3. r.from \in Peers /\ reply'.to = r.from
  BY <1>2 DEF TypeOK, Request, ThrottleLookup, Answer
<1> DEFINE w == lookups[r.from]
           a == answered[r.from]
<1>4. w # EmptyWindow /\ ~(now - w.start > LookupWindow) /\ w \in Window
  BY <1>2, <1>3, ThrottledHaveWindows DEF ThrottleLookup, TypeOK
<1>5. PICK b \in Nat : Counts(a, w, b)
  BY <1>3, <1>4 DEF HistoryInv, LogFits
<1> HIDE DEF w
<1>6. a[b] = w.start /\ b \in DOMAIN a /\ w.start \in Nat /\ now \in Nat
  BY <1>4, <1>5 DEF Counts, Window, TypeOK
<1>7. a[b] >= now - LookupWindow
  BY <1>4, <1>6, LimitsAssumption
<1> QED BY <1>3, <1>6, <1>7

LEMMA HistoryHolds == HistorySpec => [](RegistryInv /\ TypeOK /\ HistoryInv)
<1>1. HistoryInit => RegistryInv /\ TypeOK /\ HistoryInv
  BY InitInvariant, InitStartsHistory DEF HistoryInit, RegistryInv
<1>2. RegistryInv /\ TypeOK /\ HistoryInv /\ [HistoryNext]_historyVars
        => (RegistryInv /\ TypeOK /\ HistoryInv)'
  BY NextKeepsInvariant, HistoryStepsAreSteps, NextKeepsHistory DEF RegistryInv
<1> QED BY <1>1, <1>2, PTL DEF HistorySpec

\* A peer is refused as throttled only within a window of a lookup of its own
\* that was answered, whatever the others' misses, and however the sweep that
\* every request runs interleaves with the windows: someone typing the code they
\* were given gets their first lookup answered.
THEOREM FirstLookupsAreAnswered == HistorySpec => FirstLookupAnswered
BY HistoryHolds, OnlyAnsweredAreThrottled, PTL DEF HistorySpec, FirstLookupAnswered

\* Twice the limit of answered lookups always spans more than a window, although
\* windows are fixed and any request may drop the stale ones: a burst at the end of
\* a window and one at the start of the next share no stretch of that length
\* (lookup and dropExpired).
THEOREM LookupsAreRationed == HistorySpec => []LookupRate
<1>1. HistoryInv => LookupRate
  BY DEF HistoryInv, LogFits, Rate, LookupRate
<1> QED BY <1>1, HistoryHolds, PTL
=============================================================================
