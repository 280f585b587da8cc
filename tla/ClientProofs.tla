---------------------------- MODULE ClientProofs ----------------------------
(***************************************************************************)
(* Proofs about Client for any nodes, streams, channel, user and releases. *)
(***************************************************************************)
EXTENDS Client, UpdaterProofs

-----------------------------------------------------------------------------
(* The program updates itself as Updater says.                             *)

\* Nothing but an update touches what Updater is about.
LEMMA StepsAreUpdates == [Next]_vars => [UpdaterStep]_updaterVars
<1> SUFFICES ASSUME [Next]_vars PROVE [UpdaterStep]_updaterVars
  OBVIOUS
<1>1. CASE UseInterface
  BY <1>1 DEF UseInterface, NoUpdate
<1>2. CASE UseHeadless
  BY <1>2 DEF UseHeadless, NoUpdate
<1>3. CASE Update
  BY <1>3 DEF Update
<1>4. CASE Ended \/ UNCHANGED vars
  BY <1>4 DEF Ended, vars
<1>5. CASE \E n \in Nodes : NodeStep(n)
  BY <1>5 DEF NodeStep, Background, NoUpdate
<1> QED BY <1>1, <1>2, <1>3, <1>4, <1>5 DEF Next

\* The program as a whole implements the updater: its other commands leave what is
\* installed alone.
THEOREM ClientUpdates == Spec => UpdaterSpec
<1>1. Init => UpdaterInit
  BY DEF Init
<1> QED BY <1>1, StepsAreUpdates, PTL DEF Spec, UpdaterSpec

\* What is proved of an update holds of the program.
THEOREM ClientKeepsAProgram ==
    Spec => [](AProgramIsLeft /\ InstalledIsRight)
BY ClientUpdates, UpdateLeavesAProgram, UpdateInstallsTheRightProgram, PTL

-----------------------------------------------------------------------------
(* The channel of a node.                                                  *)

Holds(n, e) == \E i \in DOMAIN events[n] : events[n][i] = e

\* Where goroutines of Host and of Fetch are, those apart that are about to tell how
\* it ended.
EndingPlaces == {"abandoned", "delivered", "saved"}
SenderPlaces ==
    {"off", "announcing", "hosted", "refused", "returned", "reading", "ready", "keeping",
     "lost", "restoring", "back", "shaking", "claimedDirect", "claimedRelayed", "sending",
     "failed", "abandon", "abandoning"}
FetchPlaces ==
    {"called", "failing", "failed", "looking", "lookup", "dialling", "dial", "opening", "watch",
     "waiting", "connectedDirect", "connectedRelayed", "opened", "asking", "asked",
     "receiving", "received", "saved"}
Places == SenderPlaces \cup FetchPlaces \cup EndingPlaces

NodeTypeOK ==
    /\ events \in [Nodes -> Seq(Events)]
    /\ at \in [Nodes -> [Goroutines -> Places]]

RoomTypeOK ==
    /\ room \in [Nodes -> {"none", "open", "closed"}]
    /\ delivered \in [Nodes -> BOOLEAN]

\* The channel holds what it held, and perhaps e.
GainsAtMost(n, e) ==
    /\ events' \in [Nodes -> Seq(Events)]
    /\ \A m \in Nodes : \A f \in Events : Holds(m, f)' => Holds(m, f) \/ (m = n /\ f = e)

LEMMA EmitGains ==
    ASSUME NodeTypeOK, NEW n \in Nodes, NEW e \in Events, Emit(n, e)
    PROVE  GainsAtMost(n, e)
<1>1. CASE UNCHANGED events
  BY <1>1 DEF NodeTypeOK, GainsAtMost, Holds
<1>2. CASE events' = [events EXCEPT ![n] = Append(@, e)]
  <2>1. events' \in [Nodes -> Seq(Events)]
    BY <1>2 DEF NodeTypeOK
  <2>2. \A m \in Nodes \ {n} : events'[m] = events[m]
    BY <1>2 DEF NodeTypeOK
  <2>3. events[n] \in Seq(Events) /\ events'[n] = Append(events[n], e)
    BY <1>2 DEF NodeTypeOK
  <2>4. \A i \in DOMAIN events'[n] :
            events'[n][i] = e \/ (i \in DOMAIN events[n] /\ events'[n][i] = events[n][i])
    BY <2>3
  <2> QED BY <2>1, <2>2, <2>4 DEF GainsAtMost, Holds
<1> QED BY <1>1, <1>2 DEF Emit, Put

LEMMA TellsMoves ==
    ASSUME NodeTypeOK, NEW n \in Nodes, NEW g \in Goroutines, NEW from, NEW e \in Events,
           NEW to \in Places, Tells(n, g, from, e, to)
    PROVE  /\ GainsAtMost(n, e) /\ at[n][g] = from
           /\ at' = [at EXCEPT ![n][g] = to]
           /\ NodeTypeOK'
<1>1. GainsAtMost(n, e)
  BY EmitGains DEF Tells
<1>2. at' = [at EXCEPT ![n][g] = to]
  BY DEF Tells, Goto
<1>3. at' \in [Nodes -> [Goroutines -> Places]]
  BY <1>2 DEF NodeTypeOK
<1> QED BY <1>1, <1>2, <1>3 DEF Tells, NodeTypeOK, GainsAtMost

LEMMA TailShifts ==
    ASSUME NEW S, NEW s \in Seq(S), s # <<>>
    PROVE  /\ 1 \in DOMAIN s /\ Head(s) = s[1]
           /\ \A i \in DOMAIN Tail(s) : i + 1 \in DOMAIN s /\ Tail(s)[i] = s[i + 1]
<1>1. Len(s) \in Nat /\ Len(s) # 0 /\ DOMAIN s = 1..Len(s)
  OBVIOUS
<1>2. Tail(s) \in Seq(S) /\ Len(Tail(s)) = Len(s) - 1
  OBVIOUS
<1>3. DOMAIN Tail(s) = 1..(Len(s) - 1)
  BY <1>2
<1>4. \A i \in 1..(Len(s) - 1) : Tail(s)[i] = s[i + 1]
  OBVIOUS
<1> QED BY <1>1, <1>3, <1>4

\* Who takes the first event leaves the others.
LEMMA TakingGains ==
    ASSUME NodeTypeOK, NEW n \in Nodes, events[n] # <<>>,
           events' = [events EXCEPT ![n] = Tail(@)], NEW e
    PROVE  GainsAtMost(n, e) /\ Holds(n, Head(events[n])) /\ Head(events[n]) \in Events
<1>1. events[n] \in Seq(Events) /\ events'[n] = Tail(events[n])
  BY DEF NodeTypeOK
<1>2. events' \in [Nodes -> Seq(Events)]
  BY <1>1 DEF NodeTypeOK
<1>3. \A m \in Nodes \ {n} : events'[m] = events[m]
  BY DEF NodeTypeOK
<1>4. \A i \in DOMAIN events'[n] :
          i + 1 \in DOMAIN events[n] /\ events'[n][i] = events[n][i + 1]
  BY <1>1, TailShifts
<1>5. 1 \in DOMAIN events[n] /\ Head(events[n]) = events[n][1] /\ events[n][1] \in Events
  BY <1>1, TailShifts
<1> QED BY <1>2, <1>3, <1>4, <1>5 DEF GainsAtMost, Holds

LEMMA MovesMoves ==
    ASSUME NodeTypeOK, NEW n \in Nodes, NEW g \in Goroutines, NEW from,
           NEW to \in Places, Moves(n, g, from, to), NEW e
    PROVE  /\ GainsAtMost(n, e) /\ at[n][g] = from
           /\ at' = [at EXCEPT ![n][g] = to]
           /\ NodeTypeOK'
<1>1. at' = [at EXCEPT ![n][g] = to]
  BY DEF Moves, Goto
<1>2. at' \in [Nodes -> [Goroutines -> Places]]
  BY <1>1 DEF NodeTypeOK
<1> QED BY <1>1, <1>2 DEF Moves, NodeTypeOK, GainsAtMost, Holds

-----------------------------------------------------------------------------
(* The inductive invariant of -send and -receive.                          *)

Alone == command \in {"send", "receive"}

\* What the channel says has happened.
NewsIsTrue(n) ==
    /\ Holds(n, "saved") => delivered[n] \/ at[n]["Fetch"] = "saved"
    /\ Holds(n, "roomLost") => room[n] = "closed"

\* So has what a goroutine is about to say.
TidingsAreTrue(n) ==
    /\ \A s \in Serves : at[n][s] \in {"delivered", "saved"} => delivered[n]
    /\ \A g \in Enders : at[n][g] = "abandoned" => room[n] = "closed"

\* Until Host has announced a room there is none, and nothing that serves one.
HostComesFirst(n) ==
    at[n]["Host"] \in {"off", "announcing", "refused"} =>
        /\ room[n] = "none"
        /\ \A g \in Enders : at[n][g] = "off"

\* A sender fetches nothing and is asked nothing.
SenderOnlySends(n) ==
    command = "send" =>
        /\ at[n]["Fetch"] = "off" /\ ~Holds(n, "manifest")
        /\ pump \notin {"asking", "connecting"}

NothingBeforeConnect(n) ==
    pump \in {"called", "connecting"} => at[n]["Host"] = "off" /\ at[n]["Fetch"] = "off"

AloneInv(n) ==
    /\ NewsIsTrue(n) /\ TidingsAreTrue(n) /\ HostComesFirst(n)
    /\ SenderOnlySends(n) /\ NothingBeforeConnect(n)

HeadlessInv ==
    Alone => NodeTypeOK /\ RoomTypeOK /\ AloneInv(TheNode) /\ ResultIsTrue

LEMMA TheNodeIsANode == TheNode \in Nodes
BY LeastNumber, NodeAssumption DEF TheNode

LEMMA GoroutinesDiffer ==
    /\ Enders \subseteq Goroutines /\ Serves \subseteq Enders
    /\ {"Host", "Fetch", "watchOffer", "keepRoom"} \subseteq Goroutines
    /\ "Host" \notin Enders /\ "Fetch" \notin Enders
    /\ "watchOffer" \in Enders /\ "keepRoom" \in Enders
    /\ "watchOffer" \notin Serves /\ "keepRoom" \notin Serves
BY NodeAssumption DEF Enders, Goroutines

LEMMA PlacesAreNamed ==
    /\ SenderPlaces \subseteq Places /\ FetchPlaces \subseteq Places
    /\ EndingPlaces \subseteq Places /\ SenderPlaces \cap EndingPlaces = {}
    /\ "off" \in SenderPlaces
    /\ EndingPlaces = {"abandoned", "delivered", "saved"}
BY DEF SenderPlaces, FetchPlaces, EndingPlaces, Places

LEMMA HeadlessInitHolds == Init => HeadlessInv
<1> SUFFICES ASSUME Init, Alone
             PROVE  NodeTypeOK /\ RoomTypeOK /\ AloneInv(TheNode) /\ ResultIsTrue
  BY DEF HeadlessInv
<1> USE TheNodeIsANode, GoroutinesDiffer
<1>1. /\ events = [n \in Nodes |-> <<>>]
      /\ at = [n \in Nodes |-> [g \in Goroutines |-> "off"]]
      /\ room = [n \in Nodes |-> "none"] /\ delivered = [n \in Nodes |-> FALSE]
      /\ outcome = "running" /\ pump = "called"
  BY DEF Init, NodeInit, HostingInit, HeadlessInit, Alone
<1>2. NodeTypeOK /\ RoomTypeOK
  <2>1. <<>> \in Seq(Events) /\ "off" \in Places
    BY PlacesAreNamed
  <2>2. events \in [Nodes -> Seq(Events)]
    BY <1>1, <2>1
  <2>3. at \in [Nodes -> [Goroutines -> Places]]
    BY <1>1, <2>1
  <2> QED BY <1>1, <2>1, <2>2, <2>3 DEF NodeTypeOK, RoomTypeOK
<1>3. ~Holds(TheNode, "saved") /\ ~Holds(TheNode, "roomLost") /\ ~Holds(TheNode, "manifest")
  BY <1>1 DEF Holds
<1>4. AloneInv(TheNode)
  BY <1>1, <1>3 DEF AloneInv, NewsIsTrue, TidingsAreTrue, HostComesFirst, SenderOnlySends,
       NothingBeforeConnect
<1> QED BY <1>1, <1>2, <1>4 DEF ResultIsTrue

-----------------------------------------------------------------------------
(* Steps of a node.                                                        *)

\* A step of a node leaves the program running.
InBackground ==
    /\ Alone /\ HeadlessInv /\ outcome = "running"
    /\ UNCHANGED <<command, pump, outcome>>

\* A sender's goroutine that goes on, and says nothing of an end, disturbs nothing.
LEMMA EnderGoesOn ==
    ASSUME InBackground, NEW n \in Nodes, NEW g \in Enders,
           at[n][g] # "off" \/ room[n] = "open",
           NEW to \in SenderPlaces,
           at' = [at EXCEPT ![n][g] = to], NodeTypeOK',
           NEW e \in Events \ {"saved", "roomLost", "manifest"}, GainsAtMost(n, e),
           UNCHANGED <<room, delivered>>
    PROVE  HeadlessInv'
<1> USE TheNodeIsANode, GoroutinesDiffer, PlacesAreNamed
<1>1. NodeTypeOK /\ AloneInv(TheNode) /\ ResultIsTrue' /\ RoomTypeOK'
  BY DEF InBackground, HeadlessInv, ResultIsTrue, RoomTypeOK
<1>2. \A f \in {"saved", "roomLost", "manifest"} : Holds(TheNode, f)' => Holds(TheNode, f)
  BY DEF GainsAtMost, Events
<1>3. \A h \in Goroutines : at'[TheNode][h] = IF n = TheNode /\ h = g THEN to ELSE at[TheNode][h]
  BY <1>1 DEF NodeTypeOK
<1>4. AloneInv(TheNode)'
  BY <1>1, <1>2, <1>3 DEF AloneInv, NewsIsTrue, TidingsAreTrue, HostComesFirst, SenderOnlySends,
       NothingBeforeConnect, InBackground
<1> QED BY <1>1, <1>4 DEF HeadlessInv

\* So does a fetch.
LEMMA FetchGoesOn ==
    ASSUME InBackground, NEW n \in Nodes, at[n]["Fetch"] \notin {"off", "saved"},
           NEW to \in Places, at' = [at EXCEPT ![n]["Fetch"] = to], NodeTypeOK',
           NEW e \in Events \ {"roomLost"}, GainsAtMost(n, e), e = "saved" => to = "saved",
           UNCHANGED <<room, delivered>>
    PROVE  HeadlessInv'
<1> USE TheNodeIsANode, GoroutinesDiffer, PlacesAreNamed
<1>1. NodeTypeOK /\ AloneInv(TheNode) /\ ResultIsTrue' /\ RoomTypeOK'
  BY DEF InBackground, HeadlessInv, ResultIsTrue, RoomTypeOK
<1>2. /\ Holds(TheNode, "roomLost")' => Holds(TheNode, "roomLost")
      /\ Holds(TheNode, "saved")' =>
            Holds(TheNode, "saved") \/ (n = TheNode /\ to = "saved")
      /\ n # TheNode /\ Holds(TheNode, "manifest")' => Holds(TheNode, "manifest")
  BY DEF GainsAtMost, Events
<1>3. \A h \in Goroutines :
          at'[TheNode][h] = IF n = TheNode /\ h = "Fetch" THEN to ELSE at[TheNode][h]
  BY <1>1 DEF NodeTypeOK
<1>4. AloneInv(TheNode)'
  BY <1>1, <1>2, <1>3 DEF AloneInv, NewsIsTrue, TidingsAreTrue, HostComesFirst, SenderOnlySends,
       NothingBeforeConnect, InBackground
<1> QED BY <1>1, <1>4 DEF HeadlessInv

\* A node that only says something, and no end.
LEMMA SomethingIsSaid ==
    ASSUME InBackground, NEW n \in Nodes, UNCHANGED <<at, room, delivered>>,
           NEW e \in Events \ {"saved", "roomLost", "manifest"}, GainsAtMost(n, e)
    PROVE  HeadlessInv'
<1> USE TheNodeIsANode, GoroutinesDiffer
<1>1. /\ NodeTypeOK /\ AloneInv(TheNode) /\ ResultIsTrue' /\ RoomTypeOK'
      /\ NodeTypeOK'
  BY DEF InBackground, HeadlessInv, ResultIsTrue, RoomTypeOK, NodeTypeOK, GainsAtMost
<1>2. \A f \in {"saved", "roomLost", "manifest"} : Holds(TheNode, f)' => Holds(TheNode, f)
  BY DEF GainsAtMost, Events
<1>3. AloneInv(TheNode)'
  BY <1>1, <1>2 DEF AloneInv, NewsIsTrue, TidingsAreTrue, HostComesFirst, SenderOnlySends,
       NothingBeforeConnect, InBackground
<1> QED BY <1>1, <1>3 DEF HeadlessInv

LEMMA HostHolds == ASSUME InBackground, NEW n \in Nodes, Host(n) PROVE HeadlessInv'
<1> USE TheNodeIsANode, GoroutinesDiffer
<1>1. NodeTypeOK /\ RoomTypeOK /\ AloneInv(TheNode) /\ ResultIsTrue'
  BY DEF InBackground, HeadlessInv, ResultIsTrue
<1>2. UNCHANGED events /\ UNCHANGED delivered /\ at[n]["Host"] = "announcing"
  BY DEF Host
<1>3. \A f : Holds(TheNode, f)' <=> Holds(TheNode, f)
  BY <1>2 DEF Holds
<1>4. CASE /\ room' = [room EXCEPT ![n] = "open"]
           /\ at' = [at EXCEPT ![n]["Host"] = "hosted", ![n]["watchOffer"] = "reading",
                               ![n]["keepRoom"] = "keeping"]
  <2>1. at' \in [Nodes -> [Goroutines -> Places]] /\ RoomTypeOK'
    <3>1. {"hosted", "reading", "keeping"} \subseteq Places
      BY PlacesAreNamed DEF SenderPlaces
    <3> QED BY <1>1, <1>2, <1>4, <3>1 DEF NodeTypeOK, RoomTypeOK
  <2>2. CASE n # TheNode
    <3>1. at'[TheNode] = at[TheNode] /\ room'[TheNode] = room[TheNode]
      BY <1>1, <1>4, <2>2 DEF NodeTypeOK, RoomTypeOK
    <3>2. AloneInv(TheNode)'
      BY <1>1, <1>2, <1>3, <3>1 DEF AloneInv, NewsIsTrue, TidingsAreTrue, HostComesFirst,
           SenderOnlySends, NothingBeforeConnect, InBackground
    <3> QED BY <1>1, <1>2, <2>1, <3>2 DEF HeadlessInv, NodeTypeOK
  <2>3. CASE n = TheNode
    <3>1. \A h \in Goroutines :
              at'[n][h] = CASE h = "Host" -> "hosted" [] h = "watchOffer" -> "reading"
                            [] h = "keepRoom" -> "keeping" [] OTHER -> at[n][h]
      BY <1>1, <1>4 DEF NodeTypeOK
    <3>2. room'[n] = "open"
      BY <1>1, <1>4 DEF RoomTypeOK
    <3>3. room[n] = "none" /\ \A g \in Enders : at[n][g] = "off"
      BY <1>1, <1>2, <2>3 DEF AloneInv, HostComesFirst
    <3>4. ~Holds(n, "roomLost")
      BY <1>1, <2>3, <3>3 DEF AloneInv, NewsIsTrue
    <3>5. \A h \in Enders : at'[n][h] \in {"reading", "keeping", "off"}
      BY <3>1, <3>3
    <3>6. at'[n]["Host"] = "hosted" /\ at'[n]["Fetch"] = at[n]["Fetch"]
      BY <3>1, NodeAssumption
    <3>7. AloneInv(TheNode)'
      BY <1>1, <1>2, <1>3, <2>3, <3>2, <3>4, <3>5, <3>6
         DEF AloneInv, NewsIsTrue, TidingsAreTrue, HostComesFirst, SenderOnlySends,
             NothingBeforeConnect, InBackground
    <3> QED BY <1>1, <1>2, <2>1, <3>7 DEF HeadlessInv, NodeTypeOK
  <2> QED BY <2>2, <2>3
<1>5. CASE Goto(n, "Host", "refused") /\ UNCHANGED room
  <2>1. at' \in [Nodes -> [Goroutines -> Places]] /\ RoomTypeOK'
    <3>1. "refused" \in Places
      BY PlacesAreNamed DEF SenderPlaces
    <3> QED BY <1>1, <1>2, <1>5, <3>1 DEF NodeTypeOK, RoomTypeOK, Goto
  <2>2. \A h \in Goroutines :
            at'[TheNode][h] = IF n = TheNode /\ h = "Host" THEN "refused" ELSE at[TheNode][h]
    BY <1>1, <1>5 DEF NodeTypeOK, Goto
  <2>3. AloneInv(TheNode)'
    BY <1>1, <1>2, <1>3, <1>5, <2>2
       DEF AloneInv, NewsIsTrue, TidingsAreTrue, HostComesFirst, SenderOnlySends,
           NothingBeforeConnect, InBackground
  <2> QED BY <1>1, <1>2, <2>1, <2>3 DEF HeadlessInv, NodeTypeOK
<1> QED BY <1>4, <1>5 DEF Host

\* What a goroutine of a sender does that ends nothing.
LEMMA SenderWorks ==
    ASSUME InBackground, NEW n \in Nodes,
           \/ ReadFiles(n) \/ WatchOffer(n) \/ KeepRoom(n)
           \/ \E s \in Serves : Serve(n, s) \/ Reject(n, s) \/ Claim(n, s) \/ Greet(n, s)
    PROVE  HeadlessInv'
<1> USE GoroutinesDiffer
<1>1. NodeTypeOK
  BY DEF InBackground, HeadlessInv
<1>2. "notice" \in Events /\ "preparing" \in Events /\ "direct" \in Events /\ "relayed" \in Events
  BY DEF Events
<1>3. ASSUME NEW g \in Enders, NEW from, from # "off" \/ room[n] = "open",
             NEW to \in SenderPlaces, NEW e \in {"notice", "preparing", "direct", "relayed"},
             Tells(n, g, from, e, to) \/ Moves(n, g, from, to),
             UNCHANGED <<room, delivered>>
      PROVE  HeadlessInv'
  <2>1. /\ at' = [at EXCEPT ![n][g] = to] /\ NodeTypeOK' /\ GainsAtMost(n, e)
        /\ at[n][g] = from
    <3>1. to \in Places /\ e \in Events /\ g \in Goroutines
      BY <1>2, PlacesAreNamed
    <3>2. CASE Tells(n, g, from, e, to)
      <4>1. GainsAtMost(n, e) /\ NodeTypeOK'
        BY <1>1, <3>1, <3>2, TellsMoves
      <4> QED BY <3>2, <4>1 DEF Tells, Goto
    <3>3. CASE Moves(n, g, from, to)
      BY <1>1, <3>1, <3>3, MovesMoves
    <3> QED BY <1>3, <3>2, <3>3
  <2> QED BY <1>2, <1>3, <2>1, EnderGoesOn
<1>4. CASE ReadFiles(n)
  <2>1. /\ Tells(n, "watchOffer", "reading", "preparing", "reading")
        /\ UNCHANGED <<room, delivered>>
    BY <1>4 DEF ReadFiles, SameRoom, hostingVars
  <2>2. "reading" \in SenderPlaces
    BY DEF SenderPlaces
  <2> QED BY <1>3, <2>1, <2>2
<1>5. CASE WatchOffer(n)
  <2>1. PICK from \in {"reading", "ready"}, to \in {"ready", "off", "abandon"} :
            \/ Tells(n, "watchOffer", from, "notice", to)
            \/ Moves(n, "watchOffer", from, to)
    BY <1>5 DEF WatchOffer
  <2>2. UNCHANGED <<room, delivered>>
    BY <1>5 DEF WatchOffer, SameRoom, hostingVars
  <2>3. to \in SenderPlaces /\ from # "off"
    BY DEF SenderPlaces
  <2> QED BY <1>3, <2>1, <2>2, <2>3
<1>6. CASE KeepRoom(n)
  <2>1. PICK from \in {"keeping", "lost", "restoring", "back"},
             to \in {"keeping", "lost", "restoring", "back", "off", "abandon"} :
            \/ Tells(n, "keepRoom", from, "notice", to)
            \/ Moves(n, "keepRoom", from, to)
    BY <1>6 DEF KeepRoom
  <2>2. UNCHANGED <<room, delivered>>
    BY <1>6 DEF KeepRoom, SameRoom, hostingVars
  <2>3. to \in SenderPlaces /\ from # "off"
    BY DEF SenderPlaces
  <2> QED BY <1>3, <2>1, <2>2, <2>3
<1>7. ASSUME NEW s \in Serves, Serve(n, s) \/ Reject(n, s) \/ Claim(n, s) \/ Greet(n, s)
      PROVE  HeadlessInv'
  <2>1. PICK from \in {"off", "shaking", "claimedDirect", "claimedRelayed"},
             to \in {"shaking", "off", "abandon", "claimedDirect", "claimedRelayed", "sending"},
             e \in {"notice", "direct", "relayed"} :
            /\ Tells(n, s, from, e, to) \/ Moves(n, s, from, to)
            /\ from # "off" \/ room[n] = "open"
    BY <1>7 DEF Serve, Reject, Claim, Greet
  <2>2. UNCHANGED <<room, delivered>>
    BY <1>7 DEF Serve, Reject, Claim, Greet, SameRoom, hostingVars
  <2>3. to \in SenderPlaces
    BY DEF SenderPlaces
  <2> QED BY <1>3, <2>1, <2>2, <2>3
<1> QED BY <1>4, <1>5, <1>6, <1>7

\* A room that is abandoned is closed before anybody hears of it.
LEMMA AbandonHolds ==
    ASSUME InBackground, NEW n \in Nodes, NEW g \in Enders, Abandon(n, g)
    PROVE  HeadlessInv'
<1> USE TheNodeIsANode, GoroutinesDiffer
<1>1. NodeTypeOK /\ RoomTypeOK /\ AloneInv(TheNode) /\ ResultIsTrue' /\ UNCHANGED delivered
  BY DEF InBackground, HeadlessInv, ResultIsTrue, Abandon
<1>2. {"abandoning", "off"} \subseteq SenderPlaces /\ "abandoned" \in Places
      /\ "notice" \in Events \ {"saved", "roomLost", "manifest"} /\ "roomLost" \in Events
  BY PlacesAreNamed DEF SenderPlaces, Events
<1>3. CASE \E to \in {"abandoning", "off"} :
              Moves(n, g, "abandon", to) /\ UNCHANGED room
  <2>1. PICK to \in {"abandoning", "off"} : Moves(n, g, "abandon", to) /\ UNCHANGED room
    BY <1>3
  <2>2. /\ at' = [at EXCEPT ![n][g] = to] /\ NodeTypeOK' /\ GainsAtMost(n, "notice")
        /\ at[n][g] = "abandon"
    BY <1>1, <1>2, <2>1, MovesMoves, PlacesAreNamed
  <2> QED BY <1>1, <1>2, <2>1, <2>2, EnderGoesOn
<1>4. CASE Moves(n, g, "abandoning", "abandoned") /\ CloseRoom(n)
  <2>1. /\ at' = [at EXCEPT ![n][g] = "abandoned"] /\ NodeTypeOK' /\ at[n][g] = "abandoning"
        /\ UNCHANGED events
    BY <1>1, <1>2, <1>4, MovesMoves DEF Moves
  <2>2. /\ \A m \in Nodes : room'[m] = IF m = n THEN "closed" ELSE room[m]
        /\ RoomTypeOK'
    BY <1>1, <1>4 DEF CloseRoom, RoomTypeOK
  <2>3. \A h \in Goroutines :
            at'[TheNode][h] = IF n = TheNode /\ h = g THEN "abandoned" ELSE at[TheNode][h]
    BY <1>1, <2>1 DEF NodeTypeOK
  <2>4. \A f : Holds(TheNode, f)' <=> Holds(TheNode, f)
    BY <2>1 DEF Holds
  <2>5. AloneInv(TheNode)'
    BY <1>1, <2>1, <2>2, <2>3, <2>4
       DEF AloneInv, NewsIsTrue, TidingsAreTrue, HostComesFirst, SenderOnlySends,
           NothingBeforeConnect, InBackground
  <2> QED BY <1>1, <2>1, <2>2, <2>5 DEF HeadlessInv
<1>5. CASE Tells(n, g, "abandoned", "roomLost", "off") /\ UNCHANGED room
  <2>1. /\ at' = [at EXCEPT ![n][g] = "off"] /\ NodeTypeOK' /\ GainsAtMost(n, "roomLost")
        /\ at[n][g] = "abandoned"
    BY <1>1, <1>2, <1>5, TellsMoves, PlacesAreNamed
  <2>2. \A h \in Goroutines :
            at'[TheNode][h] = IF n = TheNode /\ h = g THEN "off" ELSE at[TheNode][h]
    BY <1>1, <2>1 DEF NodeTypeOK
  <2>3. /\ Holds(TheNode, "saved")' => Holds(TheNode, "saved")
        /\ Holds(TheNode, "manifest")' => Holds(TheNode, "manifest")
        /\ Holds(TheNode, "roomLost")' => Holds(TheNode, "roomLost") \/ n = TheNode
    BY <2>1 DEF GainsAtMost, Events
  <2>4. AloneInv(TheNode)'
    BY <1>1, <1>5, <2>1, <2>2, <2>3
       DEF AloneInv, NewsIsTrue, TidingsAreTrue, HostComesFirst, SenderOnlySends,
           NothingBeforeConnect, InBackground
  <2> QED BY <1>1, <1>5, <2>1, <2>4 DEF HeadlessInv, RoomTypeOK
<1> QED BY <1>3, <1>4, <1>5 DEF Abandon

\* A delivery is a fact before the room is closed and before it is told.
LEMMA SendEndsHolds ==
    ASSUME InBackground, NEW n \in Nodes, NEW s \in Serves, SendEnds(n, s)
    PROVE  HeadlessInv'
<1> USE TheNodeIsANode, GoroutinesDiffer
<1>1. NodeTypeOK /\ RoomTypeOK /\ AloneInv(TheNode) /\ ResultIsTrue'
  BY DEF InBackground, HeadlessInv, ResultIsTrue
<1>2. /\ {"abandon", "failed", "off"} \subseteq SenderPlaces
      /\ {"abandon", "failed", "off", "delivered", "saved"} \subseteq Places
      /\ {"notice", "failed"} \subseteq Events \ {"saved", "roomLost", "manifest"}
      /\ "saved" \in Events
  BY PlacesAreNamed DEF SenderPlaces, Events
<1>3. CASE \E to \in {"abandon", "failed"} :
              Moves(n, s, "sending", to) /\ UNCHANGED <<room, delivered>>
  <2>1. PICK to \in {"abandon", "failed"} :
            Moves(n, s, "sending", to) /\ UNCHANGED <<room, delivered>>
    BY <1>3
  <2>2. /\ at' = [at EXCEPT ![n][s] = to] /\ NodeTypeOK' /\ GainsAtMost(n, "notice")
        /\ at[n][s] = "sending"
    BY <1>1, <1>2, <2>1, MovesMoves
  <2> QED BY <1>1, <1>2, <2>1, <2>2, EnderGoesOn
<1>4. CASE Tells(n, s, "failed", "failed", "off") /\ UNCHANGED <<room, delivered>>
  <2>1. /\ at' = [at EXCEPT ![n][s] = "off"] /\ NodeTypeOK' /\ GainsAtMost(n, "failed")
        /\ at[n][s] = "failed"
    <3>1. s \in Goroutines /\ "off" \in Places /\ "failed" \in Events
      BY <1>2
    <3>2. GainsAtMost(n, "failed") /\ NodeTypeOK'
      BY <1>1, <1>4, <3>1, TellsMoves
    <3> QED BY <1>4, <3>2 DEF Tells, Goto
  <2> QED BY <1>1, <1>2, <1>4, <2>1, EnderGoesOn
<1>5. ASSUME NEW from \in {"sending", "delivered"}, NEW to \in {"delivered", "saved"},
             Moves(n, s, from, to),
             \/ delivered' = [delivered EXCEPT ![n] = TRUE] /\ UNCHANGED room
             \/ from = "delivered" /\ CloseRoom(n) /\ UNCHANGED delivered
      PROVE  HeadlessInv'
  <2>1. /\ at' = [at EXCEPT ![n][s] = to] /\ NodeTypeOK' /\ at[n][s] = from
        /\ UNCHANGED events
    BY <1>1, <1>2, <1>5, MovesMoves DEF Moves
  <2>2. /\ RoomTypeOK'
        /\ \A m \in Nodes :
              /\ delivered[m] => delivered'[m]
              /\ room'[m] = room[m] \/ (m = n /\ room'[m] = "closed")
    BY <1>1, <1>5 DEF CloseRoom, RoomTypeOK
  <2>3. n = TheNode => delivered'[n]
    BY <1>1, <1>5, <2>1 DEF RoomTypeOK, AloneInv, TidingsAreTrue
  <2>4. \A h \in Goroutines :
            at'[TheNode][h] = IF n = TheNode /\ h = s THEN to ELSE at[TheNode][h]
    BY <1>1, <2>1 DEF NodeTypeOK
  <2>5. \A f : Holds(TheNode, f)' <=> Holds(TheNode, f)
    BY <2>1 DEF Holds
  <2>6. AloneInv(TheNode)'
    BY <1>1, <2>1, <2>2, <2>3, <2>4, <2>5
       DEF AloneInv, NewsIsTrue, TidingsAreTrue, HostComesFirst, SenderOnlySends,
           NothingBeforeConnect, InBackground
  <2> QED BY <1>1, <2>1, <2>2, <2>6 DEF HeadlessInv
<1>6. CASE Tells(n, s, "saved", "saved", "off") /\ UNCHANGED <<room, delivered>>
  <2>1. /\ at' = [at EXCEPT ![n][s] = "off"] /\ NodeTypeOK' /\ GainsAtMost(n, "saved")
        /\ at[n][s] = "saved"
    <3>1. s \in Goroutines /\ "off" \in Places
      BY <1>2
    <3>2. GainsAtMost(n, "saved") /\ NodeTypeOK'
      BY <1>1, <1>2, <1>6, <3>1, TellsMoves
    <3> QED BY <1>6, <3>2 DEF Tells, Goto
  <2>2. \A h \in Goroutines :
            at'[TheNode][h] = IF n = TheNode /\ h = s THEN "off" ELSE at[TheNode][h]
    BY <1>1, <2>1 DEF NodeTypeOK
  <2>3. /\ Holds(TheNode, "roomLost")' => Holds(TheNode, "roomLost")
        /\ Holds(TheNode, "manifest")' => Holds(TheNode, "manifest")
        /\ Holds(TheNode, "saved")' => Holds(TheNode, "saved") \/ n = TheNode
    BY <2>1 DEF GainsAtMost, Events
  <2>4. AloneInv(TheNode)'
    BY <1>1, <1>6, <2>1, <2>2, <2>3
       DEF AloneInv, NewsIsTrue, TidingsAreTrue, HostComesFirst, SenderOnlySends,
           NothingBeforeConnect, InBackground
  <2> QED BY <1>1, <1>6, <2>1, <2>4 DEF HeadlessInv, RoomTypeOK
<1> QED BY <1>3, <1>4, <1>5, <1>6 DEF SendEnds, SameRoom, hostingVars

\* Progress, upgrades and the hole puncher say nothing of an end.
LEMMA OthersHold ==
    ASSUME InBackground, NEW n \in Nodes,
           \/ \E s \in Serves : SendProgress(n, s)
           \/ ReceiveProgress(n) \/ Trace(n) \/ PunchesThrough(n)
           \/ \E s \in Streams : WatchUpgrade(n, s),
           UNCHANGED <<room, delivered>>
    PROVE  HeadlessInv'
<1>1. NodeTypeOK
  BY DEF InBackground, HeadlessInv
<1>2. {"progress", "direct"} \subseteq Events \ {"saved", "roomLost", "manifest"}
  BY DEF Events
<1>3. UNCHANGED at
  BY DEF SendProgress, ReceiveProgress, Trace, PunchesThrough, WatchUpgrade, nodeVars
<1>4. \/ \E e \in {"progress", "direct"} : Emit(n, e)
      \/ UNCHANGED events
  BY DEF SendProgress, ReceiveProgress, Trace, PunchesThrough, WatchUpgrade, nodeVars,
       EmitProgress, Emit
<1>5. \E e \in {"progress", "direct"} : GainsAtMost(n, e)
  <2>1. CASE UNCHANGED events
    BY <1>1, <2>1 DEF NodeTypeOK, GainsAtMost, Holds
  <2>2. ASSUME NEW e \in {"progress", "direct"}, Emit(n, e)
        PROVE  GainsAtMost(n, e)
    BY <1>1, <1>2, <2>2, EmitGains
  <2> QED BY <1>4, <2>1, <2>2
<1> QED BY <1>2, <1>3, <1>5, SomethingIsSaid

\* A fetch says that the files are saved when they are, and it never starts again.
LEMMA FetchStepHolds ==
    ASSUME InBackground, NEW n \in Nodes, FetchStep(n) \/ WaitTimesOut(n),
           UNCHANGED <<room, delivered>>
    PROVE  HeadlessInv'
<1>1. NodeTypeOK
  BY DEF InBackground, HeadlessInv
<1> DEFINE Quiet == {"notice", "direct", "relayed", "manifest", "preparing", "failed"}
<1>2. Quiet \subseteq Events \ {"roomLost", "saved"} /\ "saved" \in Events
  BY DEF Events
<1>3. /\ FetchPlaces \subseteq Places /\ "Fetch" \in Goroutines /\ "saved" \in Places
      /\ "off" \notin FetchPlaces /\ "failed" \in FetchPlaces
  BY PlacesAreNamed, GoroutinesDiffer DEF FetchPlaces
<1>4. ASSUME NEW from, NEW to \in FetchPlaces, from \notin {"off", "saved"},
             Moves(n, "Fetch", from, to)
      PROVE  HeadlessInv'
  <2>1. /\ at' = [at EXCEPT ![n]["Fetch"] = to] /\ NodeTypeOK' /\ GainsAtMost(n, "notice")
        /\ at[n]["Fetch"] = from
    BY <1>1, <1>3, <1>4, MovesMoves
  <2> QED BY <1>2, <1>3, <1>4, <2>1, FetchGoesOn
<1>5. ASSUME NEW from, NEW to \in FetchPlaces, from \notin {"off", "saved"},
             NEW e \in Quiet, Tells(n, "Fetch", from, e, to)
      PROVE  HeadlessInv'
  <2>1. GainsAtMost(n, e) /\ NodeTypeOK'
    BY <1>1, <1>2, <1>3, <1>5, TellsMoves
  <2>2. at' = [at EXCEPT ![n]["Fetch"] = to] /\ at[n]["Fetch"] = from
    BY <1>5 DEF Tells, Goto
  <2> QED BY <1>2, <1>3, <1>5, <2>1, <2>2, FetchGoesOn
<1>6. CASE Tells(n, "Fetch", "received", "saved", "saved")
  <2>1. GainsAtMost(n, "saved") /\ NodeTypeOK'
    BY <1>1, <1>2, <1>3, <1>6, TellsMoves
  <2>2. at' = [at EXCEPT ![n]["Fetch"] = "saved"] /\ at[n]["Fetch"] = "received"
    BY <1>6 DEF Tells, Goto
  <2> QED BY <1>2, <1>3, <2>1, <2>2, FetchGoesOn DEF Events
<1>7. \/ \E from \in FetchPlaces \ {"saved"}, to \in FetchPlaces :
            Moves(n, "Fetch", from, to)
      \/ \E from \in FetchPlaces \ {"saved"}, to \in FetchPlaces, e \in Quiet :
            Tells(n, "Fetch", from, e, to)
      \/ Tells(n, "Fetch", "received", "saved", "saved")
  <2>1. CASE FetchStarts(n)
    BY <2>1 DEF FetchStarts, FetchPlaces
  <2>2. CASE Connect(n) \/ Watch(n)
    BY <2>2 DEF Connect, Watch, FetchPlaces
  <2>3. CASE WaitForDirect(n) \/ WaitTimesOut(n)
    BY <2>3 DEF WaitForDirect, WaitTimesOut, EndWait, FetchPlaces
  <2>4. CASE OpenStream(n)
    BY <2>4 DEF OpenStream, FetchPlaces
  <2>5. CASE Confirm(n) \/ Receive(n) \/ FetchEnds(n)
    BY <2>5 DEF Confirm, Receive, FetchEnds, FetchPlaces
  <2> QED BY <2>1, <2>2, <2>3, <2>4, <2>5 DEF FetchStep
<1> HIDE DEF Quiet
<1> QED BY <1>3, <1>4, <1>5, <1>6, <1>7

LEMMA NodeStepHolds ==
    ASSUME Alone, HeadlessInv, NEW n \in Nodes, NodeStep(n)
    PROVE  HeadlessInv'
<1>1. InBackground
  <2>1. ASSUME HostingStep(n) PROVE UNCHANGED outcome
    BY <2>1 DEF HostingStep, Host, ReadFiles, WatchOffer, KeepRoom, Abandon, Serve, Reject,
         Claim, Greet, SendProgress, SendEnds, SameNode
  <2>2. ASSUME ReceivingStep(n) PROVE UNCHANGED outcome
    BY <2>2 DEF ReceivingStep, FetchStep, FetchStarts, Connect, Watch, WaitForDirect,
         OpenStream, Confirm, Receive, FetchEnds, WaitTimesOut, EndWait, Trace,
         ReceiveProgress, SameSession, nodeVars
  <2>3. ASSUME NEW s \in Streams, PunchesThrough(n) \/ WatchUpgrade(n, s)
        PROVE  UNCHANGED outcome
    BY <2>3 DEF PunchesThrough, WatchUpgrade
  <2> QED BY <2>1, <2>2, <2>3 DEF InBackground, NodeStep, Background, NoUpdate, Streams
<1>2. CASE HostingStep(n)
  <2>1. CASE Host(n)
    BY <1>1, <2>1, HostHolds
  <2>2. CASE \/ ReadFiles(n) \/ WatchOffer(n) \/ KeepRoom(n)
             \/ \E s \in Serves : Serve(n, s) \/ Reject(n, s) \/ Claim(n, s) \/ Greet(n, s)
    BY <1>1, <2>2, SenderWorks
  <2>3. CASE \E g \in Enders : Abandon(n, g)
    BY <1>1, <2>3, AbandonHolds
  <2>4. CASE \E s \in Serves : SendProgress(n, s)
    <3>1. UNCHANGED <<room, delivered>>
      BY <2>4 DEF SendProgress, SameRoom, hostingVars
    <3> QED BY <1>1, <2>4, <3>1, OthersHold
  <2>5. CASE \E s \in Serves : SendEnds(n, s)
    BY <1>1, <2>5, SendEndsHolds
  <2> QED BY <1>2, <2>1, <2>2, <2>3, <2>4, <2>5 DEF HostingStep
<1>3. CASE ReceivingStep(n) /\ UNCHANGED hostingVars
  BY <1>1, <1>3, FetchStepHolds, OthersHold DEF ReceivingStep, hostingVars
<1>4. CASE PunchesThrough(n) /\ UNCHANGED hostingVars
  BY <1>1, <1>4, OthersHold DEF hostingVars
<1>5. CASE \E s \in Streams : WatchUpgrade(n, s) /\ UNCHANGED hostingVars
  BY <1>1, <1>5, OthersHold DEF hostingVars
<1> QED BY <1>2, <1>3, <1>4, <1>5 DEF NodeStep, Background

-----------------------------------------------------------------------------
(* Steps of Send, Receive and pump.                                        *)

\* pump calls Host or Fetch, hears of Host's end, or nothing goes anywhere.
LEMMA CallHolds ==
    ASSUME Alone, HeadlessInv, outcome = "running", UNCHANGED command,
           \/ SendConnects(command) \/ HostReturned \/ ReceiveCalled(command)
           \/ ReceiveConnects
    PROVE  HeadlessInv'
<1> USE TheNodeIsANode, GoroutinesDiffer
<1>1. NodeTypeOK /\ RoomTypeOK /\ AloneInv(TheNode)
  BY DEF HeadlessInv
<1>2. UNCHANGED <<events, room, delivered, interrupted>>
  BY DEF SendConnects, HostReturned, ReceiveCalled, ReceiveConnects, SameBusiness, hostingVars,
         Moves
<1>3. \A f : Holds(TheNode, f)' <=> Holds(TheNode, f)
  BY <1>2 DEF Holds
<1>4. {"announcing", "called", "returned"} \subseteq Places
  BY DEF Places, SenderPlaces, FetchPlaces
<1>5. RoomTypeOK'
  BY <1>1, <1>2 DEF RoomTypeOK
<1>6. CASE SendConnects(command)
  <2>1. CASE Goto(TheNode, "Host", "announcing") /\ pump' = "hosting" /\ UNCHANGED outcome
    <3>1. at' \in [Nodes -> [Goroutines -> Places]]
      BY <1>1, <1>4, <2>1 DEF NodeTypeOK, Goto
    <3>2. \A h \in Goroutines :
              at'[TheNode][h] = IF h = "Host" THEN "announcing" ELSE at[TheNode][h]
      BY <1>1, <2>1 DEF NodeTypeOK, Goto
    <3>3. at[TheNode]["Host"] = "off"
      BY <1>1, <1>6 DEF AloneInv, NothingBeforeConnect, SendConnects
    <3>4. AloneInv(TheNode)'
      BY <1>1, <1>2, <1>3, <2>1, <3>2, <3>3
         DEF AloneInv, NewsIsTrue, TidingsAreTrue, HostComesFirst, SenderOnlySends,
             NothingBeforeConnect
    <3> QED BY <1>1, <1>2, <1>5, <2>1, <3>1, <3>4 DEF HeadlessInv, NodeTypeOK, ResultIsTrue
  <2>2. CASE Return("error") /\ UNCHANGED at
    <3>1. room[TheNode] = "none"
      BY <1>1, <1>6 DEF AloneInv, NothingBeforeConnect, HostComesFirst, SendConnects
    <3>2. AloneInv(TheNode)'
      BY <1>1, <1>2, <1>3, <2>2
         DEF AloneInv, NewsIsTrue, TidingsAreTrue, HostComesFirst, SenderOnlySends,
             NothingBeforeConnect, Return
    <3> QED BY <1>1, <1>2, <1>5, <2>2, <3>1, <3>2
         DEF HeadlessInv, NodeTypeOK, ResultIsTrue, Return
  <2> QED BY <1>6, <2>1, <2>2 DEF SendConnects
<1>7. CASE HostReturned
  <2>1. at' = [at EXCEPT ![TheNode]["Host"] = "returned"]
        /\ at[TheNode]["Host"] \in {"hosted", "refused"}
    BY <1>7 DEF HostReturned, Moves, Goto
  <2>2. at' \in [Nodes -> [Goroutines -> Places]]
    BY <1>1, <1>4, <2>1 DEF NodeTypeOK
  <2>3. \A h \in Goroutines :
            at'[TheNode][h] = IF h = "Host" THEN "returned" ELSE at[TheNode][h]
    BY <1>1, <2>1 DEF NodeTypeOK
  <2>4. pump' \in {"pumping", "returned"}
    BY <1>7 DEF HostReturned, Return
  <2>5. AloneInv(TheNode)'
    BY <1>1, <1>2, <1>3, <2>1, <2>3, <2>4
       DEF AloneInv, NewsIsTrue, TidingsAreTrue, HostComesFirst, SenderOnlySends,
           NothingBeforeConnect
  <2>6. \/ UNCHANGED outcome
        \/ outcome' = "error" /\ room[TheNode] = "none"
    BY <1>1, <1>7 DEF HostReturned, Return, Moves, AloneInv, HostComesFirst
  <2> QED BY <1>1, <1>2, <1>5, <2>2, <2>5, <2>6 DEF HeadlessInv, NodeTypeOK, ResultIsTrue
<1>8. CASE ReceiveCalled(command)
  <2>1. UNCHANGED at /\ command = "receive"
    BY <1>8 DEF ReceiveCalled
  <2>2. outcome' \in {"running", "error"}
    BY <1>8 DEF ReceiveCalled, Return
  <2>3. AloneInv(TheNode)'
    BY <1>1, <1>2, <1>3, <1>8, <2>1
       DEF AloneInv, NewsIsTrue, TidingsAreTrue, HostComesFirst, SenderOnlySends,
           NothingBeforeConnect, ReceiveCalled
  <2> QED BY <1>1, <1>2, <1>5, <2>1, <2>2, <2>3 DEF HeadlessInv, NodeTypeOK, ResultIsTrue
<1>9. CASE ReceiveConnects
  <2>1. command # "send" /\ at[TheNode]["Fetch"] = "off"
    BY <1>1, <1>9 DEF ReceiveConnects, AloneInv, SenderOnlySends, NothingBeforeConnect
  <2>2. CASE Goto(TheNode, "Fetch", "called") /\ pump' = "pumping" /\ UNCHANGED outcome
    <3>1. at' \in [Nodes -> [Goroutines -> Places]]
      BY <1>1, <1>4, <2>2 DEF NodeTypeOK, Goto
    <3>2. \A h \in Goroutines :
              at'[TheNode][h] = IF h = "Fetch" THEN "called" ELSE at[TheNode][h]
      BY <1>1, <2>2 DEF NodeTypeOK, Goto
    <3>3. AloneInv(TheNode)'
      BY <1>1, <1>2, <1>3, <2>1, <2>2, <3>2
         DEF AloneInv, NewsIsTrue, TidingsAreTrue, HostComesFirst, SenderOnlySends,
             NothingBeforeConnect
    <3> QED BY <1>1, <1>2, <1>5, <2>2, <3>1, <3>3 DEF HeadlessInv, NodeTypeOK, ResultIsTrue
  <2>3. CASE Return("error") /\ UNCHANGED at
    <3>1. AloneInv(TheNode)'
      BY <1>1, <1>2, <1>3, <2>1, <2>3
         DEF AloneInv, NewsIsTrue, TidingsAreTrue, HostComesFirst, SenderOnlySends,
             NothingBeforeConnect, Return
    <3> QED BY <1>1, <1>2, <1>5, <2>1, <2>3, <3>1
         DEF HeadlessInv, NodeTypeOK, ResultIsTrue, Return
  <2> QED BY <1>9, <2>2, <2>3 DEF ReceiveConnects
<1> QED BY <1>6, <1>7, <1>8, <1>9

\* What pump takes from the channel, or hears of the user, ends the program only
\* with the truth.
LEMMA PumpHolds ==
    ASSUME Alone, HeadlessInv, outcome = "running", UNCHANGED command,
           \/ Logs \/ RoomIsLost \/ AttemptFails(command) \/ TransferIsDone \/ Asks
           \/ UserAnswers \/ PumpIsInterrupted \/ Interrupt(command)
    PROVE  HeadlessInv'
<1> USE TheNodeIsANode, GoroutinesDiffer
<1>1. NodeTypeOK /\ RoomTypeOK /\ AloneInv(TheNode)
  BY DEF HeadlessInv
<1>2. UNCHANGED <<at, room, delivered>>
  BY DEF Logs, RoomIsLost, AttemptFails, TransferIsDone, Asks, UserAnswers,
         PumpIsInterrupted, Interrupt, Takes, SameBusiness, hostingVars
<1>3. RoomTypeOK'
  BY <1>1, <1>2 DEF RoomTypeOK
<1>4. ASSUME NEW e, Takes(e)
      PROVE  /\ NodeTypeOK' /\ \A f \in Events : Holds(TheNode, f)' => Holds(TheNode, f)
             /\ Holds(TheNode, e) /\ pump = "pumping" /\ UNCHANGED interrupted
  <2>1. GainsAtMost(TheNode, "none") /\ Holds(TheNode, e) /\ pump = "pumping"
        /\ UNCHANGED interrupted
    BY <1>1, <1>4, TakingGains DEF Takes
  <2> QED BY <1>1, <1>2, <2>1 DEF GainsAtMost, NodeTypeOK, Events
<1>5. ASSUME NodeTypeOK', \A f \in Events : Holds(TheNode, f)' => Holds(TheNode, f),
             pump' \notin {"called", "connecting"} \/ pump' = pump,
             command = "send" => pump' # "asking"
      PROVE  AloneInv(TheNode)'
  BY <1>1, <1>2, <1>5 DEF AloneInv, NewsIsTrue, TidingsAreTrue, HostComesFirst,
       SenderOnlySends, NothingBeforeConnect, Events
<1>6. /\ Holds(TheNode, "saved") => delivered[TheNode] \/ at[TheNode]["Fetch"] = "saved"
      /\ Holds(TheNode, "roomLost") => room[TheNode] = "closed"
      /\ command = "send" => ~Holds(TheNode, "manifest") /\ pump # "asking"
  BY <1>1 DEF AloneInv, NewsIsTrue, SenderOnlySends
<1>7. CASE Logs
  BY <1>2, <1>3, <1>4, <1>5, <1>6, <1>7 DEF Logs, Continue, HeadlessInv, ResultIsTrue
<1>8. CASE RoomIsLost
  BY <1>2, <1>3, <1>4, <1>5, <1>6, <1>8 DEF RoomIsLost, Return, HeadlessInv, ResultIsTrue
<1>9. CASE AttemptFails(command)
  BY <1>2, <1>3, <1>4, <1>5, <1>6, <1>9
     DEF AttemptFails, Continue, Return, HeadlessInv, ResultIsTrue
<1>10. CASE TransferIsDone
  BY <1>2, <1>3, <1>4, <1>5, <1>6, <1>10 DEF TransferIsDone, Return, HeadlessInv, ResultIsTrue
<1>11. CASE Asks
  BY <1>2, <1>3, <1>4, <1>5, <1>6, <1>11 DEF Asks, HeadlessInv, ResultIsTrue
<1>12. CASE UserAnswers \/ PumpIsInterrupted \/ Interrupt(command)
  <2>1. UNCHANGED events
    BY <1>12 DEF UserAnswers, PumpIsInterrupted, Interrupt
  <2>2. NodeTypeOK' /\ \A f \in Events : Holds(TheNode, f)' => Holds(TheNode, f)
    BY <1>1, <1>2, <2>1 DEF NodeTypeOK, Holds
  <2>3. AloneInv(TheNode)'
    BY <1>5, <1>6, <1>12, <2>2 DEF UserAnswers, PumpIsInterrupted, Interrupt, Return
  <2>4. ResultIsTrue'
    BY <1>2, <1>6, <1>12 DEF UserAnswers, PumpIsInterrupted, Interrupt, Return, ResultIsTrue
  <2> QED BY <1>3, <2>2, <2>3, <2>4 DEF HeadlessInv
<1> QED BY <1>7, <1>8, <1>9, <1>10, <1>11, <1>12

-----------------------------------------------------------------------------
(* What holds of -send and -receive, and of a wait for a direct route.       *)

LEMMA NextHoldsAlone == HeadlessInv /\ [Next]_vars => HeadlessInv'
<1> SUFFICES ASSUME HeadlessInv, [Next]_vars PROVE HeadlessInv'
  OBVIOUS
<1>1. UNCHANGED command
  BY DEF Next, UseInterface, UseHeadless, Update, Ended, NodeStep, Background, NoUpdate, vars
<1>2. CASE ~Alone
  BY <1>1, <1>2 DEF HeadlessInv, Alone
<1>3. CASE Alone
  <2>1. CASE UseInterface \/ Update
    BY <1>3, <2>1 DEF UseInterface, Update, Alone
  <2>2. CASE UseHeadless
    <3>1. outcome = "running" /\ HeadlessStep(command)
      BY <2>2 DEF UseHeadless
    <3> QED BY <1>1, <1>3, <3>1, CallHolds, PumpHolds DEF HeadlessStep, PumpStep
  <2>3. CASE UNCHANGED vars
    <3>1. /\ UNCHANGED <<command, events, at, interrupted, outcome, room, delivered, pump>>
      BY <2>3 DEF vars, nodeVars, hostingVars
    <3>2. \A e : Holds(TheNode, e)' <=> Holds(TheNode, e)
      BY <3>1 DEF Holds
    <3>3. NodeTypeOK /\ RoomTypeOK /\ AloneInv(TheNode) /\ ResultIsTrue
      BY <1>3 DEF HeadlessInv
    <3>4. NodeTypeOK' /\ RoomTypeOK' /\ ResultIsTrue'
      BY <3>1, <3>3 DEF NodeTypeOK, RoomTypeOK, ResultIsTrue
    <3>5. AloneInv(TheNode)'
      BY <3>1, <3>2, <3>3 DEF AloneInv, NewsIsTrue, TidingsAreTrue, HostComesFirst,
           SenderOnlySends, NothingBeforeConnect
    <3> QED BY <3>4, <3>5 DEF HeadlessInv
  <2>4. ASSUME NEW n \in Nodes, NodeStep(n) PROVE HeadlessInv'
    BY <1>3, <2>4, NodeStepHolds
  <2> QED BY <2>1, <2>2, <2>3, <2>4 DEF Next, Ended
<1> QED BY <1>2, <1>3

\* pump ends -send and -receive with the truth, however the goroutines of the node,
\* the channel between them, an interrupt and the user interleave: success is every
\* file at the receiver, and a send fails only without its room or on an interrupt.
THEOREM ResultsAreTrue == Spec => []ResultIsTrue
<1>1. HeadlessInv => ResultIsTrue
  BY DEF HeadlessInv, Alone, ResultIsTrue
<1> QED BY <1>1, HeadlessInitHolds, NextHoldsAlone, PTL DEF Spec

WatchInv ==
    /\ watching \in [Nodes -> BOOLEAN]
    /\ gaveUp \in [Nodes -> {"none", "open", "closed"}]
    /\ WatchedIsOpen

LEMMA NextHoldsWatch == WatchInv /\ [Next]_vars => WatchInv'
<1> SUFFICES ASSUME WatchInv, [Next]_vars PROVE WatchInv'
  OBVIOUS
<1>1. CASE UNCHANGED punchVars
  BY <1>1 DEF WatchInv, WatchedIsOpen, punchVars
<1>2. ASSUME NEW n \in Nodes, Watch(n) PROVE WatchInv'
  BY <1>2 DEF WatchInv, WatchedIsOpen, Watch
<1>3. ASSUME NEW n \in Nodes, NEW to, EndWait(n, to) PROVE WatchInv'
  BY <1>3 DEF WatchInv, WatchedIsOpen, EndWait, Forget
<1>4. ASSUME NEW n \in Nodes, Trace(n) PROVE WatchInv'
  <2>1. PICK k : CountFailure(n, k)
    BY <1>4 DEF Trace
  <2>2. CASE UNCHANGED <<watching, gaveUp>>
    BY <2>2 DEF WatchInv, WatchedIsOpen
  <2>3. CASE /\ watching' = [watching EXCEPT ![n] = FALSE]
             /\ gaveUp' = [gaveUp EXCEPT ![n] = "closed"]
    BY <2>3 DEF WatchInv, WatchedIsOpen
  <2> QED BY <2>1, <2>2, <2>3 DEF CountFailure, punchVars
<1>5. \/ UNCHANGED punchVars
      \/ \E n \in Nodes : Watch(n) \/ Trace(n)
      \/ \E n \in Nodes, to \in Places : EndWait(n, to)
  <2>1. CASE UNCHANGED vars \/ Update \/ Ended
    BY <2>1 DEF vars, receivingVars, Update, Ended
  <2>2. CASE UseHeadless
    BY <2>2 DEF UseHeadless, HeadlessStep, PumpStep, SendConnects, HostReturned, ReceiveConnects,
         Logs, RoomIsLost, AttemptFails, TransferIsDone, Asks, PumpIsInterrupted,
         ReceiveCalled, UserAnswers, Interrupt, Takes, SameBusiness
  <2>3. CASE UseInterface
    <3>1. CASE HandleKey
      BY <3>1 DEF HandleKey, WelcomeKey, OutDirKey, PickFilesEsc, PickFilesSend, EnterCodeLeave,
           EnterCodeRefused, EnterCodeFetch, ConfirmKey, FinishedKey, Quit, Key, SameWorld,
           receivingVars
    <3>2. CASE ConnectFails
      BY <3>2 DEF ConnectFails, Quietly, SameWorld
    <3>3. ASSUME NEW n \in Nodes, HandleEvent(n) PROVE UNCHANGED punchVars
      BY <3>3 DEF HandleEvent, Notice, Connected, Preparing, RoomLost, Manifest, Progress, Failed,
           Saved, Handle, SameWorld
    <3>4. ASSUME NEW n \in Nodes, TakeEvent(n) \/ NodeIsDone(n) \/ NodeReady(n) \/ HostReturns(n)
          PROVE  UNCHANGED punchVars
      BY <3>4 DEF TakeEvent, NodeIsDone, NodeReady, HostReturns, Quietly, SameWorld, receivingVars
    <3> QED BY <2>3, <3>1, <3>2, <3>3, <3>4 DEF UseInterface, InterfaceStep
  <2>4. ASSUME NEW n \in Nodes, NodeStep(n)
        PROVE  UNCHANGED punchVars \/ Watch(n) \/ Trace(n) \/ \E to \in Places : EndWait(n, to)
    <3>1. {"connectedDirect", "connectedRelayed"} \subseteq Places
      BY DEF Places, FetchPlaces
    <3>2. CASE ReceivingStep(n)
      BY <3>1, <3>2 DEF ReceivingStep, FetchStep, FetchStarts, Connect, WaitForDirect,
           OpenStream, Confirm, Receive, FetchEnds, WaitTimesOut, ReceiveProgress, receivingVars
    <3>3. CASE UNCHANGED receivingVars
      BY <3>3 DEF receivingVars
    <3> QED BY <2>4, <3>2, <3>3 DEF NodeStep, Background
  <2> QED BY <2>1, <2>2, <2>3, <2>4 DEF Next
<1> QED BY <1>1, <1>2, <1>3, <1>4, <1>5

\* countFailure never closes a channel that is closed: a wait's entry goes with its
\* channel, and a new wait brings both (punchWatcher).
THEOREM WatchedStaysOpen == Spec => []WatchedIsOpen
<1>1. Init => WatchInv
  BY DEF Init, ReceivingInit, WatchInv, WatchedIsOpen
<1>2. WatchInv => WatchedIsOpen
  BY DEF WatchInv
<1> QED BY <1>1, <1>2, NextHoldsWatch, PTL DEF Spec

=============================================================================
