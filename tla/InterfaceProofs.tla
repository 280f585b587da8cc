-------------------------- MODULE InterfaceProofs --------------------------
(***************************************************************************)
(* Proofs about the interface and the nodes it leaves behind, for any      *)
(* nodes, streams, channel and user.                                       *)
(***************************************************************************)
EXTENDS ClientProofs, CodesProofs

-----------------------------------------------------------------------------
(* The types, of every variable a step of the interface or a node writes.   *)

UpgradePlaces == {"off", "polling", "found"}

\* The Model is a record with these fields, whatever mode and input hold.
ModelFields == {"screen", "mode", "node", "room", "haveConn", "direct", "input", "codeErr",
                "reply", "back"}

IsModel(m) ==
    /\ DOMAIN m = ModelFields /\ m = [f \in ModelFields |-> m[f]]
    /\ m.screen \in Screens /\ m.back \in {"Welcome", "EnterCode"}
    /\ m.node \in Nodes \cup {NoNode} /\ m.room \in Nodes \cup {NoNode}
    /\ m.reply \in Nodes \cup {NoNode}

ModelTypeOK ==
    /\ IsModel(ui)
    /\ connects \in Nat
    /\ readers \in [Nodes -> Nat]
    /\ taken \in [Nodes -> Seq(Events)]

StateTypeOK ==
    /\ life \in [Nodes -> {"none", "open", "closed"}]
    /\ direct \in [Nodes -> BOOLEAN]
    /\ upgrade \in [Nodes -> [Streams -> UpgradePlaces]]
    /\ interrupted \in BOOLEAN
    /\ outcome \in {"running", "ok", "error", "crashed"}
    /\ claimed \in [Nodes -> BOOLEAN]
    /\ reply \in [Nodes -> {"none", "yes", "no"}]

ChannelFits == \A n \in Nodes : Len(events[n]) <= Capacity

ProgramTypeOK ==
    /\ command \in Commands
    /\ NodeTypeOK /\ RoomTypeOK /\ StateTypeOK /\ ModelTypeOK /\ ChannelFits

-----------------------------------------------------------------------------
(* The inductive invariant of the interface.                                *)

\* Nothing was asked of n, but perhaps that it hosts.
Still(n) ==
    /\ events[n] = <<>> /\ taken[n] = <<>>
    /\ \A g \in Goroutines \ {"Host"} : at[n][g] = "off"
    /\ \A s \in Streams : upgrade[n][s] = "off"
    /\ room[n] = "none" /\ reply[n] = "none"

Idle(n) == Still(n) /\ at[n]["Host"] = "off"

\* A node that has not been started, or was left behind, is idle.
StrangersIdle ==
    \A n \in Nodes :
        /\ life[n] = "none" => Idle(n) /\ readers[n] = 0
        /\ life[n] = "open" /\ ui.node # n => Idle(n)

CurrentIsOpen == ui.node # NoNode => life[ui.node] = "open"

\* By the time there is a node, or one to come, those that were closed have nothing
\* left to say to the interface.
ClosedAreSettled ==
    ui.node # NoNode \/ connects > 0 =>
        \A n \in Nodes :
            life[n] = "closed" =>
                readers[n] = 0 /\ taken[n] = <<>> /\ at[n]["Host"] # "hosted"

\* Nothing disturbs the screen until Host has its room.
HostIsAwaited ==
    \A n \in Nodes :
        at[n]["Host"] \in {"announcing", "refused"} =>
            ui.node = n /\ ui.screen = "Connecting" /\ connects = 0 /\ Still(n)

OneConnects == connects > 0 => connects = 1 /\ ui.screen = "Connecting"

\* Where nothing has been asked of the node yet.
Choosing == ui.screen \in {"Welcome", "PickFiles", "EnterCode", "OutDir"} \/ connects > 0

ChoosingIsIdle == ui.node # NoNode /\ Choosing => Idle(ui.node)

\* A node that fetches serves nobody.
FetchIsAlone ==
    ui.node # NoNode /\ at[ui.node]["Fetch"] # "off" =>
        /\ room[ui.node] = "none" /\ at[ui.node]["Host"] = "off"
        /\ \A g \in Enders : at[ui.node][g] = "off"

\* The question is on its way, and its fetch waits for an answer.
Asked(n) == at[n]["Fetch"] = "asked" /\ reply[n] = "none"

\* A question has only connections that became direct behind it: in the channel, with
\* waitEvent, or on the screen.
QuestionIsLast ==
    ui.node # NoNode =>
        LET n == ui.node IN
        /\ \A i \in DOMAIN events[n] :
              events[n][i] = "manifest" =>
                  Asked(n) /\ \A j \in DOMAIN events[n] : j > i => events[n][j] = "direct"
        /\ \A i \in DOMAIN taken[n] :
              taken[n][i] = "manifest" =>
                  Asked(n) /\ \A j \in DOMAIN events[n] : events[n][j] = "direct"
        /\ ui.reply = n =>
              /\ Asked(n) /\ ui.screen = "Confirm"
              /\ \A j \in DOMAIN events[n] : events[n][j] = "direct"
              /\ \A j \in DOMAIN taken[n] : taken[n][j] = "direct"

AfterAsked == {"asked", "receiving", "received", "failing", "failed", "saved"}

\* There is no answer before the question.
AnswerIsLater ==
    ui.node # NoNode /\ reply[ui.node] # "none" => at[ui.node]["Fetch"] \in AfterAsked

QuestionIsCurrent == ui.reply \in {NoNode, ui.node}

SessionInv ==
    /\ ~interrupted
    /\ OneReader
    /\ StrangersIdle /\ CurrentIsOpen /\ ClosedAreSettled
    /\ HostIsAwaited /\ OneConnects /\ ChoosingIsIdle
    /\ FetchIsAlone /\ QuestionIsLast /\ AnswerIsLater /\ QuestionIsCurrent

\* What holds for good, whatever the program does after it has ended.
Promise == OneReader /\ QuestionStays /\ StrayNodesIdle

NoInterface ==
    /\ readers = [n \in Nodes |-> 0] /\ taken = [n \in Nodes |-> <<>>]
    /\ ui.reply = NoNode

InterfaceInv ==
    /\ command # "tui" => NoInterface
    /\ command = "tui" =>
          pump = "off" /\ IF outcome = "running" THEN SessionInv ELSE Promise

-----------------------------------------------------------------------------
(* Every variable keeps its type.                                           *)

ChannelOK == NodeTypeOK /\ ChannelFits

LEMMA EmitFits ==
    ASSUME ChannelOK, NEW n \in Nodes, NEW e \in Events, Emit(n, e)
    PROVE  events' \in [Nodes -> Seq(Events)] /\ ChannelFits'
<1>1. events' \in [Nodes -> Seq(Events)]
  BY EmitGains DEF ChannelOK, GainsAtMost
<1>2. CASE UNCHANGED events
  BY <1>1, <1>2 DEF ChannelOK, ChannelFits
<1>3. CASE Put(n, e)
  <2>1. Len(events[n]) < Capacity /\ events' = [events EXCEPT ![n] = Append(@, e)]
    BY <1>3 DEF Put
  <2>2. events \in [Nodes -> Seq(Events)] /\ Capacity \in Nat
    BY NodeAssumption DEF ChannelOK, NodeTypeOK
  <2>3. events'[n] = Append(events[n], e) /\ \A m \in Nodes \ {n} : events'[m] = events[m]
    BY <2>1, <2>2
  <2>4. Len(events'[n]) = Len(events[n]) + 1 /\ Len(events[n]) \in Nat
    BY <2>2, <2>3
  <2>5. \A m \in Nodes \ {n} : Len(events'[m]) <= Capacity
    BY <2>3 DEF ChannelOK, ChannelFits
  <2> QED BY <2>1, <2>2, <2>4, <2>5 DEF ChannelFits
<1> QED BY <1>1, <1>2, <1>3 DEF Emit

LEMMA SpeakingFits ==
    ASSUME ChannelOK, NEW n \in Nodes, NEW g \in Goroutines, NEW from, NEW e \in Events,
           NEW to \in Places, Tells(n, g, from, e, to) \/ Moves(n, g, from, to)
    PROVE  ChannelOK'
<1>1. CASE Tells(n, g, from, e, to)
  BY <1>1, EmitFits, TellsMoves DEF ChannelOK, Tells
<1>2. CASE Moves(n, g, from, to)
  <2>1. UNCHANGED events
    BY <1>2 DEF Moves
  <2> QED BY <1>2, <2>1, MovesMoves DEF ChannelOK, ChannelFits
<1> QED BY <1>1, <1>2

LEMMA ProgressFits ==
    ASSUME ChannelOK, NEW n \in Nodes, EmitProgress(n), UNCHANGED at
    PROVE  ChannelOK'
<1>1. Emit(n, "progress") /\ "progress" \in Events
  BY DEF EmitProgress, Emit, Events
<1> QED BY <1>1, EmitFits DEF ChannelOK, NodeTypeOK

\* Who takes an event leaves the channel shorter.
LEMMA TakingFits ==
    ASSUME NodeTypeOK, ChannelFits, NEW n \in Nodes, events[n] # <<>>,
           events' = [events EXCEPT ![n] = Tail(@)], UNCHANGED at
    PROVE  NodeTypeOK' /\ ChannelFits' /\ Head(events[n]) \in Events
<1>1. events[n] \in Seq(Events) /\ events'[n] = Tail(events[n])
  BY DEF NodeTypeOK
<1>2. GainsAtMost(n, "none") /\ Head(events[n]) \in Events
  BY TakingGains
<1>3. NodeTypeOK'
  BY <1>2 DEF NodeTypeOK, GainsAtMost
<1>4. Len(events'[n]) = Len(events[n]) - 1 /\ Len(events[n]) \in Nat
  <2>1. Len(events[n]) \in Nat /\ Len(events[n]) # 0
    BY <1>1
  <2>2. Len(Tail(events[n])) = Len(events[n]) - 1
    BY <1>1, <2>1
  <2> QED BY <1>1, <2>1, <2>2
<1>5. \A m \in Nodes \ {n} : events'[m] = events[m]
  BY DEF NodeTypeOK
<1>6. ChannelFits'
  <2>1. Len(events[n]) <= Capacity /\ Capacity \in Nat
    BY NodeAssumption DEF ChannelFits
  <2>2. Len(events'[n]) <= Capacity
    BY <1>4, <2>1
  <2> QED BY <1>5, <2>2 DEF ChannelFits
<1> QED BY <1>2, <1>3, <1>6

\* The steps of a hosting session.
LEMMA HostingTypes ==
    ASSUME ChannelOK, RoomTypeOK, StateTypeOK, NEW n \in Nodes, HostingStep(n), UNCHANGED reply
    PROVE  ChannelOK' /\ RoomTypeOK' /\ StateTypeOK'
<1> USE GoroutinesDiffer
<1>1. Places = {"off", "announcing", "hosted", "refused", "returned", "reading", "ready",
                "keeping", "lost", "restoring", "back", "shaking", "claimedDirect",
                "claimedRelayed", "sending", "failed", "abandon", "abandoning"}
               \cup FetchPlaces \cup {"abandoned", "delivered", "saved"}
  BY DEF Places, SenderPlaces, EndingPlaces
<1>2. {"notice", "preparing", "direct", "relayed", "saved", "failed", "roomLost"} \subseteq Events
  BY DEF Events
<1>3. CASE Host(n)
  <2>1. UNCHANGED events /\ SameNode /\ UNCHANGED <<claimed, delivered>>
    BY <1>3 DEF Host
  <2>2. RoomTypeOK'
    BY <1>3, <2>1 DEF Host, RoomTypeOK
  <2>3. at \in [Nodes -> [Goroutines -> Places]]
    BY DEF ChannelOK, NodeTypeOK
  <2>4. ASSUME at' = [at EXCEPT ![n]["Host"] = "hosted", ![n]["watchOffer"] = "reading",
                                ![n]["keepRoom"] = "keeping"]
        PROVE  at' \in [Nodes -> [Goroutines -> Places]]
    <3>1. {"hosted", "reading", "keeping"} \subseteq Places
      BY <1>1
    <3> QED BY <2>3, <2>4, <3>1
  <2>5. ASSUME Goto(n, "Host", "refused") PROVE at' \in [Nodes -> [Goroutines -> Places]]
    <3>1. "refused" \in Places
      BY <1>1
    <3> QED BY <2>3, <2>5, <3>1 DEF Goto
  <2>6. at' \in [Nodes -> [Goroutines -> Places]]
    BY <1>3, <2>4, <2>5 DEF Host
  <2> QED BY <2>1, <2>2, <2>6 DEF ChannelOK, NodeTypeOK, ChannelFits, StateTypeOK, SameNode
<1>4. CASE ReadFiles(n)
  <2>1. ChannelOK' /\ SameRoom /\ SameNode
    BY <1>1, <1>2, <1>4, SpeakingFits DEF ReadFiles
  <2> QED BY <2>1 DEF SameRoom, hostingVars, SameNode, RoomTypeOK, StateTypeOK
<1>5. CASE WatchOffer(n)
  <2>1. ChannelOK' /\ SameRoom /\ SameNode
    BY <1>1, <1>2, <1>5, SpeakingFits DEF WatchOffer
  <2> QED BY <2>1 DEF SameRoom, hostingVars, SameNode, RoomTypeOK, StateTypeOK
<1>6. CASE KeepRoom(n)
  <2>1. SameRoom /\ SameNode
    BY <1>6 DEF KeepRoom
  <2>2. ChannelOK'
    BY <1>1, <1>2, <1>6, SpeakingFits DEF KeepRoom
  <2> QED BY <2>1, <2>2 DEF SameRoom, hostingVars, SameNode, RoomTypeOK, StateTypeOK
<1>7. ASSUME NEW g \in Enders, Abandon(n, g) PROVE ChannelOK' /\ RoomTypeOK' /\ StateTypeOK'
  <2>1. SameNode /\ UNCHANGED delivered
    BY <1>7 DEF Abandon
  <2>2. ChannelOK'
    BY <1>1, <1>2, <1>7, SpeakingFits DEF Abandon
  <2>3. room' \in [Nodes -> {"none", "open", "closed"}]
    BY <1>7 DEF Abandon, CloseRoom, RoomTypeOK
  <2>4. claimed' \in [Nodes -> BOOLEAN]
    <3>1. CASE UNCHANGED claimed
      BY <3>1 DEF StateTypeOK
    <3>2. CASE claimed' = [claimed EXCEPT ![n] = @ \/ room[n] = "open"]
      BY <3>2 DEF StateTypeOK
    <3> QED BY <1>7, <3>1, <3>2 DEF Abandon
  <2> QED BY <2>1, <2>2, <2>3, <2>4 DEF SameNode, RoomTypeOK, StateTypeOK
<1>8. ASSUME NEW s \in Serves, Serve(n, s) \/ Reject(n, s)
      PROVE  ChannelOK' /\ RoomTypeOK' /\ StateTypeOK'
  <2>1. SameRoom /\ SameNode
    BY <1>8 DEF Serve, Reject
  <2>2. ChannelOK'
    BY <1>1, <1>2, <1>8, SpeakingFits DEF Serve, Reject
  <2> QED BY <2>1, <2>2 DEF SameRoom, hostingVars, SameNode, RoomTypeOK, StateTypeOK
<1>9. ASSUME NEW s \in Serves, Claim(n, s) PROVE ChannelOK' /\ RoomTypeOK' /\ StateTypeOK'
  <2>1. PICK isDirect \in Routes :
            /\ Moves(n, s, "shaking", IF isDirect THEN "claimedDirect" ELSE "claimedRelayed")
            /\ direct' = [direct EXCEPT ![n] = isDirect]
    BY <1>9 DEF Claim
  <2>2. ChannelOK'
    BY <1>1, <1>2, <2>1, SpeakingFits
  <2>3. direct' \in [Nodes -> BOOLEAN]
    BY <2>1, HostingAssumption DEF StateTypeOK
  <2>4. claimed' \in [Nodes -> BOOLEAN] /\ RoomTypeOK'
    BY <1>9 DEF Claim, RoomTypeOK, StateTypeOK
  <2> QED BY <1>9, <2>2, <2>3, <2>4 DEF Claim, StateTypeOK
<1>10. ASSUME NEW s \in Serves, Greet(n, s) PROVE ChannelOK' /\ RoomTypeOK' /\ StateTypeOK'
  <2>1. SameRoom /\ UNCHANGED <<life, direct, interrupted, outcome>>
    BY <1>10 DEF Greet
  <2>2. ChannelOK'
    BY <1>1, <1>2, <1>10, SpeakingFits DEF Greet
  <2>3. \E p \in UpgradePlaces : upgrade' = [upgrade EXCEPT ![n][s] = p]
    BY <1>10 DEF Greet, WatchUnlessDirect, StateTypeOK, UpgradePlaces, Streams
  <2>4. s \in Streams
    BY DEF Streams
  <2>5. upgrade' \in [Nodes -> [Streams -> UpgradePlaces]]
    BY <2>3, <2>4 DEF StateTypeOK
  <2> QED BY <2>1, <2>2, <2>5 DEF SameRoom, hostingVars, RoomTypeOK, StateTypeOK
<1>11. ASSUME NEW s \in Serves, SendProgress(n, s)
       PROVE  ChannelOK' /\ RoomTypeOK' /\ StateTypeOK'
  <2>1. SameRoom /\ SameNode /\ UNCHANGED at /\ EmitProgress(n)
    BY <1>11 DEF SendProgress
  <2> QED BY <2>1, ProgressFits DEF SameRoom, hostingVars, SameNode, RoomTypeOK, StateTypeOK
<1>12. ASSUME NEW s \in Serves, SendEnds(n, s)
       PROVE  ChannelOK' /\ RoomTypeOK' /\ StateTypeOK'
  <2>1. ChannelOK'
    BY <1>1, <1>2, <1>12, SpeakingFits DEF SendEnds
  <2>2. RoomTypeOK' /\ claimed' \in [Nodes -> BOOLEAN]
    BY <1>12 DEF SendEnds, SameRoom, hostingVars, CloseRoom, RoomTypeOK, StateTypeOK
  <2> QED BY <1>12, <2>1, <2>2 DEF SendEnds, SameNode, StateTypeOK
<1> QED BY <1>3, <1>4, <1>5, <1>6, <1>7, <1>8, <1>9, <1>10, <1>11, <1>12 DEF HostingStep

\* The steps of a receiving session.
LEMMA ReceivingTypes ==
    ASSUME ChannelOK, RoomTypeOK, StateTypeOK, NEW n \in Nodes, ReceivingStep(n),
           UNCHANGED hostingVars
    PROVE  ChannelOK' /\ RoomTypeOK' /\ StateTypeOK' /\ UNCHANGED reply
<1> USE GoroutinesDiffer
<1>1. FetchPlaces \subseteq Places
  BY DEF Places
<1>2. {"notice", "preparing", "direct", "relayed", "manifest", "saved", "failed"} \subseteq Events
  BY DEF Events
<1>3. UNCHANGED <<life, interrupted, outcome, reply>>
  BY DEF ReceivingStep, FetchStep, FetchStarts, Connect, Watch, WaitForDirect, OpenStream, Confirm,
         Receive, FetchEnds, WaitTimesOut, EndWait, Trace, ReceiveProgress, SameSession, nodeVars,
         receivingVars
<1>4. direct' \in [Nodes -> BOOLEAN]
  <2>1. UNCHANGED direct \/ Connect(n)
    BY DEF ReceivingStep, FetchStep, FetchStarts, Watch, WaitForDirect, OpenStream, Confirm,
         Receive, FetchEnds, WaitTimesOut, EndWait, Trace, ReceiveProgress, nodeVars
  <2> QED BY <2>1 DEF Connect, StateTypeOK
<1>5. upgrade' \in [Nodes -> [Streams -> UpgradePlaces]]
  <2>1. UNCHANGED upgrade \/ WatchUnlessDirect(n, "Fetch", FALSE)
    BY DEF ReceivingStep, FetchStep, FetchStarts, Connect, Watch, WaitForDirect, OpenStream,
         Confirm, Receive, FetchEnds, WaitTimesOut, EndWait, Trace, ReceiveProgress, nodeVars,
         SameSession
  <2>2. CASE UNCHANGED upgrade
    BY <2>2 DEF StateTypeOK
  <2>3. CASE upgrade' = [upgrade EXCEPT ![n]["Fetch"] = "polling"]
    <3>1. "polling" \in UpgradePlaces /\ "Fetch" \in Streams
      BY DEF UpgradePlaces, Streams
    <3> QED BY <2>3, <3>1 DEF StateTypeOK
  <2> QED BY <2>1, <2>2, <2>3 DEF WatchUnlessDirect
<1>6. ChannelOK'
  <2>1. CASE FetchStarts(n)
    BY <1>1, <1>2, <2>1, SpeakingFits DEF FetchStarts, FetchPlaces
  <2>2. CASE Connect(n) \/ Watch(n)
    BY <1>1, <1>2, <2>2, SpeakingFits DEF Connect, Watch, FetchPlaces
  <2>3. CASE WaitForDirect(n) \/ WaitTimesOut(n)
    BY <1>1, <1>2, <2>3, SpeakingFits DEF WaitForDirect, WaitTimesOut, EndWait, FetchPlaces
  <2>4. CASE OpenStream(n)
    BY <1>1, <1>2, <2>4, SpeakingFits DEF OpenStream, FetchPlaces
  <2>5. CASE Confirm(n) \/ Receive(n) \/ FetchEnds(n)
    BY <1>1, <1>2, <2>5, SpeakingFits DEF Confirm, Receive, FetchEnds, FetchPlaces
  <2>6. CASE Trace(n)
    BY <2>6 DEF Trace, nodeVars, ChannelOK, NodeTypeOK, ChannelFits
  <2>7. CASE ReceiveProgress(n)
    BY <2>7, ProgressFits DEF ReceiveProgress
  <2> QED BY <2>1, <2>2, <2>3, <2>4, <2>5, <2>6, <2>7 DEF ReceivingStep, FetchStep
<1> QED BY <1>3, <1>4, <1>5, <1>6 DEF hostingVars, RoomTypeOK, StateTypeOK

\* The hole puncher and watchDirectUpgrade.
LEMMA UpgradingTypes ==
    ASSUME ChannelOK, RoomTypeOK, StateTypeOK, NEW n \in Nodes,
           PunchesThrough(n) \/ \E s \in Streams : WatchUpgrade(n, s),
           UNCHANGED <<hostingVars, receivingVars>>
    PROVE  ChannelOK' /\ RoomTypeOK' /\ StateTypeOK'
<1>1. UNCHANGED <<life, at, interrupted, outcome, claimed, reply>> /\ RoomTypeOK'
  BY DEF PunchesThrough, WatchUpgrade, hostingVars, receivingVars, RoomTypeOK
<1>2. CASE PunchesThrough(n)
  <2>1. ChannelOK'
    BY <1>1, <1>2 DEF PunchesThrough, ChannelOK, NodeTypeOK, ChannelFits
  <2> QED BY <1>1, <1>2, <2>1 DEF PunchesThrough, StateTypeOK
<1>3. ASSUME NEW s \in Streams, WatchUpgrade(n, s) PROVE ChannelOK' /\ StateTypeOK'
  <2>1. UNCHANGED events \/ Emit(n, "direct")
    BY <1>3 DEF WatchUpgrade
  <2>2. ChannelOK'
    BY <1>1, <2>1, EmitFits DEF ChannelOK, NodeTypeOK, ChannelFits, Events
  <2>3. \E p \in UpgradePlaces : upgrade' = [upgrade EXCEPT ![n][s] = p]
    BY <1>3 DEF WatchUpgrade, UpgradePlaces
  <2>4. upgrade' \in [Nodes -> [Streams -> UpgradePlaces]]
    BY <2>3 DEF StateTypeOK
  <2> QED BY <1>1, <1>3, <2>2, <2>4 DEF WatchUpgrade, StateTypeOK
<1> QED BY <1>1, <1>2, <1>3

LEMMA NodeStepTypes ==
    ASSUME ProgramTypeOK, NEW n \in Nodes, NodeStep(n)
    PROVE  ProgramTypeOK'
<1>1. UNCHANGED <<command, interfaceVars, pump>>
  BY DEF NodeStep, Background, NoUpdate
<1>2. ChannelOK' /\ RoomTypeOK' /\ StateTypeOK'
  BY HostingTypes, ReceivingTypes, UpgradingTypes
     DEF NodeStep, Background, ProgramTypeOK, ChannelOK, receivingVars
<1> QED BY <1>1, <1>2 DEF ProgramTypeOK, ChannelOK, ModelTypeOK, interfaceVars

-----------------------------------------------------------------------------
(* The types, for the program's own steps.                                  *)

LEMMA HeadlessTypes ==
    ASSUME ProgramTypeOK, UseHeadless
    PROVE  ProgramTypeOK'
<1> USE TheNodeIsANode, GoroutinesDiffer
<1>1. /\ UNCHANGED <<command, interfaceVars>> /\ HeadlessStep(command)
      /\ UNCHANGED <<direct, upgrade, hostingVars>>
  BY DEF UseHeadless, NoUpdate, HeadlessStep, PumpStep, SendConnects, HostReturned, ReceiveConnects,
       Logs, RoomIsLost, AttemptFails, TransferIsDone, Asks, PumpIsInterrupted,
       ReceiveCalled, UserAnswers, Interrupt, Takes, SameBusiness
<1>2. ModelTypeOK' /\ RoomTypeOK'
  BY <1>1 DEF ProgramTypeOK, ModelTypeOK, interfaceVars, RoomTypeOK, hostingVars
<1>3. ASSUME NEW result \in {"ok", "error"}, Return(result)
      PROVE  /\ life' \in [Nodes -> {"none", "open", "closed"}]
             /\ outcome' \in {"running", "ok", "error", "crashed"}
  BY <1>3 DEF Return, ProgramTypeOK, StateTypeOK
<1>4. ASSUME Start(TheNode) PROVE life' \in [Nodes -> {"none", "open", "closed"}]
  BY <1>4 DEF Start, ProgramTypeOK, StateTypeOK
<1>5. /\ life' \in [Nodes -> {"none", "open", "closed"}]
      /\ outcome' \in {"running", "ok", "error", "crashed"}
  <2>1. UNCHANGED life \/ Start(TheNode) \/ \E result \in {"ok", "error"} : Return(result)
    BY <1>1 DEF HeadlessStep, PumpStep, SendConnects, HostReturned, ReceiveConnects,
       Logs, RoomIsLost, AttemptFails, TransferIsDone, Asks, PumpIsInterrupted, Continue,
       ReceiveCalled, UserAnswers, Interrupt
  <2>2. UNCHANGED outcome \/ \E result \in {"ok", "error"} : Return(result)
    BY <1>1 DEF HeadlessStep, PumpStep, SendConnects, HostReturned, ReceiveConnects,
       Logs, RoomIsLost, AttemptFails, TransferIsDone, Asks, PumpIsInterrupted, Continue,
       ReceiveCalled, UserAnswers, Interrupt
  <2> QED BY <1>3, <1>4, <2>1, <2>2 DEF ProgramTypeOK, StateTypeOK
<1>6. interrupted' \in BOOLEAN
  BY <1>1 DEF HeadlessStep, PumpStep, SendConnects, HostReturned, ReceiveConnects,
       Logs, RoomIsLost, AttemptFails, TransferIsDone, Asks, PumpIsInterrupted, Takes,
       ReceiveCalled, UserAnswers, Interrupt, ProgramTypeOK, StateTypeOK
<1>7. reply' \in [Nodes -> {"none", "yes", "no"}]
  <2>1. UNCHANGED reply \/ \E ok \in {"yes", "no"} : reply' = [reply EXCEPT ![TheNode] = ok]
    BY <1>1 DEF HeadlessStep, PumpStep, SendConnects, HostReturned, ReceiveConnects,
       Logs, RoomIsLost, AttemptFails, TransferIsDone, Asks, PumpIsInterrupted, Takes,
       ReceiveCalled, UserAnswers, Interrupt
  <2> QED BY <2>1 DEF ProgramTypeOK, StateTypeOK
<1>8. NodeTypeOK' /\ ChannelFits'
  <2>1. \/ UNCHANGED <<events, at>>
        \/ UNCHANGED events /\ Goto(TheNode, "Host", "announcing")
        \/ UNCHANGED events /\ Goto(TheNode, "Fetch", "called")
        \/ UNCHANGED events /\ Goto(TheNode, "Host", "returned")
        \/ /\ events[TheNode] # <<>> /\ events' = [events EXCEPT ![TheNode] = Tail(@)]
           /\ UNCHANGED at
    BY <1>1 DEF HeadlessStep, PumpStep, SendConnects, HostReturned, ReceiveConnects,
       Logs, RoomIsLost, AttemptFails, TransferIsDone, Asks, PumpIsInterrupted, Takes,
       ReceiveCalled, UserAnswers, Interrupt, Moves
  <2>2. CASE UNCHANGED <<events, at>>
    BY <2>2 DEF ProgramTypeOK, NodeTypeOK, ChannelFits
  <2>3. ASSUME UNCHANGED events, NEW g \in {"Host", "Fetch"},
               NEW l \in {"announcing", "called", "returned"}, Goto(TheNode, g, l)
        PROVE  NodeTypeOK' /\ ChannelFits'
    <3>1. l \in Places /\ g \in Goroutines
      BY DEF Places, SenderPlaces, FetchPlaces
    <3> QED BY <2>3, <3>1 DEF Goto, ProgramTypeOK, NodeTypeOK, ChannelFits
  <2>4. CASE /\ events[TheNode] # <<>> /\ events' = [events EXCEPT ![TheNode] = Tail(@)]
             /\ UNCHANGED at
    BY <2>4, TakingFits DEF ProgramTypeOK
  <2> QED BY <2>1, <2>2, <2>3, <2>4
<1> QED BY <1>1, <1>2, <1>5, <1>6, <1>7, <1>8 DEF ProgramTypeOK, StateTypeOK, hostingVars

-----------------------------------------------------------------------------
(* What Update does with the Model, as far as the proofs go.                *)

\* The Model shows x, belongs to n and has a question of r.
Becomes(x, n, r) == IsModel(ui') /\ ui'.screen = x /\ ui'.node = n /\ ui'.reply = r

\* An event that is not a question leaves the node and the question alone, and covers
\* a question only if it is not about the connection.
Answers(n, e) ==
    \/ e = "manifest" /\ Becomes("Confirm", ui.node, n)
    \/ /\ e \in {"direct", "relayed"}
       /\ Becomes(IF ui.screen \in {"Confirm", "Done"} THEN ui.screen ELSE "Transfer",
                  ui.node, ui.reply)
    \/ /\ e \notin {"manifest", "direct", "relayed"}
       /\ \E x \in {ui.screen, "Transfer", "Error", "Waiting", "Done"} :
             Becomes(x, ui.node, ui.reply)

LEMMA HandleModel ==
    ASSUME IsModel(ui), NEW n \in Nodes, HandleEvent(n)
    PROVE  \E e \in Events :
              /\ Handle(n, e) /\ Answers(n, e)
              /\ GoOn \/ (e \in {"saved", "failed"} /\ Stop)
<1> USE DEF IsModel, ModelFields, Screens, Show, Becomes
<1>1. Events = {"notice", "preparing", "direct", "relayed", "manifest", "progress", "saved",
                "failed", "roomLost"}
  BY DEF Events
<1>2. CASE Notice(n)
  BY <1>1, <1>2 DEF Notice, Answers
<1>3. CASE Connected(n)
  <2>1. PICK e \in {"direct", "relayed"} :
            /\ Handle(n, e) /\ GoOn
            /\ ui' = [ui EXCEPT !.direct = (e = "direct"), !.haveConn = TRUE,
                                !.screen = IF @ \in {"Confirm", "Done"} THEN @ ELSE "Transfer"]
    BY <1>3 DEF Connected
  <2>2. Becomes(IF ui.screen \in {"Confirm", "Done"} THEN ui.screen ELSE "Transfer",
                ui.node, ui.reply)
    BY <2>1
  <2> QED BY <1>1, <2>1, <2>2 DEF Answers
<1>4. CASE Preparing(n)
  BY <1>1, <1>4 DEF Preparing, Answers
<1>5. CASE RoomLost(n) \/ Progress(n)
  BY <1>1, <1>5 DEF RoomLost, Progress, Answers
<1>6. CASE Manifest(n)
  BY <1>1, <1>6 DEF Manifest, Answers
<1>7. CASE Failed(n)
  <2>1. \E x \in {"Waiting", "Error"} : Becomes(x, ui.node, ui.reply)
    BY <1>7 DEF Failed
  <2> QED BY <1>1, <1>7, <2>1 DEF Failed, Answers
<1>8. CASE Saved(n)
  BY <1>1, <1>8 DEF Saved, Answers
<1> QED BY <1>2, <1>3, <1>4, <1>5, <1>6, <1>7, <1>8 DEF HandleEvent

\* The ends of connectCmd and of hostCmd.
LEMMA ReadyModel ==
    ASSUME IsModel(ui), NEW n \in Nodes, NodeReady(n)
    PROVE  \E x \in {"PickFiles", "EnterCode", ui.screen} : Becomes(x, n, ui.reply)
BY DEF NodeReady, FirstScreen, IsModel, ModelFields, Screens, Becomes

LEMMA ErrorModel ==
    ASSUME IsModel(ui), Show("Error")
    PROVE  Becomes("Error", ui.node, ui.reply)
BY DEF IsModel, ModelFields, Screens, Becomes, Show

LEMMA HostModel ==
    ASSUME IsModel(ui), NEW n \in Nodes, HostReturns(n)
    PROVE  \/ /\ Moves(n, "Host", "hosted", "returned")
              /\ Becomes("Waiting", ui.node, ui.reply)
           \/ Moves(n, "Host", "refused", "returned") /\ Becomes("Error", ui.node, ui.reply)
BY DEF HostReturns, IsModel, ModelFields, Screens, Becomes, Show

\* Keys where nothing runs yet.
LEMMA ChoosingModel ==
    ASSUME IsModel(ui),
           WelcomeKey \/ OutDirKey \/ PickFilesEsc \/ EnterCodeLeave \/ EnterCodeRefused
    PROVE  /\ ui.screen \in {"Welcome", "OutDir", "PickFiles", "EnterCode"}
           /\ \/ /\ UNCHANGED connects
                 /\ \E x \in {"Welcome", "OutDir", "EnterCode"} : Becomes(x, ui.node, ui.reply)
              \/ /\ Settled /\ connects' = connects + 1 /\ ui.screen = "Welcome"
                 /\ Becomes("Connecting", ui.node, ui.reply)
<1> USE DEF IsModel, ModelFields, Screens, Becomes, Show, Key
<1>1. CASE WelcomeKey
  BY <1>1 DEF WelcomeKey
<1>2. CASE OutDirKey
  BY <1>2 DEF OutDirKey
<1>3. CASE PickFilesEsc
  BY <1>3 DEF PickFilesEsc
<1>4. CASE EnterCodeLeave
  BY <1>4 DEF EnterCodeLeave
<1>5. CASE EnterCodeRefused
  BY <1>5 DEF EnterCodeRefused
<1> QED BY <1>1, <1>2, <1>3, <1>4, <1>5

\* Keys that start something on the node.
LEMMA StartingModel ==
    ASSUME IsModel(ui)
    PROVE  /\ PickFilesSend => Becomes("Connecting", ui.node, ui.reply)
           /\ EnterCodeFetch => Becomes("Finding", ui.node, ui.reply)
BY DEF IsModel, ModelFields, Screens, Becomes, Show, PickFilesSend, EnterCodeFetch

\* Keys that answer a question or end a session.
LEMMA ClosingModel ==
    ASSUME IsModel(ui)
    PROVE  /\ Reset => Becomes("Welcome", NoNode, ui.reply)
           /\ Answer("yes") => Becomes("Transfer", ui.node, NoNode)
           /\ Answer("no") => Becomes("Welcome", NoNode, NoNode)
BY DEF IsModel, ModelFields, Screens, Becomes, Reset, Answer, ResetModel, NewModel

-----------------------------------------------------------------------------
(* The types, for the interface's own steps.                                *)

LEMMA TwoSequences ==
    ASSUME NEW S, NEW a \in Seq(S), NEW b \in Seq(S)
    PROVE  a \o b \in Seq(S) /\ Len(a \o b) = Len(a) + Len(b)
<1>1. a \o b \in Seq(S)
  OBVIOUS
<1>2. Len(a \o b) = Len(a) + Len(b)
  OBVIOUS
<1> QED BY <1>1, <1>2

LEMMA RemovalIsASequence ==
    ASSUME NEW S, NEW s \in Seq(S), NEW i \in DOMAIN s
    PROVE  RemoveAt(s, i) \in Seq(S) /\ Len(RemoveAt(s, i)) = Len(s) - 1
<1>1. Len(s) \in Nat /\ i \in 1 .. Len(s)
  OBVIOUS
<1>2. SubSeq(s, 1, i - 1) \in Seq(S) /\ Len(SubSeq(s, 1, i - 1)) = i - 1
  BY <1>1
<1>3. SubSeq(s, i + 1, Len(s)) \in Seq(S) /\ Len(SubSeq(s, i + 1, Len(s))) = Len(s) - i
  BY <1>1
<1>4. RemoveAt(s, i) = SubSeq(s, 1, i - 1) \o SubSeq(s, i + 1, Len(s))
  BY DEF RemoveAt
<1> HIDE DEF RemoveAt
<1> DEFINE a == SubSeq(s, 1, i - 1)
           b == SubSeq(s, i + 1, Len(s))
<1>5. a \in Seq(S) /\ b \in Seq(S) /\ Len(a) = i - 1 /\ Len(b) = Len(s) - i
  BY <1>2, <1>3
<1>6. RemoveAt(s, i) = a \o b
  BY <1>4
<1> HIDE DEF a, b
<1>7. a \o b \in Seq(S) /\ Len(a \o b) = Len(a) + Len(b)
  BY <1>5, TwoSequences
<1>8. Len(a) + Len(b) = Len(s) - 1
  BY <1>1, <1>5
<1> QED BY <1>6, <1>7, <1>8

LEMMA ArmTypes ==
    ASSUME ProgramTypeOK, Arm(ui.node) \/ Stop
    PROVE  /\ readers' \in [Nodes -> Nat]
           /\ outcome' \in {"running", "ok", "error", "crashed"}
<1>1. ui.node \in Nodes \cup {NoNode} /\ readers \in [Nodes -> Nat]
      /\ outcome \in {"running", "ok", "error", "crashed"}
  BY DEF ProgramTypeOK, ModelTypeOK, IsModel, StateTypeOK
<1>2. CASE /\ ui.node \in Nodes
           /\ readers' = [readers EXCEPT ![ui.node] = @ + 1] /\ UNCHANGED outcome
  BY <1>1, <1>2
<1>3. CASE UNCHANGED readers /\ outcome' \in {outcome, "crashed"}
  BY <1>1, <1>3
<1> QED BY <1>1, <1>2, <1>3 DEF Arm, Stop

LEMMA HandleTypes ==
    ASSUME ProgramTypeOK, NEW n \in Nodes, HandleEvent(n)
    PROVE  ModelTypeOK' /\ StateTypeOK' /\ UNCHANGED <<events, at, room, delivered>>
<1>1. PICK e \in Events : Handle(n, e) /\ Answers(n, e) /\ (GoOn \/ Stop)
  BY HandleModel DEF ProgramTypeOK, ModelTypeOK
<1>2. /\ readers' \in [Nodes -> Nat]
      /\ outcome' \in {"running", "ok", "error", "crashed"}
  BY <1>1, ArmTypes DEF GoOn
<1>3. taken \in [Nodes -> Seq(Events)]
  BY DEF ProgramTypeOK, ModelTypeOK
<1>4. PICK i \in DOMAIN taken[n] : taken' = [taken EXCEPT ![n] = RemoveAt(@, i)]
  BY <1>1 DEF Handle
<1>5. RemoveAt(taken[n], i) \in Seq(Events)
  BY <1>3, RemovalIsASequence
<1>6. taken' \in [Nodes -> Seq(Events)]
  BY <1>3, <1>4, <1>5
<1>7. UNCHANGED <<connects, life, reply, events, at, direct, upgrade, interrupted, hostingVars>>
  BY <1>1 DEF Handle, SameWorld
<1>8. IsModel(ui')
  BY <1>1 DEF Answers, Becomes
<1> QED BY <1>2, <1>6, <1>7, <1>8 DEF ProgramTypeOK, ModelTypeOK, StateTypeOK, hostingVars

LEMMA CommandTypes ==
    ASSUME ProgramTypeOK, NEW n \in Nodes,
           TakeEvent(n) \/ NodeIsDone(n) \/ NodeReady(n) \/ HostReturns(n) \/ ConnectFails
    PROVE  ChannelOK' /\ ModelTypeOK' /\ StateTypeOK' /\ UNCHANGED <<room, delivered>>
<1> USE GoroutinesDiffer
<1>1. /\ readers \in [Nodes -> Nat] /\ taken \in [Nodes -> Seq(Events)] /\ connects \in Nat
      /\ IsModel(ui) /\ NodeTypeOK /\ ChannelFits /\ StateTypeOK
  BY DEF ProgramTypeOK, ModelTypeOK
<1>2. CASE TakeEvent(n)
  <2>1. NodeTypeOK' /\ ChannelFits' /\ Head(events[n]) \in Events
    BY <1>1, <1>2, TakingFits DEF TakeEvent
  <2>2. taken' \in [Nodes -> Seq(Events)]
    <3>1. Append(taken[n], Head(events[n])) \in Seq(Events)
      BY <1>1, <2>1
    <3> QED BY <1>1, <1>2, <3>1 DEF TakeEvent
  <2>3. readers' \in [Nodes -> Nat]
    BY <1>1, <1>2 DEF TakeEvent
  <2> QED BY <1>1, <1>2, <2>1, <2>2, <2>3
          DEF TakeEvent, ChannelOK, ModelTypeOK, StateTypeOK, hostingVars, receivingVars
<1>3. CASE NodeIsDone(n)
  <2>1. readers' \in [Nodes -> Nat]
    BY <1>1, <1>3 DEF NodeIsDone
  <2>2. UNCHANGED <<life, outcome, reply, ui, connects, taken, events, at, direct, upgrade,
                    interrupted, hostingVars>>
    BY <1>3 DEF NodeIsDone, Quietly, SameWorld
  <2> QED BY <1>1, <2>1, <2>2
          DEF ChannelOK, NodeTypeOK, ChannelFits, ModelTypeOK, StateTypeOK, hostingVars
<1>4. CASE NodeReady(n)
  <2>1. IsModel(ui')
    BY <1>1, <1>4, ReadyModel DEF Becomes
  <2>2. UNCHANGED <<taken, reply, events, at, direct, upgrade, interrupted, hostingVars>>
    BY <1>4 DEF NodeReady, SameWorld
  <2>3. life' \in [Nodes -> {"none", "open", "closed"}] /\ connects' \in Nat
    BY <1>1, <1>4 DEF NodeReady, Start, StateTypeOK
  <2>4. readers' = [readers EXCEPT ![n] = @ + 1] /\ UNCHANGED outcome
    BY <1>4, NodeAssumption DEF NodeReady, Arm
  <2>5. readers' \in [Nodes -> Nat]
    BY <1>1, <2>4
  <2> QED BY <1>1, <2>1, <2>2, <2>3, <2>4, <2>5
          DEF ChannelOK, NodeTypeOK, ChannelFits, ModelTypeOK, StateTypeOK, hostingVars
<1>5. CASE HostReturns(n)
  <2>1. IsModel(ui')
    BY <1>1, <1>5, HostModel DEF Becomes
  <2>2. UNCHANGED <<events, connects, readers, taken, life, direct, upgrade, interrupted, outcome,
                    hostingVars, reply>>
    BY <1>5 DEF HostReturns, receivingVars, Moves
  <2>3. at' = [at EXCEPT ![n]["Host"] = "returned"] /\ "returned" \in Places
    BY <1>5 DEF HostReturns, Moves, Goto, Places, SenderPlaces
  <2>4. at' \in [Nodes -> [Goroutines -> Places]]
    BY <1>1, <2>3 DEF NodeTypeOK
  <2> QED BY <1>1, <2>1, <2>2, <2>4
          DEF ChannelOK, NodeTypeOK, ChannelFits, ModelTypeOK, StateTypeOK, hostingVars
<1>6. CASE ConnectFails
  <2>1. IsModel(ui')
    BY <1>1, <1>6, ErrorModel DEF ConnectFails, Becomes
  <2>2. connects' \in Nat
    BY <1>1, <1>6 DEF ConnectFails
  <2>3. UNCHANGED <<life, outcome, reply, readers, taken, events, at, direct, upgrade,
                    interrupted, hostingVars>>
    BY <1>6 DEF ConnectFails, Quietly, SameWorld
  <2> QED BY <1>1, <2>1, <2>2, <2>3
          DEF ChannelOK, NodeTypeOK, ChannelFits, ModelTypeOK, StateTypeOK, hostingVars
<1> QED BY <1>2, <1>3, <1>4, <1>5, <1>6

LEMMA KeyTypes ==
    ASSUME ProgramTypeOK, HandleKey
    PROVE  ChannelOK' /\ ModelTypeOK' /\ StateTypeOK' /\ UNCHANGED <<room, delivered>>
<1> USE GoroutinesDiffer
<1>1. /\ readers \in [Nodes -> Nat] /\ taken \in [Nodes -> Seq(Events)] /\ connects \in Nat
      /\ IsModel(ui) /\ NodeTypeOK /\ ChannelFits /\ StateTypeOK
  BY DEF ProgramTypeOK, ModelTypeOK
<1>2. UNCHANGED <<readers, taken, events, direct, upgrade, hostingVars>>
  BY DEF HandleKey, WelcomeKey, OutDirKey, PickFilesEsc, PickFilesSend, EnterCodeLeave,
       EnterCodeRefused, EnterCodeFetch, ConfirmKey, FinishedKey, Quit, Key, SameWorld,
       receivingVars, interfaceVars
<1>3. CASE WelcomeKey \/ OutDirKey \/ PickFilesEsc \/ EnterCodeLeave \/ EnterCodeRefused
  <2>1. IsModel(ui') /\ connects' \in Nat
    BY <1>1, <1>3, ChoosingModel DEF Becomes
  <2>2. UNCHANGED <<life, outcome, reply, at, interrupted>>
    BY <1>3 DEF WelcomeKey, OutDirKey, PickFilesEsc, EnterCodeLeave, EnterCodeRefused, Key,
         SameWorld
  <2> QED BY <1>1, <1>2, <2>1, <2>2
          DEF ChannelOK, NodeTypeOK, ChannelFits, ModelTypeOK, StateTypeOK, hostingVars
<1>4. CASE PickFilesSend \/ EnterCodeFetch
  <2>1. IsModel(ui')
    BY <1>1, <1>4, StartingModel DEF Becomes
  <2>2. UNCHANGED <<connects, life, outcome, reply, interrupted>>
    BY <1>4 DEF PickFilesSend, EnterCodeFetch, receivingVars
  <2>3. PICK g \in Goroutines, l \in Places : at' = [at EXCEPT ![ui.node][g] = l]
    <3>1. {"announcing", "called"} \subseteq Places
      BY DEF Places, SenderPlaces, FetchPlaces
    <3> QED BY <1>4, <3>1 DEF PickFilesSend, EnterCodeFetch, Goto
  <2>4. at' \in [Nodes -> [Goroutines -> Places]]
    <3>1. CASE ui.node \in Nodes
      BY <1>1, <2>3, <3>1 DEF NodeTypeOK
    <3>2. CASE ui.node \notin Nodes
      BY <1>1, <2>3, <3>2 DEF NodeTypeOK
    <3> QED BY <3>1, <3>2
  <2> QED BY <1>1, <1>2, <2>1, <2>2, <2>4
          DEF ChannelOK, NodeTypeOK, ChannelFits, ModelTypeOK, StateTypeOK, hostingVars
<1>5. CASE ConfirmKey \/ FinishedKey \/ Quit
  <2>1. IsModel(ui') /\ UNCHANGED <<at, connects>>
    BY <1>1, <1>5, ClosingModel
       DEF ConfirmKey, FinishedKey, Quit, Key, SameWorld, Becomes, interfaceVars
  <2>2. UNCHANGED life \/ Close(ui.node)
    BY <1>5 DEF ConfirmKey, FinishedKey, Quit, Answer, Reset
  <2>3. life' \in [Nodes -> {"none", "open", "closed"}]
    BY <1>1, <2>2 DEF Close, StateTypeOK
  <2>4. ASSUME NEW ok \in {"yes", "no"}, Answer(ok)
        PROVE  reply' \in [Nodes -> {"none", "yes", "no"}]
    BY <1>1, <2>4 DEF Answer, StateTypeOK
  <2>5. reply' \in [Nodes -> {"none", "yes", "no"}]
    BY <1>1, <1>5, <2>4 DEF ConfirmKey, FinishedKey, Quit, receivingVars, StateTypeOK
  <2>6. interrupted' \in BOOLEAN /\ outcome' \in {"running", "ok", "error", "crashed"}
    BY <1>1, <1>5 DEF ConfirmKey, FinishedKey, Quit, Key, SameWorld, StateTypeOK
  <2> QED BY <1>1, <1>2, <2>1, <2>3, <2>5, <2>6
          DEF ChannelOK, NodeTypeOK, ChannelFits, ModelTypeOK, StateTypeOK, hostingVars
<1> QED BY <1>3, <1>4, <1>5 DEF HandleKey

LEMMA NextTypes == ProgramTypeOK /\ [Next]_vars => ProgramTypeOK'
<1> SUFFICES ASSUME ProgramTypeOK, [Next]_vars PROVE ProgramTypeOK'
  OBVIOUS
<1>1. CASE UNCHANGED vars \/ Update \/ Ended
  BY <1>1 DEF vars, Update, Ended, nodeVars, hostingVars, receivingVars, interfaceVars,
       ProgramTypeOK, NodeTypeOK, RoomTypeOK, StateTypeOK, ModelTypeOK, ChannelFits
<1>2. CASE UseHeadless
  BY <1>2, HeadlessTypes
<1>3. CASE UseInterface
  <2>1. InterfaceStep /\ UNCHANGED command
    BY <1>3 DEF UseInterface, NoUpdate
  <2>2. ChannelOK' /\ ModelTypeOK' /\ StateTypeOK' /\ UNCHANGED <<room, delivered>>
    <3>1. PICK n \in Nodes : TRUE
      BY NodeAssumption
    <3>2. CASE HandleKey \/ ConnectFails
      BY <3>1, <3>2, KeyTypes, CommandTypes
    <3>3. ASSUME NEW m \in Nodes,
                 TakeEvent(m) \/ NodeIsDone(m) \/ NodeReady(m) \/ HostReturns(m)
          PROVE  ChannelOK' /\ ModelTypeOK' /\ StateTypeOK' /\ UNCHANGED <<room, delivered>>
      BY <3>3, CommandTypes
    <3>4. ASSUME NEW m \in Nodes, HandleEvent(m)
          PROVE  ChannelOK' /\ ModelTypeOK' /\ StateTypeOK' /\ UNCHANGED <<room, delivered>>
      BY <3>4, HandleTypes DEF ProgramTypeOK, ChannelOK, NodeTypeOK, ChannelFits
    <3> QED BY <2>1, <3>2, <3>3, <3>4 DEF InterfaceStep
  <2> QED BY <2>1, <2>2 DEF ProgramTypeOK, ChannelOK, RoomTypeOK
<1>4. CASE \E n \in Nodes : NodeStep(n)
  BY <1>4, NodeStepTypes
<1> QED BY <1>1, <1>2, <1>3, <1>4 DEF Next

LEMMA InitTypes == Init => ProgramTypeOK
<1> SUFFICES ASSUME Init PROVE ProgramTypeOK
  OBVIOUS
<1> USE DEF Init, NodeInit, HostingInit, ReceivingInit, InterfaceInit
<1>1. NodeTypeOK /\ ChannelFits
  <2>1. "off" \in Places /\ <<>> \in Seq(Events) /\ Len(<<>>) <= Capacity
    BY PlacesAreNamed, NodeAssumption
  <2> QED BY <2>1 DEF NodeTypeOK, ChannelFits
<1>2. RoomTypeOK
  BY DEF RoomTypeOK
<1>3. StateTypeOK
  BY DEF StateTypeOK, UpgradePlaces
<1>4. ModelTypeOK
  <2>1. IsModel(ui)
    BY DEF NewModel, IsModel, ModelFields, Screens
  <2>2. <<>> \in Seq(Events)
    OBVIOUS
  <2> QED BY <2>1, <2>2 DEF ModelTypeOK
<1> QED BY <1>1, <1>2, <1>3, <1>4 DEF ProgramTypeOK

LEMMA TypesOfTheProgram == Spec => []ProgramTypeOK
BY InitTypes, NextTypes, PTL DEF Spec

\* Every variable of the program keeps its type, and no channel ever holds more than
\* it has places for, whatever the interface, -send, -receive and their nodes do.
THEOREM ProgramTypes == Spec => []TypeOK
<1>1. ProgramTypeOK => TypeOK
  <2> SUFFICES ASSUME ProgramTypeOK PROVE TypeOK
    OBVIOUS
  <2>1. \A n \in Nodes : events[n] \in SeqOf(Events, Capacity)
    <3> SUFFICES ASSUME NEW n \in Nodes PROVE events[n] \in SeqOf(Events, Capacity)
      OBVIOUS
    <3>1. events[n] \in Seq(Events) /\ Len(events[n]) <= Capacity /\ Capacity \in Nat
      BY NodeAssumption DEF ProgramTypeOK, NodeTypeOK, ChannelFits
    <3>2. events[n] \in [1 .. Len(events[n]) -> Events] /\ Len(events[n]) \in 0 .. Capacity
      BY <3>1
    <3> QED BY <3>2 DEF SeqOf
  <2> QED BY <2>1 DEF TypeOK, ProgramTypeOK, ModelTypeOK, IsModel, StateTypeOK, RoomTypeOK
<1> QED BY <1>1, TypesOfTheProgram, PTL

-----------------------------------------------------------------------------
(* What a step of a node does, as far as the interface goes.                *)

\* A node puts e in its channel, or nothing.
Says(n, e) == UNCHANGED events \/ events' = [events EXCEPT ![n] = Append(@, e)]

\* Other nodes do not notice.
OnlyOf(n) ==
    \A m \in Nodes \ {n} :
        /\ events'[m] = events[m] /\ at'[m] = at[m] /\ upgrade'[m] = upgrade[m]
        /\ room'[m] = room[m]

LEMMA SayingIsLocal ==
    ASSUME ProgramTypeOK, NEW n \in Nodes, NEW e \in Events, Emit(n, e)
    PROVE  Says(n, e) /\ \A m \in Nodes \ {n} : events'[m] = events[m]
<1>1. Says(n, e)
  BY DEF Emit, Put, Says
<1> QED BY <1>1 DEF Says, ProgramTypeOK, NodeTypeOK

\* A goroutine that serves goes on, or speaks.
LEMMA EnderMoves ==
    ASSUME ProgramTypeOK, NEW n \in Nodes, NEW g \in Enders, NEW to,
           at' = [at EXCEPT ![n][g] = to]
    PROVE  /\ at'[n]["Fetch"] = at[n]["Fetch"] /\ at'[n]["Host"] = at[n]["Host"]
           /\ \A m \in Nodes \ {n} : at'[m] = at[m]
BY GoroutinesDiffer DEF ProgramTypeOK, NodeTypeOK

\* A goroutine of Host, other than Host itself, runs only once there is a room, and
\* never asks a question.
LEMMA HostingIsLocal ==
    ASSUME ProgramTypeOK, NEW n \in Nodes, HostingStep(n), UNCHANGED receivingVars
    PROVE  /\ OnlyOf(n) /\ UNCHANGED <<life, interrupted, reply>>
           /\ \E e \in Events \ {"manifest"} : Says(n, e)
           /\ at'[n]["Fetch"] = at[n]["Fetch"]
           /\ \/ /\ at[n]["Host"] = "announcing"
                 /\ \/ at'[n]["Host"] = "hosted"
                    \/ /\ at' = [at EXCEPT ![n]["Host"] = "refused"]
                       /\ UNCHANGED <<events, room, upgrade>>
              \/ /\ at'[n]["Host"] = at[n]["Host"]
                 /\ room[n] = "open" \/ \E g \in Enders : at[n][g] # "off"
<1> USE GoroutinesDiffer
<1>1. UNCHANGED <<life, interrupted, reply>>
  BY DEF HostingStep, Host, ReadFiles, WatchOffer, KeepRoom, Abandon, Serve, Reject, Claim, Greet,
         SendProgress, SendEnds, SameNode, receivingVars
<1>2. /\ at \in [Nodes -> [Goroutines -> Places]] /\ events \in [Nodes -> Seq(Events)]
      /\ room \in [Nodes -> {"none", "open", "closed"}]
      /\ upgrade \in [Nodes -> [Streams -> UpgradePlaces]]
  BY DEF ProgramTypeOK, NodeTypeOK, RoomTypeOK, StateTypeOK
<1>3. CASE Host(n)
  <2>1. at[n]["Host"] = "announcing" /\ UNCHANGED <<events, upgrade>>
    BY <1>3 DEF Host, SameNode
  <2>2. Says(n, "notice") /\ "notice" \in Events \ {"manifest"}
    BY <2>1 DEF Says, Events
  <2>3. CASE /\ room' = [room EXCEPT ![n] = "open"]
             /\ at' = [at EXCEPT ![n]["Host"] = "hosted", ![n]["watchOffer"] = "reading",
                                 ![n]["keepRoom"] = "keeping"]
    <3>1. at'[n]["Host"] = "hosted" /\ at'[n]["Fetch"] = at[n]["Fetch"]
      BY <1>2, <2>3, NodeAssumption
    <3>2. OnlyOf(n)
      BY <1>2, <2>1, <2>3 DEF OnlyOf
    <3> QED BY <1>1, <2>1, <2>2, <3>1, <3>2
  <2>4. CASE Goto(n, "Host", "refused") /\ UNCHANGED room
    <3>1. at' = [at EXCEPT ![n]["Host"] = "refused"]
      BY <2>4 DEF Goto
    <3>2. at'[n]["Fetch"] = at[n]["Fetch"] /\ OnlyOf(n)
      BY <1>2, <2>1, <2>4, <3>1 DEF OnlyOf
    <3> QED BY <1>1, <2>1, <2>2, <2>4, <3>1, <3>2
  <2> QED BY <1>3, <2>3, <2>4 DEF Host
<1> DEFINE Works(g) ==
               /\ UNCHANGED at \/ \E to : at' = [at EXCEPT ![n][g] = to]
               /\ at[n][g] # "off" \/ room[n] = "open"
           Speaks == UNCHANGED events \/ \E e \in Events \ {"manifest"} : Emit(n, e)
           Touches ==
               /\ UNCHANGED room \/ room' = [room EXCEPT ![n] = "closed"]
               /\ UNCHANGED upgrade \/ \E s, p : upgrade' = [upgrade EXCEPT ![n][s] = p]
<1>4. ASSUME NEW g \in Enders, Works(g), Speaks, Touches
      PROVE  /\ OnlyOf(n) /\ \E e \in Events \ {"manifest"} : Says(n, e)
             /\ at'[n]["Fetch"] = at[n]["Fetch"] /\ at'[n]["Host"] = at[n]["Host"]
             /\ room[n] = "open" \/ \E h \in Enders : at[n][h] # "off"
  <2>1. /\ at'[n]["Fetch"] = at[n]["Fetch"] /\ at'[n]["Host"] = at[n]["Host"]
        /\ \A m \in Nodes \ {n} : at'[m] = at[m]
    BY <1>4, EnderMoves
  <2>2. PICK e \in Events \ {"manifest"} :
            Says(n, e) /\ \A m \in Nodes \ {n} : events'[m] = events[m]
    <3>1. CASE UNCHANGED events
      BY <3>1 DEF Says, Events
    <3> QED BY <1>4, <3>1, SayingIsLocal
  <2>3. \A m \in Nodes \ {n} : upgrade'[m] = upgrade[m] /\ room'[m] = room[m]
    BY <1>2, <1>4
  <2> QED BY <1>4, <2>1, <2>2, <2>3 DEF OnlyOf
<1>5. ASSUME NEW g, NEW from, NEW e, NEW to, Tells(n, g, from, e, to)
      PROVE  Emit(n, e) /\ at[n][g] = from /\ at' = [at EXCEPT ![n][g] = to]
  BY <1>5 DEF Tells, Goto
<1>6. ASSUME NEW g, NEW from, NEW to, Moves(n, g, from, to)
      PROVE  UNCHANGED events /\ at[n][g] = from /\ at' = [at EXCEPT ![n][g] = to]
  BY <1>6 DEF Moves, Goto
<1>7. {"notice", "preparing", "direct", "relayed", "saved", "failed", "roomLost", "progress"}
         = Events \ {"manifest"}
  BY DEF Events
<1>8. CASE ReadFiles(n) \/ WatchOffer(n) \/ KeepRoom(n)
  <2>1. Touches
    BY <1>8 DEF ReadFiles, WatchOffer, KeepRoom, SameRoom, SameNode, hostingVars
  <2>2. Speaks
    BY <1>5, <1>6, <1>7, <1>8 DEF ReadFiles, WatchOffer, KeepRoom
  <2>3. CASE ReadFiles(n) \/ WatchOffer(n)
    <3>1. Works("watchOffer")
      BY <1>5, <1>6, <2>3 DEF ReadFiles, WatchOffer
    <3> QED BY <1>1, <1>4, <2>1, <2>2, <3>1
  <2>4. CASE KeepRoom(n)
    <3>1. Works("keepRoom")
      BY <1>5, <1>6, <2>4 DEF KeepRoom
    <3> QED BY <1>1, <1>4, <2>1, <2>2, <3>1
  <2> QED BY <1>8, <2>3, <2>4
<1>9. ASSUME NEW g \in Enders, Abandon(n, g) PROVE Works(g) /\ Speaks /\ Touches
  <2>1. Touches
    BY <1>9 DEF Abandon, CloseRoom, SameNode
  <2>2. Speaks /\ Works(g)
    BY <1>5, <1>6, <1>7, <1>9 DEF Abandon
  <2> QED BY <2>1, <2>2
<1>10. ASSUME NEW s \in Serves,
              \/ Serve(n, s) \/ Reject(n, s) \/ Claim(n, s) \/ Greet(n, s)
              \/ SendProgress(n, s) \/ SendEnds(n, s)
       PROVE  Works(s) /\ Speaks /\ Touches
  <2>1. Touches
    BY <1>10 DEF Serve, Reject, Claim, Greet, SendProgress, SendEnds, CloseRoom, SameRoom, SameNode,
         hostingVars, WatchUnlessDirect
  <2>2. CASE Serve(n, s) \/ Reject(n, s) \/ Claim(n, s)
    BY <1>5, <1>6, <1>7, <2>1, <2>2 DEF Serve, Reject, Claim
  <2>3. CASE Greet(n, s)
    BY <1>5, <1>6, <1>7, <2>1, <2>3 DEF Greet
  <2>4. CASE SendProgress(n, s)
    <3>1. Emit(n, "progress") /\ UNCHANGED at /\ at[n][s] = "sending"
      BY <2>4 DEF SendProgress, EmitProgress, Emit
    <3> QED BY <1>7, <2>1, <3>1
  <2>5. CASE SendEnds(n, s)
    BY <1>5, <1>6, <1>7, <2>1, <2>5 DEF SendEnds
  <2> QED BY <1>10, <2>2, <2>3, <2>4, <2>5
<1>11. ASSUME NEW g \in Enders, Works(g) /\ Speaks /\ Touches
       PROVE  /\ OnlyOf(n) /\ UNCHANGED <<life, interrupted, reply>>
              /\ \E e \in Events \ {"manifest"} : Says(n, e)
              /\ at'[n]["Fetch"] = at[n]["Fetch"]
              /\ at'[n]["Host"] = at[n]["Host"]
              /\ room[n] = "open" \/ \E h \in Enders : at[n][h] # "off"
  BY <1>1, <1>4, <1>11
<1>12. CASE \E g \in Enders : Abandon(n, g)
  BY <1>9, <1>11, <1>12
<1>13. CASE \E s \in Serves : \/ Serve(n, s) \/ Reject(n, s) \/ Claim(n, s) \/ Greet(n, s)
                               \/ SendProgress(n, s) \/ SendEnds(n, s)
  BY <1>10, <1>11, <1>13
<1> QED BY <1>3, <1>8, <1>12, <1>13 DEF HostingStep

\* Fetch asks once, with an empty answer, and says nothing until it has one.
FetchMoves(n) ==
    LET from == at[n]["Fetch"]
        to == at'[n]["Fetch"]
    IN  /\ from # "off" /\ to # "off"
        /\ to = "called" => from = "called"
        /\ to = "asked" => from \in {"asking", "asked"}
        /\ from = "asked" => UNCHANGED events /\ (to # from => reply[n] # "none" \/ interrupted)
        /\ from \in AfterAsked => to \in AfterAsked
        /\ \E e \in Events : Says(n, e) /\ (e = "manifest" => from = "asking" /\ to = "asked")

LEMMA ReceivingIsLocal ==
    ASSUME ProgramTypeOK, NEW n \in Nodes, ReceivingStep(n), UNCHANGED hostingVars
    PROVE  /\ OnlyOf(n) /\ UNCHANGED <<life, interrupted, reply, room>>
           /\ \A g \in Goroutines \ {"Fetch"} : at'[n][g] = at[n][g]
           /\ FetchMoves(n)
<1> USE GoroutinesDiffer
<1>1. UNCHANGED <<life, interrupted, reply, room>>
  BY DEF ReceivingStep, FetchStep, FetchStarts, Connect, Watch, WaitForDirect, OpenStream, Confirm,
         Receive, FetchEnds, WaitTimesOut, EndWait, Trace, ReceiveProgress, SameSession, nodeVars,
         receivingVars, hostingVars
<1>2. /\ at \in [Nodes -> [Goroutines -> Places]] /\ events \in [Nodes -> Seq(Events)]
      /\ upgrade \in [Nodes -> [Streams -> UpgradePlaces]]
  BY DEF ProgramTypeOK, NodeTypeOK, StateTypeOK
<1>3. \A m \in Nodes \ {n} : upgrade'[m] = upgrade[m]
  <2>1. UNCHANGED upgrade \/ WatchUnlessDirect(n, "Fetch", FALSE)
    BY DEF ReceivingStep, FetchStep, FetchStarts, Connect, Watch, WaitForDirect, OpenStream,
         Confirm, Receive, FetchEnds, WaitTimesOut, EndWait, Trace, ReceiveProgress, nodeVars,
         SameSession
  <2> QED BY <1>2, <2>1 DEF WatchUnlessDirect
<1>4. ASSUME NEW from, NEW to, at[n]["Fetch"] = from, at' = [at EXCEPT ![n]["Fetch"] = to]
      PROVE  /\ \A m \in Nodes \ {n} : at'[m] = at[m]
             /\ \A g \in Goroutines \ {"Fetch"} : at'[n][g] = at[n][g]
             /\ at'[n]["Fetch"] = to
  BY <1>2, <1>4
<1> DEFINE Goal ==
               /\ OnlyOf(n)
               /\ \A g \in Goroutines \ {"Fetch"} : at'[n][g] = at[n][g]
               /\ FetchMoves(n)
           \* Where Fetch may go in silence, and while it says e.
           Silent(from, to) ==
               /\ from # "off" /\ to \notin {"off", "asked", "called"}
               /\ from = "asked" => reply[n] # "none" \/ interrupted
               /\ from \in AfterAsked => to \in AfterAsked
           Saying(from, e, to) ==
               /\ from \notin {"off", "asked"} /\ to \notin {"off", "called"}
               /\ e = "manifest" => from = "asking" /\ to = "asked"
               /\ to = "asked" => from = "asking"
               /\ from \in AfterAsked => to \in AfterAsked
<1>5. ASSUME NEW from, NEW to, Moves(n, "Fetch", from, to), Silent(from, to)
      PROVE  Goal
  <2>1. /\ UNCHANGED events /\ at[n]["Fetch"] = from
        /\ \A m \in Nodes \ {n} : at'[m] = at[m]
        /\ \A g \in Goroutines \ {"Fetch"} : at'[n][g] = at[n][g]
        /\ at'[n]["Fetch"] = to
    BY <1>4, <1>5 DEF Moves, Goto
  <2>2. Says(n, "notice") /\ "notice" \in Events
    BY <2>1 DEF Says, Events
  <2> QED BY <1>1, <1>3, <1>5, <2>1, <2>2 DEF FetchMoves, OnlyOf
<1>6. ASSUME NEW from, NEW e \in Events, NEW to, Tells(n, "Fetch", from, e, to), Saying(from, e, to)
      PROVE  Goal
  <2>1. /\ Emit(n, e) /\ at[n]["Fetch"] = from
        /\ \A m \in Nodes \ {n} : at'[m] = at[m]
        /\ \A g \in Goroutines \ {"Fetch"} : at'[n][g] = at[n][g]
        /\ at'[n]["Fetch"] = to
    BY <1>4, <1>6 DEF Tells, Goto
  <2>2. Says(n, e) /\ \A m \in Nodes \ {n} : events'[m] = events[m]
    BY <2>1, SayingIsLocal
  <2> QED BY <1>1, <1>3, <1>6, <2>1, <2>2 DEF FetchMoves, OnlyOf
<1>7. {"notice", "preparing", "direct", "relayed", "manifest", "saved", "failed"} \subseteq Events
  BY DEF Events
<1> HIDE DEF Goal
<1>8. ASSUME FetchStarts(n) PROVE Goal
  BY <1>5, <1>6, <1>7, <1>8 DEF FetchStarts, AfterAsked
<1>9. ASSUME Connect(n) \/ Watch(n) PROVE Goal
  BY <1>5, <1>9 DEF Connect, Watch, AfterAsked
<1>10. ASSUME WaitForDirect(n) \/ WaitTimesOut(n) PROVE Goal
  BY <1>5, <1>10 DEF WaitForDirect, WaitTimesOut, EndWait, AfterAsked
<1>11. ASSUME OpenStream(n) PROVE Goal
  <2>1. CASE Tells(n, "Fetch", "connectedDirect", "direct", "opened")
    BY <1>6, <1>7, <2>1 DEF AfterAsked
  <2>2. CASE Tells(n, "Fetch", "connectedRelayed", "relayed", "opened")
    BY <1>6, <1>7, <2>2 DEF AfterAsked
  <2>3. CASE Tells(n, "Fetch", "opened", "notice", "opened")
    BY <1>6, <1>7, <2>3 DEF AfterAsked
  <2>4. ASSUME NEW to \in {"asking", "failing"}, Moves(n, "Fetch", "opened", to) PROVE Goal
    BY <1>5, <2>4 DEF AfterAsked
  <2> QED BY <1>11, <2>1, <2>2, <2>3, <2>4 DEF OpenStream
<1>12. ASSUME Confirm(n) PROVE Goal
  BY <1>5, <1>6, <1>7, <1>12 DEF Confirm, AfterAsked
<1>13. ASSUME Receive(n) \/ FetchEnds(n) PROVE Goal
  BY <1>5, <1>6, <1>7, <1>13 DEF Receive, FetchEnds, AfterAsked
<1>14. ASSUME Trace(n) PROVE Goal
  <2>1. UNCHANGED <<events, at, upgrade>> /\ at[n]["Fetch"] = "waiting"
    BY <1>14 DEF Trace, nodeVars
  <2>2. Says(n, "notice") /\ "notice" \in Events
    BY <2>1 DEF Says, Events
  <2> QED BY <1>1, <2>1, <2>2 DEF Goal, FetchMoves, OnlyOf, AfterAsked
<1>15. ASSUME ReceiveProgress(n) PROVE Goal
  <2>1. UNCHANGED <<at, upgrade>> /\ at[n]["Fetch"] = "receiving" /\ Emit(n, "progress")
    BY <1>15 DEF ReceiveProgress, EmitProgress, Emit, SameSession
  <2>2. /\ Says(n, "progress") /\ "progress" \in Events
        /\ \A m \in Nodes \ {n} : events'[m] = events[m]
    BY <2>1, SayingIsLocal DEF Events
  <2> QED BY <1>1, <2>1, <2>2 DEF Goal, FetchMoves, OnlyOf, AfterAsked
<1>16. Goal
  BY <1>8, <1>9, <1>10, <1>11, <1>12, <1>13, <1>14, <1>15 DEF ReceivingStep, FetchStep
<1> QED BY <1>1, <1>16 DEF Goal

\* The hole puncher and watchDirectUpgrade only say that a connection is direct.
LEMMA UpgradingIsLocal ==
    ASSUME ProgramTypeOK, NEW n \in Nodes,
           PunchesThrough(n) \/ \E s \in Streams : WatchUpgrade(n, s),
           UNCHANGED <<hostingVars, receivingVars>>
    PROVE  /\ OnlyOf(n) /\ UNCHANGED <<life, interrupted, reply, at, room>>
           /\ Says(n, "direct")
           /\ at[n]["Fetch"] # "off" \/ \E s \in Streams : upgrade[n][s] # "off"
<1>1. UNCHANGED <<life, interrupted, reply, at, room>>
  BY DEF PunchesThrough, WatchUpgrade, hostingVars, receivingVars
<1>2. CASE PunchesThrough(n)
  BY <1>1, <1>2 DEF PunchesThrough, OnlyOf, Says
<1>3. ASSUME NEW s \in Streams, WatchUpgrade(n, s)
      PROVE  OnlyOf(n) /\ Says(n, "direct") /\ upgrade[n][s] # "off"
  <2>1. UNCHANGED events \/ Emit(n, "direct")
    BY <1>3 DEF WatchUpgrade
  <2>2. Says(n, "direct") /\ \A m \in Nodes \ {n} : events'[m] = events[m]
    BY <2>1, SayingIsLocal DEF Says, Events
  <2>3. \A m \in Nodes \ {n} : upgrade'[m] = upgrade[m]
    BY <1>3 DEF WatchUpgrade, ProgramTypeOK, StateTypeOK
  <2> QED BY <1>1, <1>3, <2>2, <2>3 DEF WatchUpgrade, OnlyOf
<1> QED BY <1>1, <1>2, <1>3

-----------------------------------------------------------------------------
(* What the invariant of the interface says of one node.                    *)

\* A step does not touch m, nor what the interface has of it.
SameOf(m) ==
    /\ events'[m] = events[m] /\ taken'[m] = taken[m] /\ at'[m] = at[m]
    /\ upgrade'[m] = upgrade[m] /\ room'[m] = room[m] /\ reply'[m] = reply[m]

LEMMA SameStaysIdle ==
    ASSUME NEW m \in Nodes, SameOf(m)
    PROVE  (Still(m)' <=> Still(m)) /\ (Idle(m)' <=> Idle(m))
BY DEF SameOf, Still, Idle

\* What is not idle is the node of the session that goes on, or one that was closed.
LEMMA WhoMoves ==
    ASSUME SessionInv, NEW n \in Nodes, life[n] # "none", ~Idle(n), ProgramTypeOK
    PROVE  \/ n = ui.node /\ life[n] = "open" /\ ~Choosing
           \/ life[n] = "closed" /\ n # ui.node
<1>1. life[n] \in {"open", "closed"} /\ n # NoNode
  BY NodeAssumption DEF ProgramTypeOK, StateTypeOK
<1>2. CASE n = ui.node
  BY <1>1, <1>2 DEF SessionInv, CurrentIsOpen, ChoosingIsIdle
<1>3. CASE n # ui.node
  BY <1>1, <1>3 DEF SessionInv, StrangersIdle
<1> QED BY <1>2, <1>3

\* Only the screen that asks has a question.
LEMMA QuestionIsShown ==
    ASSUME SessionInv, ProgramTypeOK, ui.reply # NoNode
    PROVE  /\ ui.reply = ui.node /\ ui.node \in Nodes
           /\ ui.screen = "Confirm" /\ Asked(ui.node) /\ connects = 0
<1>1. ui.reply = ui.node /\ ui.node \in Nodes
  BY DEF SessionInv, QuestionIsCurrent, ProgramTypeOK, ModelTypeOK, IsModel
<1>2. ui.screen = "Confirm" /\ Asked(ui.node)
  BY <1>1 DEF SessionInv, QuestionIsLast
<1>3. connects = 0
  BY <1>2 DEF SessionInv, OneConnects, ProgramTypeOK, ModelTypeOK
<1> QED BY <1>1, <1>2, <1>3

LEMMA SessionKeepsPromise == ASSUME SessionInv, ProgramTypeOK PROVE Promise
<1>1. QuestionStays
  BY QuestionIsShown DEF QuestionStays
<1>2. StrayNodesIdle
  <2>1. ASSUME NEW n \in Nodes, Idle(n) PROVE \A g \in Goroutines : at[n][g] = "off"
    BY <2>1 DEF Idle, Still
  <2> QED BY <2>1 DEF SessionInv, StrangersIdle, StrayNodesIdle
<1> QED BY <1>1, <1>2 DEF SessionInv, Promise

-----------------------------------------------------------------------------
(* The steps of a node.                                                     *)

SameInterface == UNCHANGED <<ui, connects, readers, taken>>

\* A step of one node, of which Host and the fetch of a session are looked at apart.
LEMMA NodeKeepsSession ==
    ASSUME ProgramTypeOK, SessionInv, NEW n \in Nodes, life[n] # "none", ~Idle(n),
           OnlyOf(n), UNCHANGED <<life, interrupted, reply>>, SameInterface,
           at'[n]["Host"] \in {"announcing", "refused"} =>
               at[n]["Host"] = "announcing" /\ Still(n)',
           at'[n]["Host"] = "hosted" => at[n]["Host"] \in {"announcing", "hosted"},
           n = ui.node => FetchIsAlone' /\ QuestionIsLast' /\ AnswerIsLater'
    PROVE  SessionInv'
<1>1. \/ n = ui.node /\ life[n] = "open" /\ ~Choosing
      \/ life[n] = "closed" /\ n # ui.node
  BY WhoMoves
<1>2. \A m \in Nodes \ {n} : SameOf(m)
  BY DEF OnlyOf, SameOf, SameInterface
<1>3. \A m \in Nodes \ {n} : (Still(m)' <=> Still(m)) /\ (Idle(m)' <=> Idle(m))
  BY <1>2, SameStaysIdle
<1>4. ~interrupted' /\ OneReader' /\ CurrentIsOpen' /\ OneConnects' /\ QuestionIsCurrent'
  BY DEF SessionInv, SameInterface, OneReader, CurrentIsOpen, OneConnects, QuestionIsCurrent
<1>5. StrangersIdle'
  BY <1>1, <1>3 DEF SessionInv, SameInterface, StrangersIdle
<1>6. HostIsAwaited'
  BY <1>2, <1>3 DEF SessionInv, SameInterface, HostIsAwaited, SameOf
<1>7. ClosedAreSettled'
  <2>1. life[n] = "closed" /\ at'[n]["Host"] = "hosted" => at[n]["Host"] = "hosted"
    BY <1>1 DEF SessionInv, HostIsAwaited
  <2> QED BY <1>2, <2>1 DEF SessionInv, SameInterface, ClosedAreSettled, SameOf
<1>8. ChoosingIsIdle'
  <2>1. ui.node \in Nodes \cup {NoNode}
    BY DEF ProgramTypeOK, ModelTypeOK, IsModel
  <2>2. Choosing' <=> Choosing
    BY DEF SameInterface, Choosing
  <2> QED BY <1>1, <1>3, <2>1, <2>2 DEF SessionInv, SameInterface, ChoosingIsIdle
<1>9. FetchIsAlone' /\ QuestionIsLast' /\ AnswerIsLater'
  <2>1. CASE n = ui.node
    BY <2>1
  <2>2. CASE ui.node = NoNode
    BY <2>2 DEF SameInterface, FetchIsAlone, QuestionIsLast, AnswerIsLater
  <2>3. CASE ui.node \in Nodes \ {n}
    <3>1. SameOf(ui.node) /\ UNCHANGED ui
      BY <1>2, <2>3 DEF SameInterface
    <3>2. FetchIsAlone' /\ AnswerIsLater'
      BY <3>1 DEF SessionInv, FetchIsAlone, AnswerIsLater, SameOf
    <3>3. QuestionIsLast'
      BY <3>1 DEF SessionInv, QuestionIsLast, SameOf, Asked
    <3> QED BY <3>2, <3>3
  <2> QED BY <2>1, <2>2, <2>3 DEF ProgramTypeOK, ModelTypeOK, IsModel
<1> QED BY <1>4, <1>5, <1>6, <1>7, <1>8, <1>9 DEF SessionInv

\* What stood in the channel stays where it was, and only the last may be new.
LEMMA SayingAtTheEnd ==
    ASSUME ProgramTypeOK, NEW n \in Nodes, NEW e \in Events, Says(n, e)
    PROVE  /\ \A i \in DOMAIN events'[n] :
                 \/ i \in DOMAIN events[n] /\ events'[n][i] = events[n][i]
                 \/ /\ events'[n][i] = e /\ i \notin DOMAIN events[n]
                    /\ \A j \in DOMAIN events'[n] : ~(j > i)
           /\ DOMAIN events'[n] \subseteq Nat
<1>1. events[n] \in Seq(Events) /\ events \in [Nodes -> Seq(Events)]
  BY DEF ProgramTypeOK, NodeTypeOK
<1>2. CASE UNCHANGED events
  BY <1>1, <1>2
<1>3. CASE events' = [events EXCEPT ![n] = Append(@, e)]
  <2>1. events'[n] = Append(events[n], e)
    BY <1>1, <1>3
  <2>2. /\ Len(events[n]) \in Nat /\ DOMAIN events[n] = 1 .. Len(events[n])
        /\ DOMAIN events'[n] = 1 .. Len(events[n]) + 1
        /\ \A i \in 1 .. Len(events[n]) : events'[n][i] = events[n][i]
        /\ events'[n][Len(events[n]) + 1] = e
    BY <1>1, <2>1
  <2> QED BY <2>2
<1> QED BY <1>2, <1>3 DEF Says

LEMMA HostingKeepsSession ==
    ASSUME ProgramTypeOK, SessionInv, NEW n \in Nodes, life[n] # "none",
           HostingStep(n), UNCHANGED receivingVars, SameInterface
    PROVE  SessionInv'
<1> USE GoroutinesDiffer
<1>1. /\ OnlyOf(n) /\ UNCHANGED <<life, interrupted, reply>>
      /\ \E e \in Events \ {"manifest"} : Says(n, e)
      /\ at'[n]["Fetch"] = at[n]["Fetch"]
      /\ \/ /\ at[n]["Host"] = "announcing"
            /\ \/ at'[n]["Host"] = "hosted"
               \/ /\ at' = [at EXCEPT ![n]["Host"] = "refused"]
                  /\ UNCHANGED <<events, room, upgrade>>
         \/ /\ at'[n]["Host"] = at[n]["Host"]
            /\ room[n] = "open" \/ \E g \in Enders : at[n][g] # "off"
  BY HostingIsLocal
<1>2. at \in [Nodes -> [Goroutines -> Places]]
  BY DEF ProgramTypeOK, NodeTypeOK
<1>3. ~Idle(n)
  BY <1>1 DEF Idle, Still
<1>4. at'[n]["Host"] \in {"announcing", "refused"} =>
          at[n]["Host"] = "announcing" /\ Still(n)'
  <2>1. CASE /\ at[n]["Host"] = "announcing" /\ at' = [at EXCEPT ![n]["Host"] = "refused"]
             /\ UNCHANGED <<events, room, upgrade>>
    <3>1. Still(n)
      BY <2>1 DEF SessionInv, HostIsAwaited
    <3>2. \A g \in Goroutines \ {"Host"} : at'[n][g] = at[n][g]
      BY <1>2, <2>1
    <3> QED BY <1>1, <2>1, <3>1, <3>2 DEF Still, SameInterface
  <2>2. CASE at[n]["Host"] = "announcing" /\ at'[n]["Host"] = "hosted"
    BY <2>2
  <2>3. CASE /\ at'[n]["Host"] = at[n]["Host"]
             /\ room[n] = "open" \/ \E g \in Enders : at[n][g] # "off"
    <3>1. ~Still(n)
      BY <2>3 DEF Still
    <3>2. at[n]["Host"] \notin {"announcing", "refused"}
      BY <3>1 DEF SessionInv, HostIsAwaited
    <3> QED BY <2>3, <3>2
  <2> QED BY <1>1, <2>1, <2>2, <2>3
<1>5. at'[n]["Host"] = "hosted" => at[n]["Host"] \in {"announcing", "hosted"}
  BY <1>1
<1>6. ASSUME n = ui.node PROVE FetchIsAlone' /\ QuestionIsLast' /\ AnswerIsLater'
  <2>1. n # NoNode /\ ui' = ui /\ taken' = taken
    BY NodeAssumption DEF SameInterface
  <2>2. at[n]["Fetch"] = "off"
    BY <1>1, <1>6, <2>1 DEF SessionInv, FetchIsAlone
  <2>3. FetchIsAlone'
    BY <1>1, <1>6, <2>1, <2>2 DEF FetchIsAlone
  <2>4. AnswerIsLater'
    BY <1>1, <1>6, <2>1 DEF SessionInv, AnswerIsLater
  <2>5. /\ \A i \in DOMAIN events[n] : events[n][i] # "manifest"
        /\ \A i \in DOMAIN taken[n] : taken[n][i] # "manifest"
        /\ ui.reply # n
    BY <1>6, <2>1, <2>2 DEF SessionInv, QuestionIsLast, Asked
  <2>6. \A i \in DOMAIN events'[n] : events'[n][i] # "manifest"
    BY <1>1, <2>5, SayingAtTheEnd
  <2>7. QuestionIsLast'
    BY <1>6, <2>1, <2>5, <2>6 DEF QuestionIsLast
  <2> QED BY <2>3, <2>4, <2>7
<1> QED BY <1>1, <1>3, <1>4, <1>5, <1>6, NodeKeepsSession

LEMMA ReceivingKeepsSession ==
    ASSUME ProgramTypeOK, SessionInv, NEW n \in Nodes, life[n] # "none",
           ReceivingStep(n), UNCHANGED hostingVars, SameInterface
    PROVE  SessionInv'
<1> USE GoroutinesDiffer
<1>1. /\ OnlyOf(n) /\ UNCHANGED <<life, interrupted, reply, room>>
      /\ \A g \in Goroutines \ {"Fetch"} : at'[n][g] = at[n][g]
      /\ FetchMoves(n)
  BY ReceivingIsLocal
<1> DEFINE from == at[n]["Fetch"]
           to == at'[n]["Fetch"]
<1>2. /\ from # "off" /\ to # "off"
      /\ to = "asked" => from \in {"asking", "asked"}
      /\ from = "asked" => UNCHANGED events /\ (to # from => reply[n] # "none" \/ interrupted)
      /\ from \in AfterAsked => to \in AfterAsked
      /\ \E e \in Events : Says(n, e) /\ (e = "manifest" => from = "asking" /\ to = "asked")
  BY <1>1 DEF FetchMoves
<1>3. ~Still(n) /\ ~Idle(n)
  BY <1>2 DEF Idle, Still
<1>4. at'[n]["Host"] = at[n]["Host"] /\ at[n]["Host"] \notin {"announcing", "refused"}
  BY <1>1, <1>3 DEF SessionInv, HostIsAwaited
<1>5. ASSUME n = ui.node PROVE FetchIsAlone' /\ QuestionIsLast' /\ AnswerIsLater'
  <2>1. n # NoNode /\ ui' = ui /\ taken' = taken /\ ~interrupted
    BY NodeAssumption DEF SameInterface, SessionInv
  <2>2. FetchIsAlone'
    <3>1. \A g \in Enders : at'[n][g] = at[n][g]
      BY <1>1
    <3> QED BY <1>1, <1>2, <1>4, <1>5, <2>1, <3>1 DEF SessionInv, FetchIsAlone
  <2>3. AnswerIsLater'
    BY <1>1, <1>2, <1>5, <2>1 DEF SessionInv, AnswerIsLater
  <2>4. QuestionIsLast'
    <3>1. CASE from = "asked" /\ to = "asked"
      <4>1. UNCHANGED events /\ (Asked(n)' <=> Asked(n))
        BY <1>1, <1>2, <3>1 DEF Asked
      <4> QED BY <1>5, <2>1, <4>1 DEF SessionInv, QuestionIsLast
    <3>2. CASE ~(from = "asked" /\ to = "asked")
      <4>1. ~Asked(n)
        BY <1>2, <2>1, <3>2 DEF Asked
      <4>2. /\ \A i \in DOMAIN events[n] : events[n][i] # "manifest"
            /\ \A i \in DOMAIN taken[n] : taken[n][i] # "manifest"
            /\ ui.reply # n
        BY <1>5, <2>1, <4>1 DEF SessionInv, QuestionIsLast
      <4>3. PICK e \in Events : Says(n, e) /\ (e = "manifest" => from = "asking" /\ to = "asked")
        BY <1>2
      <4>4. e = "manifest" => Asked(n)'
        <5>1. from = "asking" => reply[n] = "none"
          BY <1>5, <2>1 DEF SessionInv, AnswerIsLater, AfterAsked
        <5> QED BY <1>1, <4>3, <5>1 DEF Asked
      <4>5. \A i \in DOMAIN events'[n] :
               events'[n][i] = "manifest" =>
                   Asked(n)' /\ \A j \in DOMAIN events'[n] : ~(j > i)
        BY <4>2, <4>3, <4>4, SayingAtTheEnd
      <4> QED BY <1>5, <2>1, <4>2, <4>5 DEF QuestionIsLast
    <3> QED BY <3>1, <3>2
  <2> QED BY <2>2, <2>3, <2>4
<1> HIDE DEF from, to
<1> QED BY <1>1, <1>3, <1>4, <1>5, NodeKeepsSession

LEMMA UpgradingKeepsSession ==
    ASSUME ProgramTypeOK, SessionInv, NEW n \in Nodes, life[n] # "none",
           PunchesThrough(n) \/ \E s \in Streams : WatchUpgrade(n, s),
           UNCHANGED <<hostingVars, receivingVars>>, SameInterface
    PROVE  SessionInv'
<1> USE GoroutinesDiffer
<1>1. /\ OnlyOf(n) /\ UNCHANGED <<life, interrupted, reply, at, room>>
      /\ Says(n, "direct")
      /\ at[n]["Fetch"] # "off" \/ \E s \in Streams : upgrade[n][s] # "off"
  BY UpgradingIsLocal
<1>2. ~Still(n) /\ ~Idle(n)
  BY <1>1 DEF Idle, Still
<1>3. at'[n]["Host"] = at[n]["Host"] /\ at[n]["Host"] \notin {"announcing", "refused"}
  BY <1>1, <1>2 DEF SessionInv, HostIsAwaited
<1>4. ASSUME n = ui.node PROVE FetchIsAlone' /\ QuestionIsLast' /\ AnswerIsLater'
  <2>1. n # NoNode /\ ui' = ui /\ taken' = taken
    BY NodeAssumption DEF SameInterface
  <2>2. FetchIsAlone' /\ AnswerIsLater'
    BY <1>1, <1>4, <2>1 DEF SessionInv, FetchIsAlone, AnswerIsLater
  <2>3. /\ \A i \in DOMAIN events'[n] :
              \/ i \in DOMAIN events[n] /\ events'[n][i] = events[n][i]
              \/ /\ events'[n][i] = "direct" /\ i \notin DOMAIN events[n]
                 /\ \A j \in DOMAIN events'[n] : ~(j > i)
        /\ DOMAIN events'[n] \subseteq Nat
    BY <1>1, SayingAtTheEnd DEF Events
  <2>4. Asked(n)' <=> Asked(n)
    BY <1>1 DEF Asked
  <2>5. \A i \in DOMAIN events'[n] :
            events'[n][i] = "manifest" =>
                Asked(n)' /\ \A j \in DOMAIN events'[n] : j > i => events'[n][j] = "direct"
    BY <1>4, <2>1, <2>3, <2>4 DEF SessionInv, QuestionIsLast
  <2>6. \A i \in DOMAIN taken[n] :
            taken[n][i] = "manifest" =>
                Asked(n)' /\ \A j \in DOMAIN events'[n] : events'[n][j] = "direct"
    BY <1>4, <2>1, <2>3, <2>4 DEF SessionInv, QuestionIsLast
  <2>7. ui.reply = n =>
            /\ Asked(n)' /\ ui.screen = "Confirm"
            /\ \A j \in DOMAIN events'[n] : events'[n][j] = "direct"
            /\ \A j \in DOMAIN taken[n] : taken[n][j] = "direct"
    BY <1>4, <2>1, <2>3, <2>4 DEF SessionInv, QuestionIsLast
  <2>8. QuestionIsLast'
    BY <1>4, <2>1, <2>5, <2>6, <2>7 DEF QuestionIsLast
  <2> QED BY <2>2, <2>8
<1> QED BY <1>1, <1>2, <1>3, <1>4, NodeKeepsSession

LEMMA NodeStepKeepsSession ==
    ASSUME ProgramTypeOK, SessionInv, NEW n \in Nodes, NodeStep(n)
    PROVE  SessionInv' /\ UNCHANGED <<command, outcome>>
<1>1. life[n] # "none" /\ SameInterface /\ UNCHANGED command
  BY DEF NodeStep, Background, SameInterface, interfaceVars, NoUpdate
<1>2. \/ HostingStep(n) /\ UNCHANGED receivingVars
      \/ ReceivingStep(n) /\ UNCHANGED hostingVars
      \/ /\ PunchesThrough(n) \/ \E s \in Streams : WatchUpgrade(n, s)
         /\ UNCHANGED <<hostingVars, receivingVars>>
  BY DEF NodeStep, Background
<1>3. SessionInv'
  BY <1>1, <1>2, HostingKeepsSession, ReceivingKeepsSession, UpgradingKeepsSession
<1>4. UNCHANGED outcome
  BY <1>2 DEF HostingStep, Host, ReadFiles, WatchOffer, KeepRoom, Abandon, Serve, Reject, Claim,
     Greet, SendProgress, SendEnds, SameNode, ReceivingStep, FetchStep, FetchStarts, Connect, Watch,
     WaitForDirect, OpenStream, Confirm, Receive, FetchEnds, WaitTimesOut, EndWait, Trace,
     ReceiveProgress, SameSession, nodeVars, PunchesThrough, WatchUpgrade
<1> QED BY <1>1, <1>3, <1>4

-----------------------------------------------------------------------------
(* waitEvent and handleEvent.                                               *)

LEMMA EmptySequence == ASSUME NEW S, NEW s \in Seq(S), Len(s) = 0 PROVE s = <<>>
OBVIOUS

LEMMA TakeKeepsSession ==
    ASSUME ProgramTypeOK, SessionInv, NEW n \in Nodes, TakeEvent(n)
    PROVE  SessionInv'
<1> DEFINE e == Head(events[n])
<1>1. /\ readers \in [Nodes -> Nat] /\ taken \in [Nodes -> Seq(Events)]
      /\ events \in [Nodes -> Seq(Events)] /\ n # NoNode
      /\ ui.node \in Nodes \cup {NoNode}
  BY NodeAssumption DEF ProgramTypeOK, NodeTypeOK, ModelTypeOK, IsModel
<1>2. readers[n] > 0 /\ events[n] # <<>>
  BY DEF TakeEvent
<1>3. readers[n] = 1 /\ Len(taken[n]) = 0
  <2>1. readers[n] + Len(taken[n]) <= 1 /\ Len(taken[n]) \in Nat /\ readers[n] \in Nat
    BY <1>1 DEF SessionInv, OneReader
  <2> QED BY <1>2, <2>1
<1>4. taken[n] = <<>>
  BY <1>1, <1>3, EmptySequence
<1>5. UNCHANGED <<ui, connects, life, at, upgrade, interrupted, room, reply>>
  BY DEF TakeEvent, hostingVars, receivingVars
<1>6. /\ events'[n] = Tail(events[n]) /\ readers'[n] = 0
      /\ taken'[n] = Append(taken[n], e)
      /\ \A m \in Nodes \ {n} : SameOf(m) /\ readers'[m] = readers[m]
  BY <1>1, <1>3, <1>5 DEF TakeEvent, SameOf
<1>7. /\ 1 \in DOMAIN events[n] /\ e = events[n][1] /\ DOMAIN events[n] \subseteq Nat
      /\ DOMAIN events'[n] \subseteq Nat
      /\ \A i \in DOMAIN events'[n] :
            i + 1 \in DOMAIN events[n] /\ events'[n][i] = events[n][i + 1] /\ i + 1 > 1
  <2>1. events[n] \in Seq(Events) /\ Tail(events[n]) \in Seq(Events)
    BY <1>1, <1>2
  <2>2. DOMAIN events[n] = 1 .. Len(events[n]) /\ DOMAIN events'[n] = 1 .. Len(events'[n])
        /\ Len(events[n]) \in Nat /\ Len(events'[n]) \in Nat
    BY <1>6, <2>1
  <2> QED BY <1>2, <1>6, <2>1, <2>2, TailShifts
<1>8. Len(taken'[n]) = 1 /\ DOMAIN taken'[n] = {1} /\ taken'[n][1] = e
  BY <1>4, <1>6
<1> HIDE DEF e
<1>9. life[n] # "none" /\ ~Still(n) /\ ~Idle(n)
  BY <1>1, <1>2 DEF SessionInv, StrangersIdle, Idle, Still
<1>10. \/ n = ui.node /\ life[n] = "open" /\ ~Choosing
       \/ life[n] = "closed" /\ n # ui.node
  BY <1>9, WhoMoves
<1>11. \A m \in Nodes \ {n} : (Still(m)' <=> Still(m)) /\ (Idle(m)' <=> Idle(m))
  BY <1>6, SameStaysIdle
<1>12. /\ ~interrupted' /\ CurrentIsOpen' /\ OneConnects' /\ QuestionIsCurrent'
       /\ FetchIsAlone' /\ AnswerIsLater'
  BY <1>5 DEF SessionInv, CurrentIsOpen, OneConnects, QuestionIsCurrent, FetchIsAlone,
     AnswerIsLater
<1>13. OneReader'
  BY <1>6, <1>8 DEF SessionInv, OneReader, SameOf
<1>14. StrangersIdle'
  BY <1>5, <1>6, <1>9, <1>10, <1>11 DEF SessionInv, StrangersIdle
<1>15. ClosedAreSettled'
  BY <1>3, <1>5, <1>6 DEF SessionInv, ClosedAreSettled, SameOf
<1>16. HostIsAwaited'
  BY <1>5, <1>9, <1>11 DEF SessionInv, HostIsAwaited
<1>17. ChoosingIsIdle'
  <2>1. Choosing' <=> Choosing
    BY <1>5 DEF Choosing
  <2> QED BY <1>1, <1>5, <1>10, <1>11, <2>1 DEF SessionInv, ChoosingIsIdle
<1>18. QuestionIsLast'
  <2>1. CASE ui.node = NoNode
    BY <1>5, <2>1 DEF QuestionIsLast
  <2>2. CASE ui.node \in Nodes \ {n}
    <3>1. SameOf(ui.node)
      BY <1>6, <2>2
    <3> QED BY <1>5, <3>1 DEF SessionInv, QuestionIsLast, SameOf, Asked
  <2>3. CASE ui.node = n
    <3>1. /\ \A i \in DOMAIN events[n] :
                events[n][i] = "manifest" =>
                    Asked(n) /\ \A j \in DOMAIN events[n] : j > i => events[n][j] = "direct"
          /\ ui.reply = n =>
                /\ Asked(n) /\ ui.screen = "Confirm"
                /\ \A j \in DOMAIN events[n] : events[n][j] = "direct"
      BY <1>1, <2>3 DEF SessionInv, QuestionIsLast
    <3>2. Asked(n)' <=> Asked(n)
      BY <1>5 DEF Asked
    <3>3. \A i \in DOMAIN events'[n] :
              events'[n][i] = "manifest" =>
                  Asked(n)' /\ \A j \in DOMAIN events'[n] : j > i => events'[n][j] = "direct"
      BY <1>7, <3>1, <3>2
    <3>4. \A i \in DOMAIN taken'[n] :
              taken'[n][i] = "manifest" =>
                  Asked(n)' /\ \A j \in DOMAIN events'[n] : events'[n][j] = "direct"
      BY <1>7, <1>8, <3>1, <3>2
    <3>5. ui.reply = n =>
              /\ Asked(n)' /\ ui.screen = "Confirm"
              /\ \A j \in DOMAIN events'[n] : events'[n][j] = "direct"
              /\ \A j \in DOMAIN taken'[n] : taken'[n][j] = "direct"
      BY <1>7, <1>8, <3>1, <3>2
    <3> QED BY <1>5, <2>3, <3>3, <3>4, <3>5 DEF QuestionIsLast
  <2> QED BY <1>1, <2>1, <2>2, <2>3
<1> QED BY <1>12, <1>13, <1>14, <1>15, <1>16, <1>17, <1>18 DEF SessionInv

LEMMA DoneKeepsSession ==
    ASSUME ProgramTypeOK, SessionInv, NEW n \in Nodes, NodeIsDone(n)
    PROVE  SessionInv' /\ UNCHANGED outcome
<1>1. readers \in [Nodes -> Nat] /\ taken \in [Nodes -> Seq(Events)]
  BY DEF ProgramTypeOK, ModelTypeOK
<1>2. /\ readers[n] > 0 /\ life[n] = "closed"
      /\ UNCHANGED <<ui, connects, taken, life, outcome, reply, events, at, upgrade, interrupted,
                     room>>
  BY DEF NodeIsDone, Quietly, SameWorld, hostingVars
<1>3. readers'[n] = readers[n] - 1 /\ \A m \in Nodes \ {n} : readers'[m] = readers[m]
  BY <1>1 DEF NodeIsDone
<1>4. \A m \in Nodes : SameOf(m)
  BY <1>2 DEF SameOf
<1>5. \A m \in Nodes : (Still(m)' <=> Still(m)) /\ (Idle(m)' <=> Idle(m))
  BY <1>4, SameStaysIdle
<1>6. /\ ~interrupted' /\ CurrentIsOpen' /\ OneConnects' /\ QuestionIsCurrent'
      /\ FetchIsAlone' /\ AnswerIsLater'
  BY <1>2 DEF SessionInv, CurrentIsOpen, OneConnects, QuestionIsCurrent, FetchIsAlone,
     AnswerIsLater
<1>7. QuestionIsLast'
  BY <1>2 DEF SessionInv, QuestionIsLast, Asked
<1>8. OneReader'
  <2>1. ASSUME NEW m \in Nodes PROVE readers'[m] + Len(taken'[m]) <= 1
    <3>1. /\ readers[m] + Len(taken[m]) <= 1 /\ Len(taken[m]) \in Nat /\ readers[m] \in Nat
      BY <1>1 DEF SessionInv, OneReader
    <3>2. readers'[m] \in {readers[m], readers[m] - 1}
      BY <1>3
    <3> QED BY <1>2, <3>1, <3>2
  <2> QED BY <2>1 DEF OneReader
<1>9. StrangersIdle'
  BY <1>2, <1>3, <1>5 DEF SessionInv, StrangersIdle
<1>10. ClosedAreSettled'
  BY <1>2, <1>3 DEF SessionInv, ClosedAreSettled
<1>11. HostIsAwaited'
  BY <1>2, <1>5 DEF SessionInv, HostIsAwaited
<1>12. ChoosingIsIdle'
  BY <1>2, <1>5 DEF SessionInv, ChoosingIsIdle, Choosing, ProgramTypeOK, ModelTypeOK, IsModel
<1> QED BY <1>2, <1>6, <1>7, <1>8, <1>9, <1>10, <1>11, <1>12 DEF SessionInv

\* Update has one event at most of a node, and knows the node, or nothing is to come.
LEMMA WhoSpeaks ==
    ASSUME ProgramTypeOK, SessionInv, NEW n \in Nodes, NEW e, Handle(n, e)
    PROVE  /\ taken[n] # <<>> /\ taken' = [taken EXCEPT ![n] = <<>>]
           /\ readers[n] = 0 /\ Len(taken[n]) = 1 /\ taken[n][1] = e
           /\ UNCHANGED <<connects, life, reply, events, at, upgrade, interrupted, room>>
           /\ ~Idle(n) /\ life[n] # "none"
           /\ \/ n = ui.node /\ life[n] = "open" /\ ~Choosing
              \/ life[n] = "closed" /\ ui.node = NoNode /\ connects = 0
<1>1. /\ readers \in [Nodes -> Nat] /\ taken \in [Nodes -> Seq(Events)] /\ n # NoNode
      /\ connects \in Nat
  BY NodeAssumption DEF ProgramTypeOK, ModelTypeOK
<1>2. PICK i \in DOMAIN taken[n] :
          taken[n][i] = e /\ taken' = [taken EXCEPT ![n] = RemoveAt(@, i)]
  BY DEF Handle
<1>3. Len(taken[n]) = 1 /\ readers[n] = 0 /\ DOMAIN taken[n] = {1} /\ taken[n] # <<>>
  <2>1. /\ readers[n] + Len(taken[n]) <= 1 /\ Len(taken[n]) \in Nat /\ readers[n] \in Nat
        /\ DOMAIN taken[n] = 1 .. Len(taken[n])
    BY <1>1 DEF SessionInv, OneReader
  <2>2. i \in 1 .. Len(taken[n])
    BY <2>1
  <2>3. Len(taken[n]) = 1 /\ readers[n] = 0
    <3> DEFINE k == Len(taken[n])
               r == readers[n]
    <3>1. k \in Nat /\ r \in Nat /\ r + k <= 1 /\ i \in 1 .. k
      BY <2>1, <2>2
    <3> HIDE DEF k, r
    <3>2. k = 1 /\ r = 0
      BY <3>1
    <3> QED BY <3>2 DEF k, r
  <2>4. DOMAIN taken[n] = {1}
    BY <2>1, <2>3
  <2>5. Len(<<>>) = 0
    OBVIOUS
  <2> QED BY <2>3, <2>4, <2>5
<1>4. RemoveAt(taken[n], i) = <<>>
  <2>1. RemoveAt(taken[n], i) \in Seq(Events) /\ Len(RemoveAt(taken[n], i)) = 0
    <3>1. taken[n] \in Seq(Events) /\ i \in DOMAIN taken[n]
      BY <1>1
    <3>2. /\ RemoveAt(taken[n], i) \in Seq(Events)
          /\ Len(RemoveAt(taken[n], i)) = Len(taken[n]) - 1
      BY ONLY <3>1, RemovalIsASequence
    <3> QED BY <1>3, <3>2
  <2> QED BY <2>1, EmptySequence
<1>5. taken' = [taken EXCEPT ![n] = <<>>]
  BY <1>2, <1>4
<1>6. UNCHANGED <<connects, life, reply, events, at, upgrade, interrupted, room>>
  BY DEF Handle, SameWorld, hostingVars
<1>7. ~Idle(n) /\ life[n] # "none"
  BY <1>3 DEF Idle, Still, SessionInv, StrangersIdle
<1>8. \/ n = ui.node /\ life[n] = "open" /\ ~Choosing
      \/ life[n] = "closed" /\ n # ui.node
  BY <1>7, WhoMoves
<1>9. life[n] = "closed" => ui.node = NoNode /\ connects = 0
  BY <1>1, <1>3 DEF SessionInv, ClosedAreSettled
<1> QED BY <1>2, <1>3, <1>5, <1>6, <1>7, <1>8, <1>9

LEMMA HandleKeepsSession ==
    ASSUME ProgramTypeOK, SessionInv, NEW n \in Nodes, HandleEvent(n), outcome = "running"
    PROVE  IF outcome' = "running" THEN SessionInv' ELSE Promise'
<1>1. PICK e \in Events :
          /\ Handle(n, e) /\ Answers(n, e)
          /\ GoOn \/ (e \in {"saved", "failed"} /\ Stop)
  BY HandleModel DEF ProgramTypeOK, ModelTypeOK
<1>2. /\ taken[n] # <<>> /\ taken' = [taken EXCEPT ![n] = <<>>]
      /\ readers[n] = 0 /\ Len(taken[n]) = 1 /\ taken[n][1] = e
      /\ UNCHANGED <<connects, life, reply, events, at, upgrade, interrupted, room>>
      /\ ~Idle(n) /\ life[n] # "none"
      /\ \/ n = ui.node /\ life[n] = "open" /\ ~Choosing
         \/ life[n] = "closed" /\ ui.node = NoNode /\ connects = 0
  BY <1>1, WhoSpeaks
<1>3. /\ readers \in [Nodes -> Nat] /\ taken \in [Nodes -> Seq(Events)] /\ n # NoNode
      /\ connects \in Nat
  BY NodeAssumption DEF ProgramTypeOK, ModelTypeOK
<1>4. taken'[n] = <<>> /\ \A m \in Nodes \ {n} : SameOf(m)
  BY <1>2, <1>3 DEF SameOf
<1>5. \A m \in Nodes \ {n} : (Still(m)' <=> Still(m)) /\ (Idle(m)' <=> Idle(m))
  BY <1>4, SameStaysIdle
<1>6. ui'.node = ui.node /\ Len(<<>>) = 0 /\ DOMAIN <<>> = {}
  BY <1>1 DEF Answers, Becomes
<1>7. CASE n = ui.node /\ life[n] = "open" /\ ~Choosing
  <2>1. \/ readers' = [readers EXCEPT ![n] = @ + 1]
        \/ UNCHANGED readers
    BY <1>1, <1>3, <1>7 DEF GoOn, Arm, Stop
  <2>2. readers'[n] \in {0, 1} /\ \A m \in Nodes \ {n} : readers'[m] = readers[m]
    BY <1>2, <1>3, <2>1
  <2>3. ui.screen \notin {"Welcome", "PickFiles", "EnterCode", "OutDir"} /\ connects = 0
    BY <1>3, <1>7 DEF Choosing
  <2>4. ~Choosing'
    BY <1>1, <1>2, <2>3 DEF Answers, Becomes, Choosing
  <2>5. ~interrupted' /\ CurrentIsOpen' /\ OneConnects' /\ FetchIsAlone' /\ AnswerIsLater'
    BY <1>2, <1>6, <2>3 DEF SessionInv, CurrentIsOpen, OneConnects, FetchIsAlone, AnswerIsLater
  <2>6. QuestionIsCurrent'
    BY <1>1, <1>6, <1>7 DEF SessionInv, QuestionIsCurrent, Answers, Becomes
  <2>7. OneReader'
    BY <1>4, <1>6, <2>2 DEF SessionInv, OneReader, SameOf
  <2>8. StrangersIdle'
    BY <1>2, <1>5, <1>6, <1>7, <2>2 DEF SessionInv, StrangersIdle
  <2>9. ClosedAreSettled'
    BY <1>2, <1>4, <1>6, <1>7, <2>2 DEF SessionInv, ClosedAreSettled, SameOf
  <2>10. HostIsAwaited'
    <3>1. \A m \in Nodes : at[m]["Host"] \notin {"announcing", "refused"}
      BY <1>2, <1>7 DEF SessionInv, HostIsAwaited, Still
    <3> QED BY <1>2, <3>1 DEF HostIsAwaited
  <2>11. ChoosingIsIdle'
    BY <2>4 DEF ChoosingIsIdle
  <2>12. QuestionIsLast'
    <3>1. /\ \A i \in DOMAIN events[n] :
                events[n][i] = "manifest" =>
                    Asked(n) /\ \A j \in DOMAIN events[n] : j > i => events[n][j] = "direct"
          /\ e = "manifest" =>
                Asked(n) /\ \A j \in DOMAIN events[n] : events[n][j] = "direct"
          /\ ui.reply = n =>
                /\ Asked(n) /\ ui.screen = "Confirm" /\ e = "direct"
                /\ \A j \in DOMAIN events[n] : events[n][j] = "direct"
      <4>1. 1 \in DOMAIN taken[n]
        BY <1>2, <1>3
      <4> QED BY <1>2, <1>3, <1>7, <4>1 DEF SessionInv, QuestionIsLast
    <3>2. Asked(n)' <=> Asked(n)
      BY <1>2 DEF Asked
    <3>3. ui'.reply = n =>
              /\ Asked(n) /\ ui'.screen = "Confirm"
              /\ \A j \in DOMAIN events[n] : events[n][j] = "direct"
      BY <1>1, <3>1 DEF Answers, Becomes
    <3> QED BY <1>2, <1>4, <1>6, <1>7, <3>1, <3>2, <3>3 DEF QuestionIsLast
  <2>13. UNCHANGED outcome
    BY <1>1, <1>3, <1>7 DEF GoOn, Arm, Stop
  <2>14. SessionInv'
    BY <2>5, <2>6, <2>7, <2>8, <2>9, <2>10, <2>11, <2>12 DEF SessionInv
  <2> QED BY <2>13, <2>14
<1>8. CASE life[n] = "closed" /\ ui.node = NoNode /\ connects = 0
  <2>1. UNCHANGED readers
    BY <1>1, <1>8 DEF GoOn, Arm, Stop
  <2>2. OneReader'
    BY <1>2, <1>4, <1>6, <2>1 DEF SessionInv, OneReader, SameOf
  <2>3. ui.reply = NoNode
    BY <1>8 DEF SessionInv, QuestionIsCurrent
  <2>4. CASE GoOn
    <3>1. outcome' = "crashed"
      BY <1>8, <2>4 DEF GoOn, Arm
    <3>2. QuestionStays'
      BY <1>1, <2>3 DEF Answers, Becomes, QuestionStays
    <3>3. StrayNodesIdle'
      <4>1. \A m \in Nodes : life[m] = "open" => \A g \in Goroutines : at[m][g] = "off"
        BY <1>3, <1>8, NodeAssumption DEF SessionInv, StrangersIdle, Idle, Still
      <4> QED BY <1>2, <4>1 DEF StrayNodesIdle
    <3> QED BY <2>2, <3>1, <3>2, <3>3 DEF Promise
  <2>5. CASE e \in {"saved", "failed"} /\ Stop
    <3>1. outcome' = "running" /\ ui'.reply = NoNode /\ ui'.node = NoNode /\ connects' = 0
      BY <1>1, <1>2, <1>6, <1>8, <2>3, <2>5 DEF Answers, Becomes, Stop
    <3>2. /\ ~interrupted' /\ CurrentIsOpen' /\ OneConnects' /\ FetchIsAlone' /\ AnswerIsLater'
          /\ QuestionIsCurrent' /\ ClosedAreSettled' /\ ChoosingIsIdle' /\ QuestionIsLast'
      BY <1>2, <3>1 DEF SessionInv, CurrentIsOpen, OneConnects, FetchIsAlone, AnswerIsLater,
         QuestionIsCurrent, ClosedAreSettled, ChoosingIsIdle, QuestionIsLast
    <3>3. StrangersIdle'
      BY <1>2, <1>5, <1>6, <1>8, <2>1 DEF SessionInv, StrangersIdle
    <3>4. HostIsAwaited'
      <4>1. \A m \in Nodes : at[m]["Host"] \notin {"announcing", "refused"}
        BY <1>8, NodeAssumption DEF SessionInv, HostIsAwaited
      <4> QED BY <1>2, <4>1 DEF HostIsAwaited
    <3>5. SessionInv'
      BY <2>2, <3>2, <3>3, <3>4 DEF SessionInv
    <3> QED BY <3>1, <3>5
  <2> QED BY <1>1, <2>4, <2>5
<1> QED BY <1>2, <1>7, <1>8

-----------------------------------------------------------------------------
(* connectCmd and hostCmd end.                                              *)

LEMMA ReadyKeepsSession ==
    ASSUME ProgramTypeOK, SessionInv, NEW n \in Nodes, NodeReady(n)
    PROVE  SessionInv' /\ UNCHANGED outcome
<1>1. /\ readers \in [Nodes -> Nat] /\ taken \in [Nodes -> Seq(Events)] /\ n # NoNode
      /\ connects \in Nat /\ life \in [Nodes -> {"none", "open", "closed"}]
      /\ ui.node \in Nodes \cup {NoNode}
  BY NodeAssumption DEF ProgramTypeOK, ModelTypeOK, StateTypeOK, IsModel
<1>2. connects = 1 /\ ui.screen = "Connecting" /\ Choosing
  BY DEF NodeReady, SessionInv, OneConnects, Choosing
<1>3. life[n] = "none" /\ Idle(n) /\ readers[n] = 0
  BY DEF NodeReady, SessionInv, StrangersIdle
<1>4. /\ readers' = [readers EXCEPT ![n] = @ + 1] /\ UNCHANGED outcome
      /\ life' = [life EXCEPT ![n] = "open"] /\ connects' = 0
      /\ UNCHANGED <<taken, reply, events, at, upgrade, interrupted, room>>
  BY <1>1, <1>2 DEF NodeReady, Arm, Start, SameWorld, hostingVars
<1>5. readers'[n] = 1 /\ \A m \in Nodes \ {n} : readers'[m] = readers[m]
  BY <1>1, <1>3, <1>4
<1>6. life'[n] = "open" /\ \A m \in Nodes \ {n} : life'[m] = life[m]
  BY <1>1, <1>4
<1>7. /\ ui'.node = n /\ ui'.reply = NoNode
      /\ ui'.screen \in {"PickFiles", "EnterCode", "Connecting"}
  BY <1>2, ReadyModel, QuestionIsShown DEF Becomes, ProgramTypeOK, ModelTypeOK
<1>8. \A m \in Nodes : SameOf(m)
  BY <1>4 DEF SameOf
<1>9. \A m \in Nodes : (Still(m)' <=> Still(m)) /\ (Idle(m)' <=> Idle(m))
  BY <1>8, SameStaysIdle
<1>10. ~interrupted' /\ CurrentIsOpen' /\ OneConnects' /\ QuestionIsCurrent'
  BY <1>4, <1>6, <1>7 DEF SessionInv, CurrentIsOpen, OneConnects, QuestionIsCurrent
<1>11. OneReader'
  <2>1. taken[n] = <<>> /\ Len(<<>>) = 0
    BY <1>3 DEF Idle, Still
  <2> QED BY <1>4, <1>5, <2>1 DEF SessionInv, OneReader
<1>12. StrangersIdle'
  <2>1. ui.node # NoNode => Idle(ui.node)
    BY <1>2 DEF SessionInv, ChoosingIsIdle
  <2>2. \A m \in Nodes : life[m] = "open" => Idle(m)
    BY <1>1, <2>1, NodeAssumption DEF SessionInv, StrangersIdle
  <2> QED BY <1>3, <1>5, <1>6, <1>7, <1>9, <2>2 DEF SessionInv, StrangersIdle
<1>13. ClosedAreSettled'
  BY <1>2, <1>4, <1>5, <1>6 DEF SessionInv, ClosedAreSettled
<1>14. HostIsAwaited'
  BY <1>2, <1>4 DEF SessionInv, HostIsAwaited
<1>15. ChoosingIsIdle'
  BY <1>3, <1>7, <1>9 DEF ChoosingIsIdle
<1>16. FetchIsAlone' /\ AnswerIsLater' /\ QuestionIsLast'
  <2>1. /\ at[n]["Fetch"] = "off" /\ reply[n] = "none" /\ events[n] = <<>> /\ taken[n] = <<>>
        /\ DOMAIN <<>> = {}
    BY <1>3, GoroutinesDiffer DEF Idle, Still
  <2>2. FetchIsAlone' /\ AnswerIsLater'
    BY <1>4, <1>7, <2>1 DEF FetchIsAlone, AnswerIsLater
  <2>3. QuestionIsLast'
    BY <1>1, <1>4, <1>7, <2>1 DEF QuestionIsLast
  <2> QED BY <2>2, <2>3
<1> QED BY <1>4, <1>10, <1>11, <1>12, <1>13, <1>14, <1>15, <1>16 DEF SessionInv

\* Only the screen changes, and nothing is asked of a node by it.
SameNodes == UNCHANGED <<readers, taken, life, reply, events, at, upgrade, interrupted, room>>

LEMMA ScreenKeepsSession ==
    ASSUME ProgramTypeOK, SessionInv, SameNodes,
           ui'.node = ui.node, ui'.reply = ui.reply, ui.screen # "Confirm",
           connects' \in Nat, OneConnects', Choosing' => Choosing,
           \A n \in Nodes : at[n]["Host"] \notin {"announcing", "refused"},
           connects' > 0 => connects > 0 \/ Settled
    PROVE  SessionInv'
<1>1. \A m \in Nodes : SameOf(m)
  BY DEF SameNodes, SameOf
<1>2. \A m \in Nodes : (Still(m)' <=> Still(m)) /\ (Idle(m)' <=> Idle(m))
  BY <1>1, SameStaysIdle
<1>3. ui.reply = NoNode
  BY QuestionIsShown
<1>4. ~interrupted' /\ CurrentIsOpen' /\ QuestionIsCurrent' /\ OneReader' /\ FetchIsAlone'
      /\ AnswerIsLater'
  BY <1>3 DEF SessionInv, SameNodes, CurrentIsOpen, QuestionIsCurrent, OneReader, FetchIsAlone,
     AnswerIsLater
<1>5. StrangersIdle'
  BY <1>2 DEF SessionInv, SameNodes, StrangersIdle
<1>6. ClosedAreSettled'
  BY DEF SessionInv, SameNodes, ClosedAreSettled, Settled
<1>7. HostIsAwaited'
  BY DEF SameNodes, HostIsAwaited
<1>8. ChoosingIsIdle'
  BY <1>2 DEF SessionInv, ChoosingIsIdle, ProgramTypeOK, ModelTypeOK, IsModel
<1>9. QuestionIsLast'
  BY <1>3 DEF SessionInv, SameNodes, QuestionIsLast, Asked
<1> QED BY <1>4, <1>5, <1>6, <1>7, <1>8, <1>9 DEF SessionInv

LEMMA ConnectFailsKeepsSession ==
    ASSUME ProgramTypeOK, SessionInv, ConnectFails
    PROVE  SessionInv' /\ UNCHANGED outcome
<1>1. connects = 1 /\ ui.screen = "Connecting" /\ connects' = 0 /\ UNCHANGED outcome
  BY DEF ConnectFails, Quietly, SessionInv, OneConnects
<1>2. SameNodes
  BY DEF ConnectFails, Quietly, SameWorld, hostingVars, SameNodes
<1>3. ui'.screen = "Error" /\ ui'.node = ui.node /\ ui'.reply = ui.reply
  BY ErrorModel DEF ConnectFails, Becomes, ProgramTypeOK, ModelTypeOK
<1>4. \A n \in Nodes : at[n]["Host"] \notin {"announcing", "refused"}
  BY <1>1 DEF SessionInv, HostIsAwaited
<1>5. OneConnects' /\ ~Choosing'
  BY <1>1, <1>3 DEF OneConnects, Choosing
<1> QED BY <1>1, <1>2, <1>3, <1>4, <1>5, ScreenKeepsSession

LEMMA HostReturnsKeepsSession ==
    ASSUME ProgramTypeOK, SessionInv, NEW n \in Nodes, HostReturns(n)
    PROVE  SessionInv' /\ UNCHANGED outcome
<1> USE GoroutinesDiffer
<1>1. /\ at \in [Nodes -> [Goroutines -> Places]] /\ n # NoNode /\ connects \in Nat
      /\ ui.node \in Nodes \cup {NoNode}
  BY NodeAssumption DEF ProgramTypeOK, ModelTypeOK, NodeTypeOK, IsModel
<1>2. /\ UNCHANGED <<events, connects, readers, taken, life, upgrade, interrupted, outcome, room,
                     reply>>
      /\ at' = [at EXCEPT ![n]["Host"] = "returned"]
      /\ at[n]["Host"] \in {"hosted", "refused"}
  BY DEF HostReturns, hostingVars, receivingVars, Moves, Goto
<1>3. /\ ui'.node = ui.node /\ ui'.reply = ui.reply /\ ui'.screen \in {"Waiting", "Error"}
  BY HostModel DEF Becomes, ProgramTypeOK, ModelTypeOK
<1>4. /\ at'[n]["Host"] = "returned"
      /\ \A g \in Goroutines \ {"Host"} : at'[n][g] = at[n][g]
      /\ \A m \in Nodes \ {n} : SameOf(m)
  BY <1>1, <1>2 DEF SameOf
<1>5. \A m \in Nodes \ {n} : (Still(m)' <=> Still(m)) /\ (Idle(m)' <=> Idle(m))
  BY <1>4, SameStaysIdle
<1>6. ~Idle(n) /\ life[n] # "none"
  BY <1>2 DEF Idle, SessionInv, StrangersIdle
<1>7. \/ n = ui.node /\ life[n] = "open" /\ connects = 0
      \/ life[n] = "closed" /\ ui.node = NoNode /\ connects = 0
  <2>1. \/ n = ui.node /\ life[n] = "open" /\ ~Choosing
        \/ life[n] = "closed" /\ n # ui.node
    BY <1>6, WhoMoves
  <2>2. life[n] = "closed" => at[n]["Host"] = "hosted" /\ ui.node = NoNode /\ connects = 0
    BY <1>1, <1>2, <2>1 DEF SessionInv, ClosedAreSettled, HostIsAwaited
  <2> QED BY <1>1, <2>1, <2>2 DEF Choosing
<1>8. ui.reply = NoNode
  <2>1. ASSUME ui.reply # NoNode PROVE FALSE
    <3>1. ui.node = n /\ at[n]["Fetch"] = "asked"
      BY <1>7, <2>1, QuestionIsShown DEF Asked
    <3> QED BY <1>1, <1>2, <3>1 DEF SessionInv, FetchIsAlone
  <2> QED BY <2>1
<1>9. ~interrupted' /\ CurrentIsOpen' /\ OneReader' /\ OneConnects' /\ QuestionIsCurrent'
  BY <1>2, <1>3, <1>7 DEF SessionInv, CurrentIsOpen, OneReader, OneConnects, QuestionIsCurrent
<1>10. StrangersIdle'
  BY <1>2, <1>3, <1>5, <1>6, <1>7 DEF SessionInv, StrangersIdle
<1>11. ClosedAreSettled'
  BY <1>2, <1>3, <1>4, <1>7 DEF SessionInv, ClosedAreSettled, SameOf
<1>12. HostIsAwaited'
  <2>1. \A m \in Nodes \ {n} : at[m]["Host"] \notin {"announcing", "refused"}
    BY <1>7, NodeAssumption DEF SessionInv, HostIsAwaited
  <2> QED BY <1>4, <2>1 DEF HostIsAwaited, SameOf
<1>13. ChoosingIsIdle'
  BY <1>2, <1>3, <1>7 DEF ChoosingIsIdle, Choosing
<1>14. ui.node = n => at[n]["Fetch"] = "off" /\ at'[n]["Fetch"] = "off"
  BY <1>1, <1>2, <1>4 DEF SessionInv, FetchIsAlone
<1>15. FetchIsAlone' /\ AnswerIsLater'
  <2>1. ui.node = n => at'[n]["Fetch"] = at[n]["Fetch"]
    BY <1>14
  <2> QED BY <1>2, <1>3, <1>7, <1>14, <2>1 DEF SessionInv, FetchIsAlone, AnswerIsLater
<1>16. QuestionIsLast'
  <2>1. ui.node = n => (Asked(n)' <=> Asked(n))
    BY <1>2, <1>14 DEF Asked
  <2> QED BY <1>1, <1>2, <1>3, <1>7, <1>8, <2>1 DEF SessionInv, QuestionIsLast
<1> QED BY <1>2, <1>9, <1>10, <1>11, <1>12, <1>13, <1>15, <1>16 DEF SessionInv

-----------------------------------------------------------------------------
(* handleKey.                                                               *)

LEMMA ChoosingKeepsSession ==
    ASSUME ProgramTypeOK, SessionInv,
           WelcomeKey \/ OutDirKey \/ PickFilesEsc \/ EnterCodeLeave \/ EnterCodeRefused
    PROVE  SessionInv' /\ UNCHANGED outcome
<1>1. connects \in Nat /\ connects' \in Nat
  BY KeyTypes DEF HandleKey, ProgramTypeOK, ModelTypeOK
<1>2. SameNodes /\ UNCHANGED outcome
  BY DEF WelcomeKey, OutDirKey, PickFilesEsc, EnterCodeLeave, EnterCodeRefused, Key, SameWorld,
     hostingVars, SameNodes
<1>3. /\ ui.screen \in {"Welcome", "OutDir", "PickFiles", "EnterCode"}
      /\ \/ /\ UNCHANGED connects
            /\ \E x \in {"Welcome", "OutDir", "EnterCode"} : Becomes(x, ui.node, ui.reply)
         \/ /\ Settled /\ connects' = connects + 1 /\ ui.screen = "Welcome"
            /\ Becomes("Connecting", ui.node, ui.reply)
  BY ChoosingModel DEF ProgramTypeOK, ModelTypeOK
<1>4. connects = 0 /\ Choosing
  BY <1>1, <1>3 DEF SessionInv, OneConnects, Choosing
<1>5. \A n \in Nodes : at[n]["Host"] \notin {"announcing", "refused"}
  BY <1>3 DEF SessionInv, HostIsAwaited
<1>6. ui'.node = ui.node /\ ui'.reply = ui.reply /\ OneConnects'
  BY <1>3, <1>4 DEF Becomes, OneConnects
<1>7. connects' > 0 => connects > 0 \/ Settled
  BY <1>3, <1>4
<1>8. ui.screen # "Confirm"
  BY <1>3
<1> QED BY <1>1, <1>2, <1>4, <1>5, <1>6, <1>7, <1>8, ScreenKeepsSession

\* Host or Fetch is asked of the node, or of none.
LEMMA StartingKeepsSession ==
    ASSUME ProgramTypeOK, SessionInv, PickFilesSend \/ EnterCodeFetch
    PROVE  SessionInv' /\ UNCHANGED outcome
<1> USE GoroutinesDiffer
<1>1. /\ at \in [Nodes -> [Goroutines -> Places]] /\ connects \in Nat
      /\ ui.node \in Nodes \cup {NoNode} /\ NoNode \notin Nodes
  BY NodeAssumption DEF ProgramTypeOK, ModelTypeOK, NodeTypeOK, IsModel
<1>2. /\ UNCHANGED <<events, connects, readers, taken, life, upgrade, interrupted, outcome, room,
                     reply>>
      /\ ui.screen \in {"PickFiles", "EnterCode"}
  BY DEF PickFilesSend, EnterCodeFetch, hostingVars, receivingVars
<1>3. ui'.node = ui.node /\ ui'.reply = ui.reply /\ ui'.screen \in {"Connecting", "Finding"}
  BY StartingModel DEF Becomes, ProgramTypeOK, ModelTypeOK
<1>4. connects = 0 /\ Choosing /\ ~Choosing'
  BY <1>1, <1>2, <1>3 DEF SessionInv, OneConnects, Choosing
<1>5. ui.reply = NoNode /\ \A m \in Nodes : at[m]["Host"] \notin {"announcing", "refused"}
  BY <1>2, QuestionIsShown DEF SessionInv, HostIsAwaited
<1>6. ~interrupted' /\ CurrentIsOpen' /\ OneReader' /\ OneConnects' /\ QuestionIsCurrent'
      /\ ChoosingIsIdle'
  BY <1>2, <1>3, <1>4 DEF SessionInv, CurrentIsOpen, OneReader, OneConnects, QuestionIsCurrent,
     ChoosingIsIdle
<1>7. \/ PickFilesSend /\ at' = [at EXCEPT ![ui.node]["Host"] = "announcing"]
      \/ EnterCodeFetch /\ at' = [at EXCEPT ![ui.node]["Fetch"] = "called"]
  BY DEF PickFilesSend, EnterCodeFetch, Goto
<1>8. CASE ui.node = NoNode
  <2>1. at' = at
    BY <1>1, <1>7, <1>8
  <2>2. \A m \in Nodes : SameOf(m)
    BY <1>2, <2>1 DEF SameOf
  <2>3. \A m \in Nodes : (Still(m)' <=> Still(m)) /\ (Idle(m)' <=> Idle(m))
    BY <2>2, SameStaysIdle
  <2>4. StrangersIdle'
    BY <1>2, <1>3, <2>3 DEF SessionInv, StrangersIdle
  <2>5. ClosedAreSettled' /\ HostIsAwaited'
    BY <1>2, <1>3, <1>5, <2>1 DEF SessionInv, ClosedAreSettled, HostIsAwaited
  <2>6. FetchIsAlone' /\ AnswerIsLater' /\ QuestionIsLast'
    BY <1>3, <1>8 DEF FetchIsAlone, AnswerIsLater, QuestionIsLast
  <2> QED BY <1>2, <1>6, <2>4, <2>5, <2>6 DEF SessionInv
<1>9. CASE ui.node \in Nodes
  <2>0. PICK n \in Nodes : n = ui.node
    BY <1>9
  <2>1. Idle(n) /\ life[n] = "open"
    BY <1>1, <1>4, <2>0 DEF SessionInv, ChoosingIsIdle, CurrentIsOpen
  <2>2. /\ \A m \in Nodes \ {n} : SameOf(m)
        /\ \A g \in Goroutines \ {"Host", "Fetch"} : at'[n][g] = at[n][g]
    BY <1>1, <1>2, <1>7, <2>0 DEF SameOf
  <2>3. \/ /\ at'[n]["Host"] = "announcing" /\ at'[n]["Fetch"] = at[n]["Fetch"]
           /\ ui'.screen = "Connecting"
        \/ at'[n]["Host"] = at[n]["Host"] /\ at'[n]["Fetch"] = "called"
    <3>1. PickFilesSend => ui'.screen = "Connecting"
      BY StartingModel DEF Becomes, ProgramTypeOK, ModelTypeOK
    <3> QED BY <1>1, <1>7, <2>0, <3>1
  <2>4. \A m \in Nodes \ {n} : (Still(m)' <=> Still(m)) /\ (Idle(m)' <=> Idle(m))
    BY <2>2, SameStaysIdle
  <2>5. /\ at[n]["Host"] = "off" /\ at[n]["Fetch"] = "off" /\ events[n] = <<>> /\ taken[n] = <<>>
        /\ room[n] = "none" /\ reply[n] = "none" /\ DOMAIN <<>> = {}
        /\ \A g \in Enders : at[n][g] = "off"
    BY <2>1 DEF Idle, Still
  <2>6. StrangersIdle'
    BY <1>2, <1>3, <2>0, <2>1, <2>4 DEF SessionInv, StrangersIdle
  <2>7. ClosedAreSettled'
    BY <1>2, <1>3, <2>0, <2>1, <2>2 DEF SessionInv, ClosedAreSettled, SameOf
  <2>8. HostIsAwaited'
    <3>1. at'[n]["Host"] \in {"announcing", "refused"} =>
              ui'.screen = "Connecting" /\ Still(n)'
      <4>1. ASSUME at'[n]["Host"] \in {"announcing", "refused"}
            PROVE  at'[n]["Fetch"] = "off" /\ ui'.screen = "Connecting"
        BY <2>3, <2>5, <4>1
      <4>2. ASSUME at'[n]["Fetch"] = "off" PROVE Still(n)'
        BY <1>2, <2>1, <2>2, <4>2 DEF Idle, Still
      <4> QED BY <4>1, <4>2
    <3> QED BY <1>2, <1>3, <2>0, <1>4, <1>5, <2>2, <3>1 DEF HostIsAwaited, SameOf
  <2>9. FetchIsAlone'
    <3>1. \A g \in Enders : at'[n][g] = at[n][g]
      BY <2>2
    <3> QED BY <1>2, <1>3, <2>0, <2>3, <2>5, <3>1 DEF FetchIsAlone
  <2>10. AnswerIsLater' /\ QuestionIsLast'
    BY <1>2, <1>3, <2>0, <1>5, <1>1, <2>5 DEF AnswerIsLater, QuestionIsLast
  <2> QED BY <1>2, <1>6, <2>6, <2>7, <2>8, <2>9, <2>10 DEF SessionInv
<1> QED BY <1>1, <1>2, <1>8, <1>9

\* The session ends: its node is closed, and there is none to follow.
LEMMA ClosingKeepsSession ==
    ASSUME ProgramTypeOK, SessionInv, ui.screen \in {"Confirm", "Done", "Error"},
           UNCHANGED <<events, connects, readers, taken, at, upgrade, interrupted, room>>,
           ui'.node = NoNode, ui'.reply = NoNode,
           IF ui.node = NoNode THEN UNCHANGED life ELSE Close(ui.node),
           \A m \in Nodes \ {ui.node} : reply'[m] = reply[m]
    PROVE  SessionInv'
<1>1. /\ connects \in Nat /\ life \in [Nodes -> {"none", "open", "closed"}]
      /\ ui.node \in Nodes \cup {NoNode} /\ NoNode \notin Nodes
  BY NodeAssumption DEF ProgramTypeOK, ModelTypeOK, StateTypeOK, IsModel
<1>2. connects = 0
  BY <1>1 DEF SessionInv, OneConnects
<1>3. /\ \A m \in Nodes \ {ui.node} : SameOf(m) /\ life'[m] = life[m]
      /\ ui.node \in Nodes => life'[ui.node] = "closed"
  BY <1>1 DEF SameOf, Close
<1>4. \A m \in Nodes \ {ui.node} : (Still(m)' <=> Still(m)) /\ (Idle(m)' <=> Idle(m))
  BY <1>3, SameStaysIdle
<1>5. /\ ~interrupted' /\ CurrentIsOpen' /\ OneReader' /\ OneConnects' /\ QuestionIsCurrent'
      /\ ChoosingIsIdle' /\ ClosedAreSettled' /\ FetchIsAlone' /\ AnswerIsLater'
      /\ QuestionIsLast'
  BY <1>2 DEF SessionInv, CurrentIsOpen, OneReader, OneConnects, QuestionIsCurrent,
     ChoosingIsIdle, ClosedAreSettled, FetchIsAlone, AnswerIsLater, QuestionIsLast
<1>6. HostIsAwaited'
  <2>1. \A m \in Nodes : at[m]["Host"] \notin {"announcing", "refused"}
    BY DEF SessionInv, HostIsAwaited
  <2> QED BY <2>1 DEF HostIsAwaited
<1>7. StrangersIdle'
  <2>1. \A m \in Nodes \ {ui.node} :
            /\ life[m] = "none" => Idle(m) /\ readers[m] = 0
            /\ life[m] = "open" => Idle(m)
    BY DEF SessionInv, StrangersIdle
  <2>2. \A m \in Nodes \ {ui.node} :
            /\ life'[m] = "none" => Idle(m)' /\ readers'[m] = 0
            /\ life'[m] = "open" => Idle(m)'
    BY <1>3, <1>4, <2>1
  <2> QED BY <1>1, <1>3, <2>2 DEF StrangersIdle
<1> QED BY <1>5, <1>6, <1>7 DEF SessionInv

LEMMA ConfirmKeepsSession ==
    ASSUME ProgramTypeOK, SessionInv, ConfirmKey
    PROVE  SessionInv' /\ UNCHANGED outcome
<1>1. /\ connects \in Nat /\ reply \in [Nodes -> {"none", "yes", "no"}]
      /\ ui.node \in Nodes \cup {NoNode} /\ NoNode \notin Nodes /\ IsModel(ui)
  BY NodeAssumption DEF ProgramTypeOK, ModelTypeOK, StateTypeOK, IsModel
<1>2. /\ UNCHANGED <<connects, readers, taken, outcome, events, at, upgrade, interrupted, room>>
      /\ ui.screen = "Confirm"
  BY DEF ConfirmKey, Key, SameWorld, hostingVars
<1>3. PICK ok \in {"yes", "no"} : Answer(ok)
  BY DEF ConfirmKey
<1>4. /\ ui.reply \in {NoNode, ui.node}
      /\ reply' = IF ui.reply = NoNode THEN reply ELSE [reply EXCEPT ![ui.reply] = ok]
  BY <1>3 DEF Answer, SessionInv, QuestionIsCurrent
<1>5. \A m \in Nodes \ {ui.node} : reply'[m] = reply[m]
  BY <1>1, <1>4
<1>6. CASE ok = "no"
  <2>1. ui'.node = NoNode /\ ui'.reply = NoNode
    BY <1>1, <1>3, <1>6, ClosingModel DEF Becomes
  <2>2. IF ui.node = NoNode THEN UNCHANGED life ELSE Close(ui.node)
    BY <1>3, <1>6 DEF Answer
  <2> QED BY <1>2, <1>5, <2>1, <2>2, ClosingKeepsSession
<1>7. CASE ok = "yes"
  <2>1. ui'.node = ui.node /\ ui'.reply = NoNode /\ ui'.screen = "Transfer" /\ UNCHANGED life
    BY <1>1, <1>3, <1>7, ClosingModel DEF Becomes, Answer
  <2>2. connects = 0 /\ \A m \in Nodes : at[m]["Host"] \notin {"announcing", "refused"}
    BY <1>1, <1>2 DEF SessionInv, OneConnects, HostIsAwaited
  <2>3. \A m \in Nodes \ {ui.node} : SameOf(m)
    BY <1>2, <1>5 DEF SameOf
  <2>4. \A m \in Nodes \ {ui.node} : (Still(m)' <=> Still(m)) /\ (Idle(m)' <=> Idle(m))
    BY <2>3, SameStaysIdle
  <2>5. /\ ~interrupted' /\ CurrentIsOpen' /\ OneReader' /\ OneConnects' /\ QuestionIsCurrent'
        /\ ChoosingIsIdle' /\ ClosedAreSettled' /\ FetchIsAlone' /\ HostIsAwaited'
    BY <1>2, <2>1, <2>2 DEF SessionInv, CurrentIsOpen, OneReader, OneConnects,
       QuestionIsCurrent, ChoosingIsIdle, Choosing, ClosedAreSettled, FetchIsAlone, HostIsAwaited
  <2>6. StrangersIdle'
    BY <1>1, <1>2, <2>1, <2>4 DEF SessionInv, StrangersIdle, CurrentIsOpen
  <2>7. CASE ui.reply = NoNode
    <3>1. UNCHANGED reply
      BY <1>4, <2>7
    <3> QED BY <1>1, <1>2, <2>1, <2>5, <2>6, <3>1
            DEF SessionInv, AnswerIsLater, QuestionIsLast, Asked
  <2>8. CASE ui.reply # NoNode
    <3>1. /\ ui.node \in Nodes /\ at[ui.node]["Fetch"] = "asked"
          /\ \A j \in DOMAIN events[ui.node] : events[ui.node][j] = "direct"
          /\ \A j \in DOMAIN taken[ui.node] : taken[ui.node][j] = "direct"
      BY <1>1, <1>4, <2>8 DEF SessionInv, QuestionIsLast, Asked
    <3>2. AnswerIsLater'
      BY <1>2, <2>1, <3>1 DEF AnswerIsLater, AfterAsked
    <3>3. QuestionIsLast'
      BY <1>1, <1>2, <2>1, <3>1 DEF QuestionIsLast
    <3> QED BY <1>2, <2>5, <2>6, <3>2, <3>3 DEF SessionInv
  <2> QED BY <1>2, <2>7, <2>8
<1> QED BY <1>3, <1>6, <1>7

LEMMA FinishedKeepsSession ==
    ASSUME ProgramTypeOK, SessionInv, FinishedKey
    PROVE  SessionInv' /\ UNCHANGED outcome
<1>1. /\ UNCHANGED <<connects, readers, taken, outcome, events, at, upgrade, interrupted, room,
                     reply>>
      /\ ui.screen \in {"Done", "Error"}
  BY DEF FinishedKey, Key, SameWorld, hostingVars
<1>2. ui.reply = NoNode
  BY <1>1, QuestionIsShown
<1>3. ui'.node = NoNode /\ ui'.reply = NoNode
  BY <1>2, ClosingModel DEF Becomes, FinishedKey, ProgramTypeOK, ModelTypeOK
<1>4. IF ui.node = NoNode THEN UNCHANGED life ELSE Close(ui.node)
  BY DEF FinishedKey, Reset
<1> QED BY <1>1, <1>3, <1>4, ClosingKeepsSession

LEMMA QuitKeepsPromise ==
    ASSUME ProgramTypeOK, SessionInv, Quit
    PROVE  Promise' /\ outcome' = "ok"
<1>1. UNCHANGED <<ui, readers, taken, at>> /\ outcome' = "ok"
  BY DEF Quit, interfaceVars
<1>2. \A n \in Nodes : life'[n] = "open" => life[n] = "open"
  BY DEF Quit, Close, ProgramTypeOK, StateTypeOK
<1>3. Promise
  BY SessionKeepsPromise
<1>4. \A n \in Nodes : life'[n] = "open" /\ ui.node # n => \A g \in Goroutines : at[n][g] = "off"
  BY <1>2 DEF SessionInv, StrangersIdle, Idle, Still
<1> QED BY <1>1, <1>3, <1>4 DEF Promise, OneReader, QuestionStays, StrayNodesIdle

-----------------------------------------------------------------------------
(* The program.                                                             *)

LEMMA InterfaceKeepsSession ==
    ASSUME ProgramTypeOK, SessionInv, outcome = "running", InterfaceStep
    PROVE  IF outcome' = "running" THEN SessionInv' ELSE Promise'
<1>1. CASE Quit
  BY <1>1, QuitKeepsPromise
<1>2. CASE HandleKey /\ ~Quit
  BY <1>2, ChoosingKeepsSession, StartingKeepsSession, ConfirmKeepsSession, FinishedKeepsSession
     DEF HandleKey
<1>3. CASE ConnectFails
  BY <1>3, ConnectFailsKeepsSession
<1>4. ASSUME NEW n \in Nodes, TakeEvent(n) \/ NodeIsDone(n) \/ NodeReady(n) \/ HostReturns(n)
      PROVE  SessionInv' /\ UNCHANGED outcome
  BY <1>4, TakeKeepsSession, DoneKeepsSession, ReadyKeepsSession, HostReturnsKeepsSession
     DEF TakeEvent
<1>5. ASSUME NEW n \in Nodes, HandleEvent(n)
      PROVE  IF outcome' = "running" THEN SessionInv' ELSE Promise'
  BY <1>5, HandleKeepsSession
<1> QED BY <1>1, <1>2, <1>3, <1>4, <1>5 DEF InterfaceStep

\* With no interface there is nothing for it to break.
LEMMA NoInterfaceStays ==
    ASSUME command # "tui", NoInterface, [Next]_vars
    PROVE  NoInterface'
<1>1. UNCHANGED <<ui, readers, taken>>
  BY DEF Next, UseInterface, UseHeadless, Update, Ended, NodeStep, Background, interfaceVars, vars
<1> QED BY <1>1 DEF NoInterface

LEMMA HeadlessIsOff ==
    ASSUME command = "tui", pump = "off"
    PROVE  ~UseHeadless
BY DEF UseHeadless, HeadlessStep, PumpStep, SendConnects, HostReturned, ReceiveConnects, Logs,
   RoomIsLost, AttemptFails, TransferIsDone, Asks, PumpIsInterrupted, Takes, ReceiveCalled,
   UserAnswers, Interrupt

\* Nothing that the invariant is about changes.
LEMMA NothingBreaksIt ==
    ASSUME InterfaceInv,
           UNCHANGED <<command, pump, outcome, ui, connects, readers, taken, life, at, events,
                       upgrade, room, reply, interrupted>>
    PROVE  InterfaceInv'
<1>1. SessionInv => SessionInv'
  BY DEF SessionInv, OneReader, StrangersIdle, CurrentIsOpen, ClosedAreSettled, HostIsAwaited,
     OneConnects, ChoosingIsIdle, FetchIsAlone, QuestionIsLast, AnswerIsLater, QuestionIsCurrent,
     Idle, Still, Choosing, Asked
<1>2. (Promise => Promise') /\ (NoInterface => NoInterface')
  BY DEF Promise, NoInterface, OneReader, QuestionStays, StrayNodesIdle
<1> QED BY <1>1, <1>2 DEF InterfaceInv

LEMMA NextKeepsInterface ==
    ProgramTypeOK /\ InterfaceInv /\ [Next]_vars => InterfaceInv'
<1> SUFFICES ASSUME ProgramTypeOK, InterfaceInv, [Next]_vars PROVE InterfaceInv'
  OBVIOUS
<1>1. UNCHANGED command
  BY DEF Next, UseInterface, UseHeadless, Update, Ended, NodeStep, Background, NoUpdate, vars
<1>2. CASE command # "tui"
  BY <1>1, <1>2, NoInterfaceStays DEF InterfaceInv
<1>3. CASE Ended \/ UNCHANGED vars
  BY <1>3, NothingBreaksIt
     DEF Ended, vars, nodeVars, hostingVars, receivingVars, interfaceVars
<1>4. CASE command = "tui" /\ outcome = "running"
  <2>1. SessionInv /\ pump = "off"
    BY <1>4 DEF InterfaceInv
  <2>2. CASE UseInterface
    BY <1>1, <1>4, <2>1, <2>2, InterfaceKeepsSession DEF UseInterface, InterfaceInv
  <2>3. CASE \E n \in Nodes : NodeStep(n)
    <3>1. UNCHANGED pump
      BY <2>3 DEF NodeStep, Background
    <3> QED BY <1>1, <1>4, <2>1, <2>3, <3>1, NodeStepKeepsSession DEF InterfaceInv
  <2>4. ~UseHeadless /\ ~Update
    BY <1>4, <2>1, HeadlessIsOff DEF Update
  <2> QED BY <1>3, <2>2, <2>3, <2>4 DEF Next
<1>5. CASE command = "tui" /\ outcome # "running"
  <2>1. ~UseInterface /\ ~UseHeadless /\ ~Update /\ \A n \in Nodes : ~NodeStep(n)
    BY <1>5 DEF UseInterface, UseHeadless, Update, NodeStep, Background
  <2> QED BY <1>3, <2>1 DEF Next
<1> QED BY <1>2, <1>4, <1>5

LEMMA InitStartsInterface == Init => InterfaceInv
<1> SUFFICES ASSUME Init PROVE InterfaceInv
  OBVIOUS
<1> USE DEF Init, NodeInit, HostingInit, ReceivingInit, InterfaceInit, HeadlessInit
<1>1. ui.node = NoNode /\ ui.reply = NoNode /\ ui.screen = "Welcome"
  BY DEF NewModel
<1>2. NoInterface
  BY <1>1 DEF NoInterface
<1>3. \A n \in Nodes : Idle(n)
  BY GoroutinesDiffer DEF Idle, Still
<1>4. SessionInv
  <2>1. ~interrupted /\ StrangersIdle /\ CurrentIsOpen /\ ChoosingIsIdle
    BY <1>1, <1>3 DEF StrangersIdle, CurrentIsOpen, ChoosingIsIdle
  <2>2. OneReader
    <3>1. Len(<<>>) = 0
      OBVIOUS
    <3> QED BY <3>1 DEF OneReader
  <2>3. ClosedAreSettled /\ OneConnects
    BY DEF ClosedAreSettled, OneConnects
  <2>4. HostIsAwaited
    BY <1>3 DEF HostIsAwaited, Idle
  <2>5. FetchIsAlone /\ QuestionIsLast /\ AnswerIsLater /\ QuestionIsCurrent
    BY <1>1 DEF FetchIsAlone, QuestionIsLast, AnswerIsLater, QuestionIsCurrent
  <2> QED BY <2>1, <2>2, <2>3, <2>4, <2>5 DEF SessionInv
<1> QED BY <1>2, <1>4 DEF InterfaceInv

LEMMA InterfaceHolds == Spec => [](ProgramTypeOK /\ InterfaceInv)
BY InitTypes, InitStartsInterface, NextTypes, NextKeepsInterface, PTL DEF Spec

LEMMA InterfacePromises == ProgramTypeOK /\ InterfaceInv /\ command = "tui" => Promise
BY SessionKeepsPromise DEF InterfaceInv

\* For one node at most one waitEvent is in flight, its event included, for any number
\* of sessions: nothing that starts or goes on with a session brings a second one, so
\* events cannot overtake each other (waitEvent, connectCmd, handleEvent).
THEOREM OneReaderIsEnough == Spec => []OneReader
<1>1. ProgramTypeOK /\ InterfaceInv => OneReader
  <2> SUFFICES ASSUME ProgramTypeOK, InterfaceInv PROVE OneReader
    OBVIOUS
  <2>1. CASE command = "tui"
    BY <2>1, InterfacePromises DEF Promise
  <2>2. CASE command # "tui"
    <3>1. Len(<<>>) = 0
      OBVIOUS
    <3> QED BY <2>2, <3>1 DEF InterfaceInv, NoInterface, OneReader
  <2> QED BY <2>1, <2>2
<1> QED BY <1>1, InterfaceHolds, PTL

\* A question that waits for its answer stays on the screen: no event of its node and
\* none of a node that was closed covers it (handleEvent).
THEOREM QuestionIsNotCovered == Spec => []QuestionStays
<1>1. ProgramTypeOK /\ InterfaceInv => QuestionStays
  BY InterfacePromises DEF Promise, InterfaceInv, NoInterface, QuestionStays
<1> QED BY <1>1, InterfaceHolds, PTL

\* A node that is open and not the session's runs nothing (pickFilesKey, enterCodeKey).
THEOREM StrayNodesRest == Spec => []StrayNodesIdle
<1>1. ProgramTypeOK /\ InterfaceInv => StrayNodesIdle
  BY InterfacePromises DEF Promise, StrayNodesIdle
<1> QED BY <1>1, InterfaceHolds, PTL

-----------------------------------------------------------------------------
(* The code that is typed.                                                  *)

\* What a user may type, when a code the program made was told to them: ways to spell
\* that code, and things that are no code at all.
UserHasOneCode ==
    /\ Inputs \subseteq Seq(DOMAIN Plain)
    /\ \E words \in WordList \X WordList, nameplate \in Seq(AnyDigit) :
          /\ IsNumber(nameplate)
          /\ Spoken = JoinCode(words, nameplate) /\ Len(Spoken) <= MaxCodeLen
    /\ \A typed \in Spellings : NormalizeCode(typed) = Spoken
    /\ \A typed \in Inputs \ Spellings : ~CheckCode(typed)

LEMMA OneCodeIsMeant ==
    ASSUME UserHasOneCode
    PROVE  /\ CheckCode(Spoken)
           /\ \A typed \in Spellings : CheckCode(typed)
           /\ \A typed \in Inputs : CheckCode(typed) => NormalizeCode(typed) = Spoken
<1>1. PICK words \in WordList \X WordList, nameplate \in Seq(AnyDigit) :
          /\ IsNumber(nameplate)
          /\ Spoken = JoinCode(words, nameplate) /\ Len(Spoken) <= MaxCodeLen
  BY DEF UserHasOneCode
<1>2. CheckCode(Spoken) /\ NormalizeCode(Spoken) = Spoken
  BY <1>1, MadeCodesAreUnderstood
<1>3. ValidCode(Spoken) /\ KnownWords(Spoken)
  BY <1>2 DEF CheckCode
<1> QED BY <1>2, <1>3 DEF UserHasOneCode, CheckCode

\* A fetch is called with the code that was spoken, and only such a code is refused as
\* was not.
FetchHasTheCode ==
    /\ code \in [Nodes -> {<<>>, Spoken}]
    /\ \A n \in Nodes : at[n]["Fetch"] = "called" => code[n] = Spoken
    /\ pump = "connecting" => code[TheNode] = Spoken

CodeInv == FetchHasTheCode /\ (ui.codeErr => ui.input \notin Spellings)

\* No fetch is called, or the code is left as it is.
NobodyCalls == \A m \in Nodes : at'[m]["Fetch"] = "called" => at[m]["Fetch"] = "called"

LEMMA SameCode ==
    ASSUME CodeInv, NobodyCalls, UNCHANGED code, pump' = "connecting" => pump = "connecting",
           ui'.codeErr = ui.codeErr /\ ui'.input = ui.input
    PROVE  CodeInv'
BY DEF CodeInv, FetchHasTheCode, NobodyCalls

LEMMA NodeKeepsCode ==
    ASSUME ProgramTypeOK, CodeInv, NEW n \in Nodes, NodeStep(n)
    PROVE  CodeInv'
<1>1. UNCHANGED <<interfaceVars, pump>>
  BY DEF NodeStep, Background
<1>2. UNCHANGED code
  BY DEF NodeStep, Background, receivingVars, ReceivingStep, FetchStep, FetchStarts, Connect, Watch,
         WaitForDirect, OpenStream, Confirm, Receive, FetchEnds, WaitTimesOut, EndWait, Trace,
         ReceiveProgress, SameSession
<1>3. NobodyCalls
  <2>1. /\ at'[n]["Fetch"] = "called" => at[n]["Fetch"] = "called"
        /\ \A m \in Nodes \ {n} : at'[m] = at[m]
    <3>1. CASE HostingStep(n) /\ UNCHANGED receivingVars
      BY <3>1, HostingIsLocal DEF OnlyOf
    <3>2. CASE ReceivingStep(n) /\ UNCHANGED hostingVars
      BY <3>2, ReceivingIsLocal DEF OnlyOf, FetchMoves
    <3>3. CASE /\ PunchesThrough(n) \/ \E s \in Streams : WatchUpgrade(n, s)
               /\ UNCHANGED <<hostingVars, receivingVars>>
      BY <3>3, UpgradingIsLocal
    <3> QED BY <3>1, <3>2, <3>3 DEF NodeStep, Background
  <2> QED BY <2>1 DEF NobodyCalls
<1> QED BY <1>1, <1>2, <1>3, SameCode DEF interfaceVars

LEMMA HeadlessKeepsCode ==
    ASSUME UserHasOneCode, ProgramTypeOK, CodeInv, UseHeadless
    PROVE  CodeInv'
<1> USE TheNodeIsANode, GoroutinesDiffer
<1>1. UNCHANGED ui /\ HeadlessStep(command)
  BY DEF UseHeadless, interfaceVars
<1>2. at \in [Nodes -> [Goroutines -> Places]]
  BY DEF ProgramTypeOK, NodeTypeOK
<1>3. CASE ReceiveConnects
  <2>1. UNCHANGED code /\ pump' # "connecting" /\ pump = "connecting"
    BY <1>3 DEF ReceiveConnects, Return
  <2>2. \A m \in Nodes : at'[m]["Fetch"] = "called" => at[m]["Fetch"] = "called" \/ m = TheNode
    BY <1>2, <1>3 DEF ReceiveConnects, Goto
  <2> QED BY <1>1, <2>1, <2>2 DEF CodeInv, FetchHasTheCode
<1>4. CASE ReceiveCalled(command)
  <2>1. UNCHANGED at
    BY <1>4 DEF ReceiveCalled
  <2>2. PICK given \in Inputs :
            IF CheckCode(given)
            THEN /\ code' = [code EXCEPT ![TheNode] = NormalizeCode(given)]
                 /\ pump' = "connecting"
            ELSE Return("error") /\ UNCHANGED code
    BY <1>4 DEF ReceiveCalled
  <2>3. CASE CheckCode(given)
    <3>1. NormalizeCode(given) = Spoken
      BY <2>3, OneCodeIsMeant
    <3> QED BY <1>1, <2>1, <2>2, <2>3, <3>1 DEF CodeInv, FetchHasTheCode
  <2>4. CASE ~CheckCode(given)
    BY <1>1, <2>1, <2>2, <2>4 DEF CodeInv, FetchHasTheCode, Return
  <2> QED BY <2>3, <2>4
<1>5. CASE HeadlessStep(command) /\ ~ReceiveConnects /\ ~ReceiveCalled(command)
  <2>1. UNCHANGED code /\ (pump' = "connecting" => pump = "connecting")
    BY <1>5 DEF HeadlessStep, PumpStep, SendConnects, HostReturned, Logs, RoomIsLost, AttemptFails,
       TransferIsDone, Asks, PumpIsInterrupted, Takes, Continue, Return, UserAnswers, Interrupt
  <2>2. \/ UNCHANGED at
        \/ \E l \in {"announcing", "returned"} : Goto(TheNode, "Host", l)
    BY <1>5 DEF HeadlessStep, PumpStep, SendConnects, HostReturned, Logs, RoomIsLost, AttemptFails,
       TransferIsDone, Asks, PumpIsInterrupted, Takes, UserAnswers, Interrupt, Moves
  <2>3. NobodyCalls
    BY <1>2, <2>2 DEF Goto, NobodyCalls
  <2> QED BY <1>1, <2>1, <2>3, SameCode
<1> QED BY <1>1, <1>3, <1>4, <1>5

LEMMA InterfaceKeepsCode ==
    ASSUME UserHasOneCode, ProgramTypeOK, CodeInv, UseInterface
    PROVE  CodeInv'
<1> USE GoroutinesDiffer
<1>1. UNCHANGED pump /\ InterfaceStep
  BY DEF UseInterface
<1>2. at \in [Nodes -> [Goroutines -> Places]] /\ IsModel(ui)
  BY DEF ProgramTypeOK, NodeTypeOK, ModelTypeOK
<1>3. CASE EnterCodeFetch
  <2>1. PICK typed \in Inputs :
            /\ CheckCode(typed)
            /\ ui' = [ui EXCEPT !.input = NormalizeCode(typed), !.codeErr = FALSE,
                                !.screen = "Finding"]
            /\ code' = [code EXCEPT ![ui.node] = NormalizeCode(typed)]
    BY <1>3 DEF EnterCodeFetch
  <2>2. NormalizeCode(typed) = Spoken
    BY <2>1, OneCodeIsMeant
  <2>3. ~ui'.codeErr
    BY <1>2, <2>1 DEF IsModel, ModelFields
  <2>4. /\ code' \in [Nodes -> {<<>>, Spoken}]
        /\ \A m \in Nodes : code[m] = Spoken \/ m = ui.node => code'[m] = Spoken
    BY <2>1, <2>2 DEF CodeInv, FetchHasTheCode
  <2>5. \A m \in Nodes : at'[m]["Fetch"] = "called" => at[m]["Fetch"] = "called" \/ m = ui.node
    BY <1>2, <1>3 DEF EnterCodeFetch, Goto
  <2> QED BY <1>1, <2>3, <2>4, <2>5, TheNodeIsANode DEF CodeInv, FetchHasTheCode
<1>4. CASE EnterCodeRefused
  <2>1. PICK typed \in Inputs :
            ~CheckCode(typed) /\ ui' = [ui EXCEPT !.input = typed, !.codeErr = TRUE]
    BY <1>4 DEF EnterCodeRefused
  <2>2. typed \notin Spellings /\ ui'.input = typed
    BY <1>2, <2>1, OneCodeIsMeant DEF IsModel, ModelFields
  <2>3. UNCHANGED <<code, at>>
    BY <1>4 DEF EnterCodeRefused, Key, SameWorld
  <2> QED BY <1>1, <2>2, <2>3 DEF CodeInv, FetchHasTheCode
<1>5. CASE InterfaceStep /\ ~EnterCodeFetch /\ ~EnterCodeRefused
  <2>1. UNCHANGED code
    BY <1>5 DEF InterfaceStep, HandleKey, WelcomeKey, OutDirKey, PickFilesEsc, PickFilesSend,
         EnterCodeLeave, ConfirmKey, FinishedKey, Quit, Key, ConnectFails, Quietly, TakeEvent,
         NodeIsDone, NodeReady, HostReturns, receivingVars, HandleEvent, Notice, Connected,
         Preparing, RoomLost, Manifest, Progress, Failed, Saved, Handle
  <2>2. NobodyCalls
    <3>1. \/ UNCHANGED at
          \/ \E m \in Nodes \cup {NoNode}, l \in {"announcing", "returned"} : Goto(m, "Host", l)
      BY <1>2, <1>5 DEF InterfaceStep, HandleKey, WelcomeKey, OutDirKey, PickFilesEsc,
         PickFilesSend, EnterCodeLeave, ConfirmKey, FinishedKey, Quit, Key, ConnectFails, Quietly,
         TakeEvent, NodeIsDone, NodeReady, HostReturns, HandleEvent, Notice, Connected,
         Preparing, RoomLost, Manifest, Progress, Failed, Saved, Handle, SameWorld, Moves, IsModel
    <3> QED BY <1>2, <3>1 DEF Goto, NobodyCalls
  <2>3. ui'.codeErr => ui.codeErr /\ ui'.input = ui.input
    <3> USE DEF IsModel, ModelFields, Show
    <3>1. CASE WelcomeKey \/ OutDirKey \/ PickFilesEsc \/ PickFilesSend \/ EnterCodeLeave
      BY <1>2, <3>1 DEF WelcomeKey, OutDirKey, PickFilesEsc, PickFilesSend, EnterCodeLeave
    <3>2. CASE ConfirmKey
      <4>1. PICK ok \in {"yes", "no"} : Answer(ok)
        BY <3>2 DEF ConfirmKey
      <4> QED BY <1>2, <4>1 DEF Answer, ResetModel, NewModel
    <3>3. CASE FinishedKey
      BY <1>2, <3>3 DEF FinishedKey, Reset, ResetModel, NewModel
    <3>4. CASE Quit \/ ConnectFails
      BY <1>2, <3>4 DEF Quit, ConnectFails, interfaceVars
    <3>5. ASSUME NEW n \in Nodes, TakeEvent(n) \/ NodeIsDone(n) \/ NodeReady(n) \/ HostReturns(n)
          PROVE  ui'.codeErr => ui.codeErr /\ ui'.input = ui.input
      BY <1>2, <3>5 DEF TakeEvent, NodeIsDone, NodeReady, HostReturns
    <3>6. ASSUME NEW n \in Nodes, HandleEvent(n)
          PROVE  ui'.codeErr => ui.codeErr /\ ui'.input = ui.input
      BY <1>2, <3>6 DEF HandleEvent, Notice, Connected, Preparing, RoomLost, Manifest, Progress,
           Failed, Saved
    <3> QED BY <1>5, <3>1, <3>2, <3>3, <3>4, <3>5, <3>6 DEF InterfaceStep, HandleKey
  <2> QED BY <1>1, <2>1, <2>2, <2>3 DEF CodeInv, FetchHasTheCode, NobodyCalls
<1> QED BY <1>1, <1>3, <1>4, <1>5

LEMMA NextKeepsCode ==
    UserHasOneCode /\ ProgramTypeOK /\ CodeInv /\ [Next]_vars => CodeInv'
<1> SUFFICES ASSUME UserHasOneCode, ProgramTypeOK, CodeInv, [Next]_vars PROVE CodeInv'
  OBVIOUS
<1>1. CASE UNCHANGED vars \/ Update \/ Ended
  <2>1. UNCHANGED <<ui, pump, code, at>>
    BY <1>1 DEF vars, Update, Ended, interfaceVars, nodeVars, receivingVars
  <2> QED BY <2>1 DEF CodeInv, FetchHasTheCode
<1> QED BY <1>1, HeadlessKeepsCode, InterfaceKeepsCode, NodeKeepsCode DEF Next

\* A user who was told a code the program made, and types it in any way that comes to
\* that code, or something that is no code, is understood: a fetch, of the interface or
\* of -receive, is called with the code that was spoken and finds it good, and what the
\* interface refuses was not that code (NormalizeCode, CheckCode, enterCodeKey, Receive,
\* Fetch).
THEOREM CodesAreUnderstood == UserHasOneCode /\ Spec => []CodeIsUnderstood
<1>1. Init => CodeInv
  BY TheNodeIsANode, GoroutinesDiffer
     DEF Init, NodeInit, ReceivingInit, InterfaceInit, HeadlessInit, NewModel, CodeInv,
         FetchHasTheCode
<1>2. UserHasOneCode /\ CodeInv => CodeIsUnderstood
  BY OneCodeIsMeant DEF CodeInv, FetchHasTheCode, CodeIsUnderstood
<1>3. UserHasOneCode => UserHasOneCode'
  BY DEF UserHasOneCode
<1> QED BY <1>1, <1>2, <1>3, NextKeepsCode, TypesOfTheProgram, PTL DEF Spec

=============================================================================
