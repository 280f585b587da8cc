------------------------------ MODULE Headless ------------------------------
(***************************************************************************)
(* Transfers without an interface: Send, Receive and pump of               *)
(* src/internal/headless/headless.go.  One node, one transfer; the program *)
(* ends with what Send or Receive returns.                                 *)
(***************************************************************************)
EXTENDS Hosting, Receiving

VARIABLE pump           \* where Send or Receive is

TheNode == CHOOSE n \in Nodes : \A m \in Nodes : n <= m

HeadlessInit(command) ==
    pump = IF command \in {"send", "receive"} THEN "called" ELSE "off"

\* What is the node's own business.
SameBusiness == UNCHANGED <<direct, upgrade, hostingVars, punchVars>>

\* Send or Receive returns, and closes the node it has.
Return(result) ==
    /\ pump' = "returned"
    /\ outcome' = result
    /\ life' = [life EXCEPT ![TheNode] = IF @ = "open" THEN "closed" ELSE @]

\* signalContext: from here on an interrupt cancels the context, no more.
Interrupt(command) ==
    /\ pump \notin {"off", "returned"} /\ ~interrupted
    /\ command = "receive" => pump # "called"
    /\ interrupted' = TRUE
    /\ SameBusiness /\ UNCHANGED <<pump, life, events, at, outcome, code, reply>>

SendConnects(command) ==
    /\ command = "send" /\ pump = "called"
    /\ \/ /\ ~interrupted
          /\ Start(TheNode)
          /\ Goto(TheNode, "Host", "announcing")
          /\ pump' = "hosting"
          /\ UNCHANGED outcome
       \/ Return("error") /\ UNCHANGED at
    /\ SameBusiness /\ UNCHANGED <<events, interrupted, code, reply>>

HostReturned ==
    /\ pump = "hosting"
    /\ \/ /\ Moves(TheNode, "Host", "hosted", "returned")
          /\ pump' = "pumping"
          /\ UNCHANGED <<life, outcome>>
       \/ Moves(TheNode, "Host", "refused", "returned") /\ Return("error")
    /\ SameBusiness /\ UNCHANGED <<interrupted, code, reply>>

\* A malformed code fails before anything else happens.
ReceiveCalled(command) ==
    /\ command = "receive" /\ pump = "called"
    /\ \E given \in Inputs :
          IF CheckCode(given)
          THEN /\ code' = [code EXCEPT ![TheNode] = NormalizeCode(given)]
               /\ pump' = "connecting"
               /\ UNCHANGED <<life, outcome>>
          ELSE Return("error") /\ UNCHANGED code
    /\ SameBusiness /\ UNCHANGED <<events, at, interrupted, reply>>

ReceiveConnects ==
    /\ pump = "connecting"
    /\ \/ /\ ~interrupted
          /\ Start(TheNode)
          /\ Goto(TheNode, "Fetch", "called")
          /\ pump' = "pumping"
          /\ UNCHANGED outcome
       \/ Return("error") /\ UNCHANGED at
    /\ SameBusiness /\ UNCHANGED <<events, interrupted, code, reply>>

\* pump takes an event.
Takes(e) ==
    /\ pump = "pumping" /\ events[TheNode] # <<>>
    /\ Head(events[TheNode]) = e
    /\ events' = [events EXCEPT ![TheNode] = Tail(@)]
    /\ SameBusiness /\ UNCHANGED <<at, interrupted, code>>

Continue == UNCHANGED <<pump, life, outcome>>

Logs ==
    /\ \E e \in {"notice", "preparing", "direct", "relayed", "progress"} : Takes(e)
    /\ Continue /\ UNCHANGED reply

\* Mutation: a lost room ends the program as if nothing was wrong.
RoomIsLostQuietly == Takes("roomLost") /\ Return("ok") /\ UNCHANGED reply

RoomIsLost == Takes("roomLost") /\ Return("error") /\ UNCHANGED reply

\* A DoneEvent with an error: a sender's room is still open.
AttemptFails(command) ==
    /\ Takes("failed")
    /\ IF command = "send" THEN Continue ELSE Return("error")
    /\ UNCHANGED reply

TransferIsDone == Takes("saved") /\ Return("ok") /\ UNCHANGED reply

\* The question: answered by -yes, or asked on the terminal, which waits.
Asks ==
    /\ Takes("manifest")
    /\ \/ reply' = [reply EXCEPT ![TheNode] = "yes"] /\ UNCHANGED pump
       \/ pump' = "asking" /\ UNCHANGED reply
    /\ UNCHANGED <<life, outcome>>

UserAnswers ==
    /\ pump = "asking"
    /\ \/ /\ reply' = [reply EXCEPT ![TheNode] = "yes"]
          /\ pump' = "pumping"
          /\ UNCHANGED <<life, outcome>>
       \/ reply' = [reply EXCEPT ![TheNode] = "no"] /\ Return("error")
    /\ SameBusiness /\ UNCHANGED <<events, at, interrupted, code>>

\* Nothing but Send and Receive closes the node while pump runs.
PumpIsInterrupted ==
    /\ pump = "pumping" /\ interrupted
    /\ Return("error")
    /\ SameBusiness /\ UNCHANGED <<events, at, interrupted, code, reply>>

PumpStep(command) ==
    \/ SendConnects(command) \/ HostReturned \/ ReceiveConnects
    \/ Logs \/ RoomIsLost \/ AttemptFails(command) \/ TransferIsDone \/ Asks
    \/ PumpIsInterrupted

HeadlessStep(command) ==
    PumpStep(command) \/ ReceiveCalled(command) \/ UserAnswers
    \/ Interrupt(command)

=============================================================================
