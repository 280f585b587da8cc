----------------------------- MODULE Interface -----------------------------
(***************************************************************************)
(* The terminal interface: src/internal/tui/update.go and the commands of  *)
(* src/internal/tui/tui.go.                                                *)
(*                                                                         *)
(* Bubble Tea runs Update on one message at a time.  Commands run beside   *)
(* it and post their message when they end, in any order: connectCmd,      *)
(* hostCmd, and waitEvent, which takes one event of a node.                *)
(***************************************************************************)
EXTENDS Hosting, Receiving

CONSTANT Plans      \* what a user does, session by session: "send" or "receive"

VARIABLES
    plan,           \* of the user: the n-th session is the one of node n
    ui,             \* the Model
    connects,       \* connectCmds that run
    readers,        \* node -> waitEvents that wait for its next event
    taken           \* node -> events they took that Update has not seen

interfaceVars == <<plan, ui, connects, readers, taken>>

NoInput == <<>>

\* Model: node and room are those of a node, reply is the node that asked.
NewModel ==
    [screen |-> "Welcome", mode |-> "none", node |-> NoNode, room |-> NoNode,
     haveConn |-> FALSE, direct |-> FALSE, input |-> NoInput, codeErr |-> FALSE,
     reply |-> NoNode, back |-> "Welcome"]

InterfaceInit ==
    /\ plan \in Plans
    /\ ui = NewModel
    /\ connects = 0
    /\ readers = [n \in Nodes |-> 0]
    /\ taken = [n \in Nodes |-> <<>>]

\* What a message to Update or a key leaves alone.
SameWorld ==
    UNCHANGED <<plan, events, at, direct, upgrade, interrupted, hostingVars, punchVars>>
Quietly == UNCHANGED <<life, outcome, code, reply>> /\ SameWorld

Show(screen) == ui' = [ui EXCEPT !.screen = screen]

----------------------------------------------------------------------------
(* waitEvent. *)

\* waitEvent(m.node); on no node at all it takes the program down.
Arm(n) ==
    IF n = NoNode
    THEN outcome' = "crashed" /\ UNCHANGED readers
    ELSE readers' = [readers EXCEPT ![n] = @ + 1] /\ UNCHANGED outcome

TakeEvent(n) ==
    /\ readers[n] > 0 /\ events[n] # <<>>
    /\ taken' = [taken EXCEPT ![n] = Append(@, Head(events[n]))]
    /\ events' = [events EXCEPT ![n] = Tail(@)]
    /\ readers' = [readers EXCEPT ![n] = @ - 1]
    /\ UNCHANGED <<plan, ui, connects, life, at, direct, upgrade, interrupted, outcome>>
    /\ UNCHANGED <<hostingVars, receivingVars>>

NodeIsDone(n) ==
    /\ readers[n] > 0 /\ life[n] = "closed"
    /\ readers' = [readers EXCEPT ![n] = @ - 1]
    /\ UNCHANGED <<plan, ui, connects, taken>> /\ Quietly

----------------------------------------------------------------------------
(* handleEvent. *)

\* An event of n reaches Update, which goes on to the next or does not.
Handle(n, e) ==
    /\ \E i \in DOMAIN taken[n] :
          taken[n][i] = e /\ taken' = [taken EXCEPT ![n] = RemoveAt(@, i)]
    /\ UNCHANGED <<connects, life, code, reply>> /\ SameWorld

GoOn == Arm(ui.node)
Stop == UNCHANGED <<readers, outcome>>

Notice(n) == Handle(n, "notice") /\ GoOn /\ UNCHANGED ui

\* Mutation: a connection always shows the transfer.
ConnectedCovers(n) ==
    \E e \in {"direct", "relayed"} :
        /\ Handle(n, e) /\ GoOn
        /\ ui' = [ui EXCEPT !.direct = (e = "direct"), !.haveConn = TRUE,
                            !.screen = IF @ = "Done" THEN @ ELSE "Transfer"]

Connected(n) ==
    \E e \in {"direct", "relayed"} :
        /\ Handle(n, e) /\ GoOn
        /\ ui' = [ui EXCEPT !.direct = (e = "direct"), !.haveConn = TRUE,
                            !.screen = IF @ \in {"Confirm", "Done"} THEN @ ELSE "Transfer"]

Preparing(n) ==
    /\ Handle(n, "preparing") /\ GoOn
    /\ IF ui.mode # "send" \/ ui.haveConn THEN Show("Transfer") ELSE UNCHANGED ui

RoomLost(n) == Handle(n, "roomLost") /\ GoOn /\ Show("Error")

Manifest(n) ==
    /\ Handle(n, "manifest") /\ GoOn
    /\ ui' = [ui EXCEPT !.reply = n, !.screen = "Confirm"]

\* Mutation: progress does not bring its screen back.
ProgressHidden(n) == Handle(n, "progress") /\ GoOn /\ UNCHANGED ui

Progress(n) == Handle(n, "progress") /\ GoOn /\ Show("Transfer")

\* A failed attempt leaves a sender waiting for the next one.
Failed(n) ==
    /\ Handle(n, "failed")
    /\ IF ui.mode = "send" /\ ui.room # NoNode
       THEN ui' = [ui EXCEPT !.haveConn = FALSE, !.screen = "Waiting"] /\ GoOn
       ELSE Show("Error") /\ Stop

Saved(n) == Handle(n, "saved") /\ Stop /\ Show("Done")

HandleEvent(n) ==
    \/ Notice(n) \/ Connected(n) \/ Preparing(n) \/ RoomLost(n) \/ Manifest(n)
    \/ Progress(n) \/ Failed(n) \/ Saved(n)

----------------------------------------------------------------------------
(* connectCmd and hostCmd end. *)

FirstScreen ==
    CASE ui.mode = "send" -> "PickFiles"
      [] ui.mode = "receive" -> "EnterCode"
      [] OTHER -> ui.screen

NodeReady(n) ==
    /\ connects > 0
    /\ life[n] = "none" /\ \A m \in Nodes : m < n => life[m] # "none"
    /\ connects' = connects - 1
    /\ Start(n)
    /\ ui' = [ui EXCEPT !.node = n, !.screen = FirstScreen]
    /\ Arm(n)
    /\ UNCHANGED <<taken, code, reply>> /\ SameWorld

\* errMsg of connectCmd.
ConnectFails ==
    /\ connects > 0
    /\ connects' = connects - 1
    /\ Show("Error")
    /\ UNCHANGED <<readers, taken>> /\ Quietly

\* roomReadyMsg, or errMsg of hostCmd.
HostReturns(n) ==
    /\ \/ /\ Moves(n, "Host", "hosted", "returned")
          /\ ui' = [ui EXCEPT !.room = n, !.screen = "Waiting"]
       \/ Moves(n, "Host", "refused", "returned") /\ Show("Error")
    /\ UNCHANGED <<plan, connects, readers, taken, life, direct, upgrade, interrupted, outcome>>
    /\ UNCHANGED <<hostingVars, receivingVars>>

----------------------------------------------------------------------------
(* handleKey. *)

\* reset keeps the channel of a question and the screen behind OutDir.
ResetModel == [NewModel EXCEPT !.reply = ui.reply, !.back = ui.back]

\* Mutation: the node is forgotten and not closed.
ResetKeeps == ui' = ResetModel /\ UNCHANGED life

Reset ==
    /\ ui' = ResetModel
    /\ IF ui.node = NoNode THEN UNCHANGED life ELSE Close(ui.node)

\* What every key but those of hosting and fetching leaves alone.
Key(screen) ==
    /\ ui.screen = screen
    /\ UNCHANGED <<readers, taken, code, outcome>> /\ SameWorld

\* A message that is ready is with Update long before the user has read the menu:
\* the commands of a closed node have nothing left to say by then.
Settled ==
    \A n \in Nodes :
        life[n] = "closed" => readers[n] = 0 /\ taken[n] = <<>> /\ at[n]["Host"] # "hosted"

\* The session that is to come.
Session == 1 + Cardinality({n \in Nodes : life[n] # "none"})

WelcomeKey ==
    /\ Key("Welcome") /\ UNCHANGED <<life, reply>>
    /\ \/ /\ Settled
          /\ Session \in DOMAIN plan
          /\ ui' = [ui EXCEPT !.mode = plan[Session], !.screen = "Connecting"]
          /\ connects' = connects + 1
       \/ ui' = [ui EXCEPT !.back = "Welcome", !.screen = "OutDir"] /\ UNCHANGED connects

\* Mutation: ctrl+o works on the folder's own screen too, and makes it lead to itself.
OutDirKeyAgain ==
    /\ Key("OutDir") /\ UNCHANGED <<life, reply, connects>>
    /\ ui' = [ui EXCEPT !.back = "OutDir"]

\* Both esc and a folder that will do lead back.
OutDirKey ==
    /\ Key("OutDir") /\ UNCHANGED <<life, reply, connects>>
    /\ Show(ui.back)

PickFilesEsc ==
    /\ Key("PickFiles") /\ UNCHANGED <<life, reply, connects>>
    /\ Show("Welcome")

\* s, with files picked: hostCmd.
PickFilesSend ==
    /\ ui.screen = "PickFiles"
    /\ Goto(ui.node, "Host", "announcing")
    /\ Show("Connecting")
    /\ UNCHANGED <<plan, events, connects, readers, taken, life, direct, upgrade, interrupted, outcome>>
    /\ UNCHANGED <<hostingVars, receivingVars>>

\* esc and ctrl+o.
EnterCodeLeave ==
    /\ Key("EnterCode") /\ UNCHANGED <<life, reply, connects>>
    /\ \/ ui' = [ui EXCEPT !.screen = "Welcome", !.input = NoInput, !.codeErr = FALSE]
       \/ ui' = [ui EXCEPT !.back = "EnterCode", !.screen = "OutDir"]

\* enter, on a code that will not do.
EnterCodeRefused ==
    /\ Key("EnterCode") /\ UNCHANGED <<life, reply, connects>>
    /\ \E typed \in Inputs :
          /\ ~CheckCode(typed)
          /\ ui' = [ui EXCEPT !.input = typed, !.codeErr = TRUE]

\* Mutation: fetchCmd brings an event reader of its own.
EnterCodeArms ==
    /\ ui.screen = "EnterCode"
    /\ \E typed \in Inputs :
          /\ CheckCode(typed)
          /\ ui' = [ui EXCEPT !.input = NormalizeCode(typed), !.codeErr = FALSE,
                              !.screen = "Finding"]
          /\ code' = [code EXCEPT ![ui.node] = NormalizeCode(typed)]
    /\ Goto(ui.node, "Fetch", "called")
    /\ Arm(ui.node)
    /\ UNCHANGED <<plan, events, connects, taken, life, direct, upgrade, interrupted>>
    /\ UNCHANGED <<hostingVars, punchVars, reply>>

\* enter, on a code: fetchCmd.
EnterCodeFetch ==
    /\ ui.screen = "EnterCode"
    /\ \E typed \in Inputs :
          /\ CheckCode(typed)
          /\ ui' = [ui EXCEPT !.input = NormalizeCode(typed), !.codeErr = FALSE,
                              !.screen = "Finding"]
          /\ code' = [code EXCEPT ![ui.node] = NormalizeCode(typed)]
    /\ Goto(ui.node, "Fetch", "called")
    /\ UNCHANGED <<plan, events, connects, readers, taken, life, direct, upgrade, interrupted, outcome>>
    /\ UNCHANGED <<hostingVars, punchVars, reply>>

\* answerConfirm sends the answer, and ends the session if it is no.
Answer(ok) ==
    /\ reply' = IF ui.reply = NoNode THEN reply ELSE [reply EXCEPT ![ui.reply] = ok]
    /\ IF ok = "yes"
       THEN /\ ui' = [ui EXCEPT !.reply = NoNode, !.screen = "Transfer"]
            /\ UNCHANGED life
       ELSE /\ ui' = [ResetModel EXCEPT !.reply = NoNode]
            /\ IF ui.node = NoNode THEN UNCHANGED life ELSE Close(ui.node)

ConfirmKey ==
    /\ Key("Confirm") /\ UNCHANGED connects
    /\ \E ok \in {"yes", "no"} : Answer(ok)

FinishedKey ==
    /\ \E screen \in {"Done", "Error"} : Key(screen)
    /\ Reset
    /\ UNCHANGED <<connects, reply>>

\* ctrl+c, on any screen, and what Run does after it.
Quit ==
    /\ outcome' = "ok"
    /\ interrupted' = TRUE
    /\ IF ui.node = NoNode THEN UNCHANGED life ELSE Close(ui.node)
    /\ UNCHANGED <<interfaceVars, events, at, direct, upgrade, hostingVars, receivingVars>>

HandleKey ==
    \/ WelcomeKey \/ OutDirKey \/ PickFilesEsc \/ PickFilesSend
    \/ EnterCodeLeave \/ EnterCodeRefused \/ EnterCodeFetch
    \/ ConfirmKey \/ FinishedKey \/ Quit

InterfaceStep ==
    \/ HandleKey \/ ConnectFails
    \/ \E n \in Nodes : \/ TakeEvent(n) \/ NodeIsDone(n) \/ HandleEvent(n)
                        \/ NodeReady(n) \/ HostReturns(n)

=============================================================================
