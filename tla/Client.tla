------------------------------- MODULE Client -------------------------------
(***************************************************************************)
(* The program people run: src/cmd/client/main.go.  Its arguments make it  *)
(* update itself, send or receive on its own, or open the interface; the   *)
(* nodes it starts work in the background meanwhile.                       *)
(***************************************************************************)
EXTENDS Interface, Headless, Updater

CONSTANTS
    Commands,       \* "tui", "send", "receive", "update"
    Spoken,         \* the code that was told to the user
    Spellings       \* and ways to type it, among the Inputs

VARIABLE command

vars == <<command, nodeVars, hostingVars, receivingVars, interfaceVars, pump, updaterVars>>

\* main.  Only an update looks at what is installed.
Init ==
    /\ command \in Commands
    /\ NodeInit /\ HostingInit /\ ReceivingInit /\ InterfaceInit
    /\ HeadlessInit(command)
    /\ UpdaterInit
    /\ command # "update" =>
          /\ system = [name |-> CHOOSE s \in Systems : TRUE, packaged |-> FALSE, key |-> FALSE]
          /\ running.version = CHOOSE v \in Installed : TRUE

NoUpdate == UNCHANGED <<command, updaterVars>>

UseInterface ==
    /\ command = "tui" /\ outcome = "running"
    /\ InterfaceStep
    /\ UNCHANGED pump /\ NoUpdate

UseHeadless ==
    /\ outcome = "running"
    /\ HeadlessStep(command)
    /\ UNCHANGED interfaceVars /\ NoUpdate

\* One step of a node that something asked of: n's Host and all that follows it, or
\* its Fetch.
Background(n, action) ==
    /\ outcome = "running" /\ life[n] # "none"
    /\ action
    /\ UNCHANGED <<interfaceVars, pump>> /\ NoUpdate

NodeStep(n) ==
    \/ Background(n, HostingStep(n) /\ UNCHANGED receivingVars)
    \/ Background(n, ReceivingStep(n) /\ UNCHANGED hostingVars)
    \/ Background(n, PunchesThrough(n) /\ UNCHANGED <<hostingVars, receivingVars>>)
    \/ \E s \in Streams :
          Background(n, WatchUpgrade(n, s) /\ UNCHANGED <<hostingVars, receivingVars>>)

Update ==
    /\ command = "update"
    /\ UpdaterStep
    /\ UNCHANGED <<command, nodeVars, hostingVars, receivingVars, interfaceVars, pump>>

\* The program has ended, or there is none to start again.
Ended ==
    /\ \/ outcome # "running"
       \/ step \in {"stranded", "died"} /\ ~IsProgram(files.exe)
    /\ UNCHANGED vars

Next ==
    \/ UseInterface \/ UseHeadless \/ Update \/ Ended
    \/ \E n \in Nodes : NodeStep(n)

Spec == Init /\ [][Next]_vars

----------------------------------------------------------------------------
(* Fairness.  Goroutines and commands run; nothing is asked of the user, the *)
(* other side or the network: a transfer may last as long as it likes while  *)
(* its node is open, and waitForDirect is not helped by its deadline.        *)

\* What a node does of its own accord: watchOffer's read ends, a serve or a keepRoom
\* that nothing disturbs goes on.  An emitter that waits for a place in the channel
\* gets the next one, before any progress does, so that those that progress could
\* keep out are treated strongly; so is progress, which a transfer makes again and
\* again.
NodeFairness(n) ==
    LET InHost(action) == Background(n, action /\ UNCHANGED receivingVars)
        InFetch(action) == Background(n, action /\ UNCHANGED hostingVars)
    IN
    /\ WF_vars(InHost(Host(n)))
    /\ WF_vars(InHost(WatchOffer(n)))
    /\ WF_vars(InHost(life[n] = "closed" /\ KeepRoom(n)))
    /\ \A g \in Enders : SF_vars(InHost(Abandon(n, g)))
    /\ \A s \in Serves :
          /\ WF_vars(InHost(life[n] = "closed" /\ Reject(n, s)))
          /\ WF_vars(InHost(Greet(n, s)))
          /\ WF_vars(InHost((life[n] = "closed" \/ at[n][s] # "sending") /\ SendEnds(n, s)))
          /\ SF_vars(InHost(SendProgress(n, s)))
    /\ WF_vars(InFetch(FetchStep(n)))
    /\ \A s \in Serves : WF_vars(InHost(WatchUpgrade(n, s) /\ UNCHANGED hostingVars))
    /\ SF_vars(InFetch(WatchUpgrade(n, "Fetch") /\ UNCHANGED receivingVars))

\* The interface answers, and so does New; pump's select does not overlook a
\* cancelled context for ever.
ProgramFairness ==
    LET InInterface(action) == /\ command = "tui" /\ outcome = "running"
                               /\ action
                               /\ UNCHANGED pump /\ NoUpdate
        InHeadless(action) == /\ outcome = "running"
                              /\ action
                              /\ UNCHANGED interfaceVars /\ NoUpdate
    IN
    /\ WF_vars(InInterface(ConnectFails \/ \E n \in Nodes : NodeReady(n)))
    /\ \A n \in Nodes :
          /\ WF_vars(InInterface(TakeEvent(n) \/ NodeIsDone(n)))
          /\ WF_vars(InInterface(HandleEvent(n)))
          /\ WF_vars(InInterface(HostReturns(n)))
    /\ WF_vars(InHeadless(PumpStep(command)))
    /\ WF_vars(InHeadless(PumpIsInterrupted))

FairSpec == Spec /\ ProgramFairness /\ \A n \in Nodes : NodeFairness(n)

----------------------------------------------------------------------------
(* Properties. *)

Screens == {"Welcome", "Connecting", "PickFiles", "Waiting", "EnterCode", "Finding",
            "Confirm", "Transfer", "Done", "Error", "OutDir"}

TypeOK ==
    /\ command \in Commands
    /\ life \in [Nodes -> {"none", "open", "closed"}]
    /\ \A n \in Nodes : events[n] \in SeqOf(Events, Capacity)
    /\ direct \in [Nodes -> BOOLEAN]
    /\ interrupted \in BOOLEAN
    /\ outcome \in {"running", "ok", "error", "crashed"}
    /\ room \in [Nodes -> {"none", "open", "closed"}]
    /\ claimed \in [Nodes -> BOOLEAN]
    /\ reply \in [Nodes -> {"none", "yes", "no"}]
    /\ ui.screen \in Screens /\ ui.back \in {"Welcome", "EnterCode"}
    /\ {ui.node, ui.room, ui.reply} \subseteq Nodes \cup {NoNode}
    /\ readers \in [Nodes -> Nat]

\* One waitEvent at most is in flight for a node, its event included: two would
\* let events overtake each other (waitEvent: "Exactly one of these may be in
\* flight at a time").
OneReader == \A n \in Nodes : readers[n] + Len(taken[n]) <= 1

\* A question that waits for its answer is on the screen until it has it
\* (handleEvent, for ConnectedEvent).
QuestionStays == ui.reply # NoNode => ui.screen = "Confirm"

\* A node that the interface has left behind and not closed, or has not started
\* anything on, runs nothing that could disturb the next session (pickFilesKey and
\* enterCodeKey, esc).
StrayNodesIdle ==
    \A n \in Nodes :
        life[n] = "open" /\ command = "tui" /\ ui.node # n
            => \A g \in Goroutines : at[n][g] = "off"

\* Every way of typing the code that was spoken is accepted and means that code, to
\* the interface, to -receive and to Fetch, which checks it again; anything else
\* among the inputs is refused before a lookup (CheckCode, NormalizeCode).
CodeIsUnderstood ==
    /\ ui.codeErr => ui.input \notin Spellings
    /\ \A n \in Nodes :
          /\ code[n] \in {<<>>, Spoken}
          /\ at[n]["Fetch"] = "called" => CheckCode(code[n])

\* countFailure closes the channel of a wait once: while it has an entry, the
\* channel is open (punchWatcher; a second close would panic).
WatchedIsOpen == \A n \in Nodes : watching[n] => gaveUp[n] = "open"

\* -send and -receive succeed only with every file at the receiver, and -send gives
\* up only when its room has gone, or it was told to (Send: "It gives up only when
\* the code itself stops working").
ResultIsTrue ==
    command \in {"send", "receive"} =>
        /\ outcome = "ok" => delivered[TheNode] \/ at[TheNode]["Fetch"] = "saved"
        /\ outcome = "error" /\ command = "send"
               => room[TheNode] # "open" \/ interrupted

----------------------------------------------------------------------------

\* The end of a fetch, and of a send that delivered, gets to the screen and stays
\* there until the user leaves it (waitEvent: "leave the user staring at a transfer
\* screen that never finishes").
FinishedIsShown ==
    \A n \in Nodes :
        [](/\ command = "tui"
           /\ at[n]["Fetch"] \in {"saved", "failed"} \/ delivered[n]
           => <>[](\/ ui.screen \in {"Done", "Error"}
                   \/ life[n] = "closed" \/ outcome # "running"))

\* A transfer that goes on is on the screen in the end, whatever a failed attempt
\* before it still had to say (handleEvent, for ProgressEvent).
RunningIsShown ==
    \A n \in Nodes : \A s \in Serves :
        <>[](command = "tui" /\ at[n][s] = "sending" /\ life[n] = "open")
            => <>[](ui.screen = "Transfer" \/ outcome # "running")

\* A direct connection that comes about while files are received is shown in the
\* end (watchDirectUpgrade).
UpgradeIsShown ==
    \A n \in Nodes :
        <>[](command = "tui" /\ at[n]["Fetch"] = "receiving" /\ life[n] = "open" /\ direct[n])
            => <>[](ui.direct \/ outcome # "running")

Resting == {"off", "returned", "saved", "failed"}

\* A closed node's goroutines all come to an end, though nobody reads its events
\* any more (emit: "must not leave a goroutine waiting on a reader that will never
\* come back").
EmittersReleased ==
    \A n \in Nodes :
        life[n] = "closed"
            ~> \/ outcome # "running"
               \/ /\ \A g \in Goroutines : at[n][g] \in Resting
                  /\ \A s \in Streams : upgrade[n][s] = "off"

\* When the hole puncher has had its last try the wait for it is over, without the
\* deadline (waitForDirect).
GiveUpEndsWait ==
    \A n \in Nodes :
        failures[n] >= HolePunchAttempts
            ~> at[n]["Fetch"] # "waiting" \/ outcome # "running"

\* -send and -receive return when they are interrupted, when a fetch has ended and
\* when the room is lost; only a question on the terminal keeps them (pump).
CommandReturns ==
    /\ command \in {"send", "receive"}
    /\ \/ interrupted
       \/ at[TheNode]["Fetch"] \in {"saved", "failed"}
       \/ room[TheNode] = "closed"
    ~> outcome # "running" \/ pump = "asking"

----------------------------------------------------------------------------
(* What the program's own comments say and the program does not do. *)

\* Nothing that happened to the room of n is still on its way to the interface.
AllIsSaid(n) ==
    /\ events[n] = <<>> /\ taken[n] = <<>>
    /\ \A g \in Enders : at[n][g] \in {"off", "keeping"}

\* After a failed attempt the waiting screen shows a code that works: "the room is
\* still registered, so go back to waiting and let the receiver try the same code
\* again" (handleEvent, for a DoneEvent with an error).
WaitingMeansRoom ==
    [][\A n \in Nodes :
          Failed(n) /\ life[n] = "open" /\ ui'.screen = "Waiting" /\ AllIsSaid(n)'
              => room[n] = "open"]_vars

=============================================================================
