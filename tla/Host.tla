-------------------------------- MODULE Host --------------------------------
(***************************************************************************)
(* A sender's hosting session: Host, serve, watchOffer, keepRoom, restore, *)
(* announce, closeRoom and abandonRoom of src/internal/p2p/node.go.        *)
(*                                                                         *)
(* One goroutine runs Host, one waits for the files to be read (watcher),  *)
(* one puts the room back when the meeting point is lost (keeper), and one *)
(* serves each handshake.  pc says where each of them is; a step is what a *)
(* goroutine does between two points where another can get in: one access  *)
(* to a shared variable, one request to the meeting point, one event.      *)
(*                                                                         *)
(* The meeting point is seen from this sender: whether it is connected to  *)
(* it, who holds the room's nameplate there, whether it has a relay slot.  *)
(* Rendezvous models the server itself.  It may forget a room whose owner  *)
(* is away, and also, when it learns late that an earlier connection was   *)
(* closed, one whose owner has long been back (its OwnerGone).             *)
(***************************************************************************)
EXTENDS Integers, FiniteSets

CONSTANTS
    Handshakes,         \* the streams opened to this sender over the session
    HandshakeSlots,
    MaxWrongCodes,
    Disturbances        \* what may happen to the session from outside

Workers == {"host", "watcher", "keeper"}

\* The connection drops, the hour passes, the nameplate goes to another sender.
AllDisturbances == {"drop", "hour", "taken"}

ASSUME HostAssumption ==
    /\ HandshakeSlots \in Nat \ {0}
    /\ MaxWrongCodes \in Nat \ {0}
    /\ Disturbances \subseteq AllDisturbances
    /\ Handshakes \cap Workers = {}

Procs == Handshakes \cup Workers

VARIABLES
    pc,          \* goroutine -> where it is
    \* The node.
    room,        \* whether n.room is set
    claimed,     \* n.claimed
    handler,     \* whether the transfer handler is installed
    wrongCodes,  \* handshakes judged wrong, of serve
    left,        \* handshake -> its local left
    delivered,   \* handshakes whose Send returned nil
    offer,       \* the background read of the files
    expired,     \* whether the hour since hostedAt is over
    lost,        \* the signal in the lost channel
    \* The meeting point, as this node meets it.
    link,        \* whether a connection to it is up
    notice,      \* a connection closed, its DisconnectedF has not run
    server,      \* who holds the nameplate there
    slot,        \* whether a relay slot is reserved there
    unseen,      \* history: this connection came up by itself, or the room was
                 \* dropped over it, and it was not announced over it since
    \* What this step put on the events channel.
    event

session == <<room, claimed, handler, wrongCodes, left, delivered, offer, expired>>
meeting == <<lost, link, notice, server, slot, unseen>>
vars == <<pc, session, meeting, event>>

Labels ==
    \* Handshakes.
    {"idle", "auth", "proved", "judged", "connected", "sending", "releasing",
     "failed", "done",
    \* Closing and abandoning a room.
     "abandon", "seal", "take", "unhandle", "unregister", "finish",
    \* Announcing.
     "register", "reserve", "undo", "announced", "unannounced", "in_use",
    \* Host.
     "start_offer", "set_handler", "start_keeper",
    \* watchOffer and keepRoom.
     "reading", "waiting", "woken", "report", "restoring", "connecting",
     "gave_up"}

Events == {"none", "connected", "rejected", "delivered", "failed", "prepared",
           "server_lost", "server_back", "room_lost"}

Goto(p, l) == pc' = [pc EXCEPT ![p] = l]

\* p goes on without a word.
Silently(p, l) == Goto(p, l) /\ event' = "none"

\* p puts an event on the channel and goes on.
Emit(p, e, l) == Goto(p, l) /\ event' = e

-----------------------------------------------------------------------------
(* The handler of one stream: serve, and the transfer.Send it calls.       *)

\* A handshake holds its slot until it claims the room or its handler returns.
HoldsSlot(h) ==
    \/ pc[h] \in {"auth", "proved", "judged"}
    \/ left[h] = 0 /\ pc[h] \notin {"idle", "done"}

SlotIsFree == Cardinality({h \in Handshakes : HoldsSlot(h)}) < HandshakeSlots

\* A stream is opened while the handler is installed; with no slot free it is
\* reset at once.
Open(h) ==
    /\ pc[h] = "idle"
    /\ handler
    /\ Silently(h, IF SlotIsFree THEN "auth" ELSE "done")
    /\ UNCHANGED <<session, meeting>>

\* The other side goes away, stays silent past the deadline or sends no proof,
\* or one that shows the right one goes before it gets its answer.
DropHandshake(h) ==
    /\ pc[h] \in {"auth", "proved"}
    /\ Silently(h, "done")
    /\ UNCHANGED <<session, meeting>>

\* Judge, with the guess lock held.
JudgeRight(h) ==
    /\ pc[h] = "auth"
    /\ wrongCodes < MaxWrongCodes
    /\ Silently(h, "proved")
    /\ UNCHANGED <<session, meeting>>

\* Mutation: the guess lock taken after the test that the room is not closing.
JudgeWrongUnlocked(h) ==
    /\ pc[h] = "auth"
    /\ wrongCodes' = wrongCodes + 1
    /\ left' = [left EXCEPT ![h] = MaxWrongCodes - wrongCodes']
    /\ Silently(h, "judged")
    /\ UNCHANGED <<room, claimed, handler, delivered, offer, expired, meeting>>

\* Mutation: the tries left are taken before this one is counted.
JudgeWrongStale(h) ==
    /\ pc[h] = "auth"
    /\ wrongCodes < MaxWrongCodes
    /\ wrongCodes' = wrongCodes + 1
    /\ left' = [left EXCEPT ![h] = MaxWrongCodes - wrongCodes]
    /\ Silently(h, "judged")
    /\ UNCHANGED <<room, claimed, handler, delivered, offer, expired, meeting>>

JudgeWrong(h) ==
    /\ pc[h] = "auth"
    /\ wrongCodes < MaxWrongCodes
    /\ wrongCodes' = wrongCodes + 1
    /\ left' = [left EXCEPT ![h] = MaxWrongCodes - wrongCodes']
    /\ Silently(h, "judged")
    /\ UNCHANGED <<room, claimed, handler, delivered, offer, expired, meeting>>

\* The room is closing: right or wrong, the proof is not looked at.
JudgeClosing(h) ==
    /\ pc[h] = "auth"
    /\ wrongCodes >= MaxWrongCodes
    /\ Silently(h, "judged")
    /\ UNCHANGED <<session, meeting>>

\* Mutation: the guess that leaves no try is reported as any other.
RejectOnly(h) ==
    /\ pc[h] = "judged"
    /\ IF left[h] >= 0 THEN Emit(h, "rejected", "done") ELSE Silently(h, "done")
    /\ UNCHANGED <<session, meeting>>

\* Send has returned ErrWrongCode and nothing was claimed.
Reject(h) ==
    /\ pc[h] = "judged"
    /\ IF left[h] > 0 THEN Emit(h, "rejected", "done")
       ELSE IF left[h] = 0 THEN Silently(h, "abandon")
       ELSE Silently(h, "done")
    /\ UNCHANGED <<session, meeting>>

\* Mutation: claimed is stored without being compared.
ClaimAnyway(h) ==
    /\ pc[h] = "proved"
    /\ claimed' = TRUE
    /\ Silently(h, "connected")
    /\ UNCHANGED <<room, handler, wrongCodes, left, delivered, offer, expired, meeting>>

\* The slot is released, then the compare-and-swap on claimed.
Claim(h) ==
    /\ pc[h] = "proved"
    /\ ~claimed
    /\ claimed' = TRUE
    /\ Silently(h, "connected")
    /\ UNCHANGED <<room, handler, wrongCodes, left, delivered, offer, expired, meeting>>

ClaimBusy(h) ==
    /\ pc[h] = "proved"
    /\ claimed
    /\ Silently(h, "done")
    /\ UNCHANGED <<session, meeting>>

ReportConnected(h) ==
    /\ pc[h] = "connected"
    /\ Emit(h, "connected", "sending")
    /\ UNCHANGED <<session, meeting>>

\* Mutation: a delivered room is released like a failed one.
SendSucceedsAndReleases(h) ==
    /\ pc[h] = "sending"
    /\ offer = "ready"
    /\ claimed' = FALSE
    /\ delivered' = delivered \cup {h}
    /\ Silently(h, "take")
    /\ UNCHANGED <<room, handler, wrongCodes, left, offer, expired, meeting>>

\* Send returns nil: the files were read, and the receiver has acknowledged them.
SendSucceeds(h) ==
    /\ pc[h] = "sending"
    /\ offer = "ready"
    /\ delivered' = delivered \cup {h}
    /\ Silently(h, "take")
    /\ UNCHANGED <<room, claimed, handler, wrongCodes, left, offer, expired, meeting>>

\* Send returns a SourceError: the first read failed, or a file went since.
SourceFails(h) ==
    /\ pc[h] = "sending"
    /\ offer # "reading"
    /\ Silently(h, "abandon")
    /\ UNCHANGED <<session, meeting>>

\* Send returns any other error: a lost link, a refusal, a timeout.
SendFails(h) ==
    /\ pc[h] = "sending"
    /\ Silently(h, "releasing")
    /\ UNCHANGED <<session, meeting>>

Release(h) ==
    /\ pc[h] = "releasing"
    /\ claimed' = FALSE
    /\ Silently(h, "failed")
    /\ UNCHANGED <<room, handler, wrongCodes, left, delivered, offer, expired, meeting>>

ReportFailed(h) ==
    /\ pc[h] = "failed"
    /\ Emit(h, "failed", "done")
    /\ UNCHANGED <<session, meeting>>

-----------------------------------------------------------------------------
(* abandonRoom and closeRoom, by whichever goroutine gets there.           *)

\* Where p goes when its room is gone.
Afterwards(p) == IF p \in Handshakes THEN "done" ELSE "gave_up"

Abandon(p) ==
    /\ pc[p] = "abandon"
    /\ Silently(p, IF room THEN "seal" ELSE Afterwards(p))
    /\ UNCHANGED <<session, meeting>>

\* "Nobody new gets in while it winds down."
Seal(p) ==
    /\ pc[p] = "seal"
    /\ claimed' = TRUE
    /\ Silently(p, "take")
    /\ UNCHANGED <<room, handler, wrongCodes, left, delivered, offer, expired, meeting>>

\* Mutation: the room is read and cleared, but everyone goes through.
TakeRoomAgain(p) ==
    /\ pc[p] = "take"
    /\ room' = FALSE
    /\ Silently(p, "unhandle")
    /\ UNCHANGED <<claimed, handler, wrongCodes, left, delivered, offer, expired, meeting>>

\* closeRoom starts here: takeRoom lets one caller through.
TakeRoom(p) ==
    /\ pc[p] = "take"
    /\ room' = FALSE
    /\ Silently(p, IF room THEN "unhandle" ELSE "finish")
    /\ UNCHANGED <<claimed, handler, wrongCodes, left, delivered, offer, expired, meeting>>

RemoveHandler(p) ==
    /\ pc[p] = "unhandle"
    /\ handler' = FALSE
    /\ Silently(p, "unregister")
    /\ UNCHANGED <<room, claimed, wrongCodes, left, delivered, offer, expired, meeting>>

\* A request to the meeting point dials it if need be.
ServerDrops == IF server = "ours" THEN "none" ELSE server

\* Best effort: the answer, if there is one, is not waited for again.
UnregisterRoom(p) ==
    /\ pc[p] = "unregister"
    /\ \/ /\ link' = TRUE
          /\ server' = ServerDrops
          /\ UNCHANGED <<lost, notice, slot, unseen>>
       \/ UNCHANGED meeting
    /\ Silently(p, "finish")
    /\ UNCHANGED session

ReportEnd(p) ==
    /\ pc[p] = "finish"
    /\ Emit(p, IF p \in delivered THEN "delivered" ELSE "room_lost", Afterwards(p))
    /\ UNCHANGED <<session, meeting>>

-----------------------------------------------------------------------------
(* announce: register the room, then reserve a relay slot.  Host does it    *)
(* once, the keeper on every turn of restore.                               *)

Announcers == {"host", "keeper"}

\* The request is answered with "ok".
Register(p) ==
    /\ pc[p] = "register"
    /\ server # "other"
    /\ server' = "ours"
    /\ link' = TRUE
    /\ Silently(p, "reserve")
    /\ UNCHANGED <<session, lost, notice, slot, unseen>>

\* It fails: refused, not delivered, or its answer is lost on the way back.
RegisterFails(p) ==
    /\ pc[p] = "register"
    /\ \/ UNCHANGED server
       \/ server = "none" /\ server' = "ours"
    /\ Silently(p, "unannounced")
    /\ UNCHANGED <<session, lost, link, notice, slot, unseen>>

\* Someone else holds the nameplate: ErrInUse.
RegisterInUse(p) ==
    /\ pc[p] = "register"
    /\ server = "other"
    /\ link' = TRUE
    /\ Silently(p, "in_use")
    /\ UNCHANGED <<session, lost, notice, server, slot, unseen>>

\* The relay takes only the owner of a room.
Reserve(p) ==
    /\ pc[p] = "reserve"
    /\ server = "ours"
    /\ link' = TRUE
    /\ slot' = TRUE
    /\ unseen' = FALSE
    /\ Silently(p, "announced")
    /\ UNCHANGED <<session, lost, notice, server>>

ReserveFails(p) ==
    /\ pc[p] = "reserve"
    /\ Silently(p, "undo")
    /\ UNCHANGED <<session, meeting>>

\* "Do not leave behind a room nobody can reach": best effort again.
UndoRegister(p) ==
    /\ pc[p] = "undo"
    /\ \/ /\ link' = TRUE
          /\ server' = ServerDrops
          /\ UNCHANGED <<lost, notice, slot, unseen>>
       \/ UNCHANGED meeting
    /\ Silently(p, "unannounced")
    /\ UNCHANGED session

Announce(p) ==
    \/ Register(p) \/ RegisterFails(p) \/ RegisterInUse(p)
    \/ Reserve(p) \/ ReserveFails(p) \/ UndoRegister(p)

-----------------------------------------------------------------------------
(* Host, once the selection has been accepted.                             *)

\* Host returns an error: there is no session.
HostFails ==
    /\ pc["host"] = "unannounced"
    /\ Silently("host", "gave_up")
    /\ UNCHANGED <<session, meeting>>

SetRoom ==
    /\ pc["host"] = "announced"
    /\ room' = TRUE
    /\ Silently("host", "start_offer")
    /\ UNCHANGED <<claimed, handler, wrongCodes, left, delivered, offer, expired, meeting>>

\* offer.Start and go watchOffer.
StartOffer ==
    /\ pc["host"] = "start_offer"
    /\ offer' = "reading"
    /\ pc' = [pc EXCEPT !["host"] = "set_handler", !["watcher"] = "reading"]
    /\ event' = "none"
    /\ UNCHANGED <<room, claimed, handler, wrongCodes, left, delivered, expired, meeting>>

SetHandler ==
    /\ pc["host"] = "set_handler"
    /\ handler' = TRUE
    /\ Silently("host", "start_keeper")
    /\ UNCHANGED <<room, claimed, wrongCodes, left, delivered, offer, expired, meeting>>

StartKeeper ==
    /\ pc["host"] = "start_keeper"
    /\ pc' = [pc EXCEPT !["host"] = "done", !["keeper"] = "waiting"]
    /\ event' = "none"
    /\ UNCHANGED <<session, meeting>>

HostStep == HostFails \/ SetRoom \/ StartOffer \/ SetHandler \/ StartKeeper

-----------------------------------------------------------------------------
(* The background read and watchOffer.                                     *)

ReadOffer ==
    /\ offer = "reading"
    /\ offer' \in {"ready", "unreadable"}
    /\ event' = "none"
    /\ UNCHANGED <<pc, room, claimed, handler, wrongCodes, left, delivered, expired, meeting>>

WatchOffer ==
    /\ pc["watcher"] = "reading"
    /\ \/ offer = "ready" /\ Emit("watcher", "prepared", "done")
       \/ offer = "unreadable" /\ Silently("watcher", "abandon")
    /\ UNCHANGED <<session, meeting>>

-----------------------------------------------------------------------------
(* keepRoom and restore.                                                   *)

\* keepRoom receives from lost, and stops if the room is closed.
WakeUp ==
    /\ pc["keeper"] = "waiting"
    /\ lost
    /\ lost' = FALSE
    /\ Silently("keeper", IF room THEN "woken" ELSE "gave_up")
    /\ UNCHANGED <<session, link, notice, server, slot, unseen>>

\* "Already back, by some other path", or not.
LookAtServer ==
    /\ pc["keeper"] = "woken"
    /\ Silently("keeper", IF link THEN "waiting" ELSE "report")
    /\ UNCHANGED <<session, meeting>>

ReportServerLost ==
    /\ pc["keeper"] = "report"
    /\ Emit("keeper", "server_lost", "restoring")
    /\ UNCHANGED <<session, meeting>>

\* Mutation: restore goes on trying after the hour.
RestoreTurnForever ==
    /\ pc["keeper"] = "restoring"
    /\ Silently("keeper", IF ~room THEN "waiting" ELSE "connecting")
    /\ UNCHANGED <<session, meeting>>

\* One turn of restore's loop: nothing to put back, too late, or another try.
RestoreTurn ==
    /\ pc["keeper"] = "restoring"
    /\ Silently("keeper", IF ~room THEN "waiting"
                          ELSE IF expired THEN "in_use" ELSE "connecting")
    /\ UNCHANGED <<session, meeting>>

Connect ==
    /\ pc["keeper"] = "connecting"
    /\ link' = TRUE
    /\ Silently("keeper", "register")
    /\ UNCHANGED <<session, lost, notice, server, slot, unseen>>

ConnectFails ==
    /\ pc["keeper"] = "connecting"
    /\ Silently("keeper", "unannounced")
    /\ UNCHANGED <<session, meeting>>

\* The pause before the next turn.
BackOff ==
    /\ pc["keeper"] = "unannounced"
    /\ Silently("keeper", "restoring")
    /\ UNCHANGED <<session, meeting>>

\* restore has returned nil.
ReportServerBack ==
    /\ pc["keeper"] = "announced"
    /\ IF room THEN Emit("keeper", "server_back", "waiting")
               ELSE Silently("keeper", "waiting")
    /\ UNCHANGED <<session, meeting>>

\* restore has returned an error, ErrInUse or errRoomExpired.
RestoreFailed ==
    /\ pc["keeper"] = "in_use"
    /\ Silently("keeper", IF room THEN "abandon" ELSE "gave_up")
    /\ UNCHANGED <<session, meeting>>

KeeperStep ==
    \/ WakeUp \/ LookAtServer \/ ReportServerLost \/ RestoreTurn
    \/ Connect \/ ConnectFails \/ BackOff \/ ReportServerBack \/ RestoreFailed

-----------------------------------------------------------------------------
(* The meeting point and the network.                                      *)

\* A room has been announced, so there is a nameplate to lose.
Announced == pc["host"] \notin {"register", "reserve", "undo", "unannounced", "gave_up"}

\* The connection goes, and the relay slot with it.
LoseLink ==
    /\ "drop" \in Disturbances
    /\ link
    /\ link' = FALSE
    /\ notice' = TRUE
    /\ slot' = FALSE
    /\ unseen' = FALSE
    /\ event' = "none"
    /\ UNCHANGED <<pc, session, lost, server>>

\* A connection comes up again that the keeper did not make: another request has
\* dialled the meeting point.  Nobody announces the room on it.
LinkReturns ==
    /\ "drop" \in Disturbances
    /\ ~link
    /\ link' = TRUE
    /\ unseen' = TRUE
    /\ event' = "none"
    /\ UNCHANGED <<pc, session, lost, notice, server, slot>>

\* Mutation: the lost channel holds no signal while keepRoom is busy.
NoticeLostUnbuffered ==
    /\ notice
    /\ notice' = FALSE
    /\ lost' = (lost \/ (~link /\ pc["keeper"] = "waiting"))
    /\ event' = "none"
    /\ UNCHANGED <<pc, session, link, server, slot, unseen>>

\* DisconnectedF of New: nothing to do if a connection is up again.
NoticeLost ==
    /\ notice
    /\ notice' = FALSE
    /\ lost' = (lost \/ ~link)
    /\ event' = "none"
    /\ UNCHANGED <<pc, session, link, server, slot, unseen>>

\* The server restarts, or its grace period for an absent owner runs out.
ServerForgets ==
    /\ server = "ours"
    /\ ~link
    /\ server' = "none"
    /\ event' = "none"
    /\ UNCHANGED <<pc, session, lost, link, notice, slot, unseen>>

\* The server takes its owner for gone, the news that an earlier connection was
\* closed having come after the new one, and drops the room a grace period later.
ServerMistakes ==
    /\ "drop" \in Disturbances
    /\ server = "ours"
    /\ link
    /\ server' = "none"
    /\ unseen' = TRUE
    /\ event' = "none"
    /\ UNCHANGED <<pc, session, lost, link, notice, slot>>

\* The server drops the room at the end of the hour.
ServerExpires ==
    /\ server = "ours"
    /\ expired
    /\ server' = "none"
    /\ event' = "none"
    /\ UNCHANGED <<pc, session, lost, link, notice, slot, unseen>>

\* The server hands the number to another sender, and that one leaves again.
OtherSender ==
    /\ "taken" \in Disturbances
    /\ Announced
    /\ \/ server = "none" /\ server' = "other"
       \/ server = "other" /\ server' = "none"
    /\ event' = "none"
    /\ UNCHANGED <<pc, session, lost, link, notice, slot, unseen>>

HourPasses ==
    /\ "hour" \in Disturbances
    /\ pc["host"] = "done"
    /\ ~expired
    /\ expired' = TRUE
    /\ event' = "none"
    /\ UNCHANGED <<pc, room, claimed, handler, wrongCodes, left, delivered, offer, meeting>>

Environment ==
    \/ LoseLink \/ LinkReturns \/ NoticeLost
    \/ ServerForgets \/ ServerMistakes \/ ServerExpires \/ OtherSender
    \/ HourPasses

-----------------------------------------------------------------------------
Serve(h) ==
    \/ DropHandshake(h) \/ JudgeRight(h) \/ JudgeWrong(h) \/ JudgeClosing(h)
    \/ Reject(h) \/ Claim(h) \/ ClaimBusy(h) \/ ReportConnected(h)
    \/ SendSucceeds(h) \/ SourceFails(h) \/ SendFails(h)
    \/ Release(h) \/ ReportFailed(h)

Close(p) ==
    \/ Abandon(p) \/ Seal(p) \/ TakeRoom(p) \/ RemoveHandler(p)
    \/ UnregisterRoom(p) \/ ReportEnd(p)

\* Every goroutine has ended or waits for something from outside; anything
\* else that stops is a deadlock.
Rest ==
    /\ \A p \in Procs : pc[p] \in {"idle", "waiting", "done", "gave_up"}
    /\ event' = "none"
    /\ UNCHANGED <<pc, session, meeting>>

Init ==
    /\ pc = [p \in Procs |-> IF p = "host" THEN "register" ELSE "idle"]
    /\ room = FALSE
    /\ claimed = FALSE
    /\ handler = FALSE
    /\ wrongCodes = 0
    /\ left = [h \in Handshakes |-> -1]
    /\ delivered = {}
    /\ offer = "unread"
    /\ expired = FALSE
    /\ lost = FALSE
    /\ link = TRUE
    /\ notice = FALSE
    /\ server = "none"
    /\ slot = FALSE
    /\ unseen = FALSE
    /\ event = "none"

Next ==
    \/ \E h \in Handshakes : Open(h) \/ Serve(h)
    \/ \E p \in Procs : Close(p)
    \/ \E p \in Announcers : Announce(p)
    \/ HostStep
    \/ ReadOffer
    \/ WatchOffer
    \/ KeeperStep
    \/ Environment
    \/ Rest

Spec == Init /\ [][Next]_vars

\* Goroutines run, everything they wait for has a deadline (a handshake and a
\* stalled stream time out, a request and a dial too), the files are read to the
\* end or to an error, and the hour passes.  Nothing is assumed of the network:
\* a request may fail every time it is tried.
Fairness ==
    /\ \A h \in Handshakes : WF_vars(Serve(h))
    /\ \A p \in Procs : WF_vars(Close(p))
    /\ \A p \in Announcers : WF_vars(Announce(p))
    /\ WF_vars(HostStep)
    /\ WF_vars(ReadOffer)
    /\ WF_vars(WatchOffer)
    /\ WF_vars(KeeperStep)
    /\ WF_vars(HourPasses)

FairSpec == Spec /\ Fairness

-----------------------------------------------------------------------------
(* Properties.                                                             *)

\* Every variable keeps its type.
TypeOK ==
    /\ pc \in [Procs -> Labels]
    /\ room \in BOOLEAN /\ claimed \in BOOLEAN /\ handler \in BOOLEAN
    /\ wrongCodes \in 0 .. MaxWrongCodes
    /\ left \in [Handshakes -> -1 .. MaxWrongCodes]
    /\ delivered \subseteq Handshakes
    /\ offer \in {"unread", "reading", "ready", "unreadable"}
    /\ expired \in BOOLEAN
    /\ lost \in BOOLEAN /\ link \in BOOLEAN /\ notice \in BOOLEAN
    /\ server \in {"none", "ours", "other"}
    /\ slot \in BOOLEAN /\ unseen \in BOOLEAN
    /\ event \in Events

\* A handshake has the room from its compare-and-swap until its transfer has
\* failed and claimed is cleared; for good once it has delivered.
HasRoom(h) == pc[h] \in {"connected", "sending", "releasing"} \/ h \in delivered

\* One room, one transfer: no two handshakes ever have the room, and none gets
\* it after the files were delivered, however claims, failures, wrong codes and
\* the room's end interleave.
OneTransfer == \A g, h \in Handshakes : HasRoom(g) /\ HasRoom(h) => g = h

\* Wrong codes are counted once each: the wrong handshakes so far were told
\* MaxWrongCodes - 1, MaxWrongCodes - 2 and so on tries left, each number once
\* and none skipped, so exactly one of them finds none left and closes the room.
WrongCodesCountOnce ==
    LET wrong == {h \in Handshakes : left[h] # -1} IN
    /\ \A g, h \in wrong : left[g] = left[h] => g = h
    /\ {left[h] : h \in wrong}
          = (MaxWrongCodes - wrongCodes) .. (MaxWrongCodes - 1)

\* "Exactly one caller gets to close it": while the room is set nobody is
\* removing its handler or unregistering it, and never two at once.
ClosedByOne ==
    LET closing == {p \in Procs : pc[p] \in {"unhandle", "unregister"}} IN
    /\ room => closing = {}
    /\ \A p, q \in closing : p = q

\* keepRoom "puts the room back whenever the connection to the meeting point
\* drops", as far as the node can know: while there is a room and the keeper rests
\* with no loss to hear of, the sender is connected, however often the connection
\* goes meanwhile; and it is registered and has its relay slot, unless this very
\* connection came up by itself, or the server dropped the room over it.
RoomIsKept ==
    room /\ ~notice /\ ~lost /\ ~expired /\ pc["keeper"] = "waiting"
        => link /\ (unseen \/ (server = "ours" /\ slot))

\* abandonRoom's "nobody new gets in while it winds down": a receiver that
\* proved the code gets the room only while there is a room.
NobodyNewAfterTheEnd ==
    [][\A h \in Handshakes :
          pc[h] = "proved" /\ pc'[h] = "connected" => room]_vars

\* The room is used as SingleUse says: taken by one receiver at a time, given
\* back when its transfer fails, and never taken again once it has delivered.
Code == INSTANCE SingleUse WITH
            Receivers <- Handshakes,
            holder <- {h \in Handshakes : HasRoom(h)},
            used <- delivered # {}

UsedOnce == Code!Spec

\* restore's loop ends whatever the network does: the meeting point answers, or
\* the room's hour is over and the room is abandoned.
RestoreEnds ==
    pc["keeper"] = "restoring" ~> pc["keeper"] \in {"waiting", "gave_up"}

\* Wrong codes used up, files that cannot be read and a delivery each end the
\* room: serve, watchOffer and closeRoom lose none of them, whatever else is
\* going on.
DoomedRoomCloses ==
    wrongCodes = MaxWrongCodes \/ offer = "unreadable" \/ delivered # {} ~> ~room

=============================================================================
