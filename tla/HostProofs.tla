----------------------------- MODULE HostProofs -----------------------------
(***************************************************************************)
(* Proofs about Host for any number of handshakes, slots and wrong codes   *)
(* and any choice of disturbances.                                         *)
(***************************************************************************)
EXTENDS Host, TLAPS

-----------------------------------------------------------------------------
(* The inductive invariant.                                                *)

InTransfer == {"connected", "sending", "releasing"}
Leaving == {"take", "unhandle", "unregister", "finish", "done"}
Closing == {"unhandle", "unregister"}

\* Where the host is before it sets the room.
Opening == {"register", "reserve", "undo", "announced", "unannounced", "in_use"}

\* Who has the room has claimed it: claimed is cleared by its holder alone.
HolderHasClaimed == \A h \in Handshakes : HasRoom(h) => claimed

\* A handshake that has delivered only has the room left to close.
DeliveredLeaves == \A h \in delivered : pc[h] \in Leaving

\* A handshake that has not been judged has not been told any number.
JudgedOnce == \A h \in Handshakes : pc[h] \in {"idle", "auth"} => left[h] = -1

\* Until the host sets the room it is alone and has nothing to close.
HostIsFirst ==
    pc["host"] \in Opening =>
        /\ ~room /\ ~handler /\ offer = "unread"
        /\ \A p \in Procs \ {"host"} : pc[p] = "idle"

HostInv ==
    /\ TypeOK
    /\ OneTransfer /\ HolderHasClaimed /\ DeliveredLeaves
    /\ WrongCodesCountOnce /\ JudgedOnce
    /\ ClosedByOne /\ HostIsFirst

MeetingTypeOK ==
    /\ lost \in BOOLEAN /\ link \in BOOLEAN /\ notice \in BOOLEAN
    /\ server \in {"none", "ours", "other"}
    /\ slot \in BOOLEAN /\ unseen \in BOOLEAN
    /\ event \in Events

\* The goroutines are all different.
LEMMA ProcsAreDistinct ==
    /\ Handshakes \subseteq Procs
    /\ "host" \in Procs /\ "keeper" \in Procs /\ "watcher" \in Procs
    /\ "host" # "keeper" /\ "host" # "watcher" /\ "keeper" # "watcher"
    /\ "host" \notin Handshakes /\ "keeper" \notin Handshakes
    /\ "watcher" \notin Handshakes
BY HostAssumption DEF Procs, Workers

LEMMA InitHolds == Init => HostInv
<1> SUFFICES ASSUME Init PROVE HostInv
  OBVIOUS
<1> USE DEF Init
<1>1. TypeOK
  <2>1. pc \in [Procs -> Labels]
    BY DEF Labels
  <2>2. wrongCodes \in 0 .. MaxWrongCodes
    BY HostAssumption
  <2>3. left \in [Handshakes -> -1 .. MaxWrongCodes]
    BY HostAssumption
  <2>4. event \in Events
    BY DEF Events
  <2> QED BY <2>1, <2>2, <2>3, <2>4 DEF TypeOK
<1>2. OneTransfer /\ HolderHasClaimed /\ DeliveredLeaves
  BY ProcsAreDistinct DEF OneTransfer, HolderHasClaimed, DeliveredLeaves, HasRoom
<1>3. WrongCodesCountOnce
  BY HostAssumption DEF WrongCodesCountOnce
<1>4. JudgedOnce
  BY DEF JudgedOnce
<1>5. ClosedByOne
  BY DEF ClosedByOne
<1>6. HostIsFirst
  BY ProcsAreDistinct DEF HostIsFirst
<1> QED BY <1>1, <1>2, <1>3, <1>4, <1>5, <1>6 DEF HostInv

-----------------------------------------------------------------------------
(* Most steps move one goroutine on and touch nothing the invariant is     *)
(* about but where that goroutine is.                                      *)

\* Where p may go, at l, without taking the room, being judged or closing.
MayWalk(p, l) ==
    /\ l \in Labels
    /\ l \in InTransfer => pc[p] \in InTransfer
    /\ p \in delivered => l \in Leaving
    /\ l = "auth" => pc[p] = "idle"
    /\ l # "idle"
    /\ l \in Closing => pc[p] \in Closing
    /\ pc["host"] \in Opening => p = "host"
    /\ p = "host" /\ l \in Opening => pc["host"] \in Opening

\* A step of one goroutine that leaves the session alone keeps the invariant.
LEMMA WalkKeepsInvariant ==
    ASSUME HostInv, NEW p \in Procs, NEW l, MayWalk(p, l), Goto(p, l),
           UNCHANGED session, MeetingTypeOK'
    PROVE  HostInv'
<1> USE DEF HostInv, session
<1>1. pc \in [Procs -> Labels] /\ pc' \in [Procs -> Labels]
  BY DEF Goto, MayWalk, TypeOK
<1>2. pc' = [pc EXCEPT ![p] = l]
  BY DEF Goto
<1>3. TypeOK'
  BY <1>1 DEF TypeOK, MeetingTypeOK
<1>4. \A h \in Handshakes : HasRoom(h)' => HasRoom(h)
  BY <1>1, <1>2, ProcsAreDistinct DEF HasRoom, MayWalk, InTransfer
<1>5. OneTransfer' /\ HolderHasClaimed'
  BY <1>4 DEF OneTransfer, HolderHasClaimed
<1>6. DeliveredLeaves'
  BY <1>1, <1>2, ProcsAreDistinct DEF DeliveredLeaves, MayWalk, TypeOK
<1>7. WrongCodesCountOnce'
  BY DEF WrongCodesCountOnce
<1>8. JudgedOnce'
  BY <1>1, <1>2, ProcsAreDistinct DEF JudgedOnce, MayWalk
<1>9. ClosedByOne'
  BY <1>1, <1>2 DEF ClosedByOne, MayWalk, Closing
<1>10. HostIsFirst'
  BY <1>1, <1>2, ProcsAreDistinct DEF HostIsFirst, MayWalk
<1> QED BY <1>3, <1>5, <1>6, <1>7, <1>8, <1>9, <1>10

\* A step that moves no goroutine and leaves the session alone, but for the
\* hour, keeps the invariant.
LEMMA StillKeepsInvariant ==
    ASSUME HostInv, UNCHANGED pc,
           UNCHANGED <<room, claimed, handler, wrongCodes, left, delivered, offer>>,
           expired' \in BOOLEAN, MeetingTypeOK'
    PROVE  HostInv'
<1> USE DEF HostInv
<1>1. TypeOK'
  BY DEF TypeOK, MeetingTypeOK
<1>2. \A h \in Handshakes : HasRoom(h)' <=> HasRoom(h)
  BY DEF HasRoom
<1> QED BY <1>1, <1>2 DEF OneTransfer, HolderHasClaimed, DeliveredLeaves,
       WrongCodesCountOnce, JudgedOnce, ClosedByOne, HostIsFirst

\* Only the host can have moved before the room is set.
LEMMA OnlyHostAtFirst ==
    ASSUME HostInv, NEW p \in Procs, pc[p] # "idle", pc["host"] \in Opening
    PROVE  p = "host"
BY DEF HostInv, HostIsFirst

-----------------------------------------------------------------------------
(* Handshakes.                                                             *)

\* The steps of a handshake that only move it on.
LEMMA QuietServe ==
    ASSUME HostInv, NEW h \in Handshakes,
           \/ Open(h) \/ DropHandshake(h) \/ JudgeRight(h) \/ JudgeClosing(h)
           \/ Reject(h) \/ ClaimBusy(h) \/ ReportConnected(h)
           \/ SourceFails(h) \/ SendFails(h) \/ ReportFailed(h)
    PROVE  HostInv'
<1>1. h \in Procs /\ h # "host"
  BY ProcsAreDistinct
<1>2. MeetingTypeOK'
  BY DEF HostInv, TypeOK, MeetingTypeOK, Events, meeting, Silently, Emit, Open,
         DropHandshake, JudgeRight, JudgeClosing, Reject, ClaimBusy,
         ReportConnected, SourceFails, SendFails, ReportFailed
<1>3. UNCHANGED session
  BY DEF Open, DropHandshake, JudgeRight, JudgeClosing, Reject, ClaimBusy,
         ReportConnected, SourceFails, SendFails, ReportFailed
<1>4. pc["host"] \notin Opening
  <2>1. pc[h] # "idle" \/ handler
    BY DEF Open, DropHandshake, JudgeRight, JudgeClosing, Reject, ClaimBusy,
           ReportConnected, SourceFails, SendFails, ReportFailed
  <2> QED BY <1>1, <2>1 DEF HostInv, HostIsFirst
<1>5. \A l : MayWalk(h, l) /\ Goto(h, l) => HostInv'
  BY <1>1, <1>2, <1>3, WalkKeepsInvariant
<1>6. ASSUME h \in delivered PROVE pc[h] \in Leaving
  BY <1>6 DEF HostInv, DeliveredLeaves
<1> USE <1>1, <1>4, <1>6
    DEF MayWalk, Labels, InTransfer, Leaving, Closing, Silently, Emit
<1>7. CASE Open(h)
  <2>1. MayWalk(h, "auth") /\ MayWalk(h, "done")
    BY <1>7 DEF Open
  <2> QED BY <1>5, <1>7, <2>1 DEF Open
<1>8. CASE DropHandshake(h)
  BY <1>5, <1>8 DEF DropHandshake
<1>9. CASE JudgeRight(h)
  BY <1>5, <1>9 DEF JudgeRight
<1>10. CASE JudgeClosing(h)
  BY <1>5, <1>10 DEF JudgeClosing
<1>11. CASE Reject(h)
  <2>1. MayWalk(h, "done") /\ MayWalk(h, "abandon")
    BY <1>11 DEF Reject
  <2> QED BY <1>5, <1>11, <2>1 DEF Reject
<1>12. CASE ClaimBusy(h)
  BY <1>5, <1>12 DEF ClaimBusy
<1>13. CASE ReportConnected(h)
  BY <1>5, <1>13 DEF ReportConnected
<1>14. CASE SourceFails(h)
  BY <1>5, <1>14 DEF SourceFails
<1>15. CASE SendFails(h)
  BY <1>5, <1>15 DEF SendFails
<1>16. CASE ReportFailed(h)
  BY <1>5, <1>16 DEF ReportFailed
<1> QED BY <1>7, <1>8, <1>9, <1>10, <1>11, <1>12, <1>13, <1>14, <1>15, <1>16

\* A wrong proof is told a number nobody was told before.
LEMMA JudgeWrongStep ==
    ASSUME HostInv, NEW h \in Handshakes, JudgeWrong(h)
    PROVE  HostInv'
<1> DEFINE wrong == {g \in Handshakes : left[g] # -1}
           tries == MaxWrongCodes - (wrongCodes + 1)
<1>1. /\ pc[h] = "auth" /\ wrongCodes < MaxWrongCodes
      /\ pc' = [pc EXCEPT ![h] = "judged"]
      /\ wrongCodes' = wrongCodes + 1
      /\ left' = [left EXCEPT ![h] = MaxWrongCodes - wrongCodes']
      /\ UNCHANGED <<room, claimed, handler, delivered, offer, expired, meeting>>
      /\ event' = "none"
  BY DEF JudgeWrong, Silently, Goto
<1>2. /\ pc \in [Procs -> Labels] /\ left \in [Handshakes -> -1 .. MaxWrongCodes]
      /\ wrongCodes \in 0 .. MaxWrongCodes /\ MaxWrongCodes \in Nat
  BY HostAssumption DEF HostInv, TypeOK
<1>3. left[h] = -1 /\ h \in Procs /\ h # "host"
  BY <1>1, ProcsAreDistinct DEF HostInv, JudgedOnce
<1>4. tries \in 0 .. MaxWrongCodes - 1
  BY <1>1, <1>2
<1>5. left' = [left EXCEPT ![h] = tries]
  BY <1>1
<1>6. TypeOK'
  <2>1. pc' \in [Procs -> Labels]
    BY <1>1, <1>2, <1>3 DEF Labels
  <2>2. left' \in [Handshakes -> -1 .. MaxWrongCodes]
    BY <1>2, <1>4, <1>5
  <2>3. wrongCodes' \in 0 .. MaxWrongCodes
    BY <1>1, <1>2
  <2> QED BY <1>1, <2>1, <2>2, <2>3 DEF HostInv, TypeOK, meeting, Events
<1>7. \A g \in Handshakes : HasRoom(g)' <=> HasRoom(g)
  BY <1>1, <1>2, <1>3 DEF HasRoom
<1>8. OneTransfer' /\ HolderHasClaimed'
  BY <1>1, <1>7 DEF HostInv, OneTransfer, HolderHasClaimed
<1>9. DeliveredLeaves'
  BY <1>1, <1>2, <1>3 DEF HostInv, DeliveredLeaves, Leaving
<1>10. WrongCodesCountOnce'
  <2>1. {left[g] : g \in wrong} = (MaxWrongCodes - wrongCodes) .. (MaxWrongCodes - 1)
    BY DEF HostInv, WrongCodesCountOnce
  <2>2. \A g \in wrong : left[g] # tries
    <3>1. \A g \in wrong : left[g] \in (MaxWrongCodes - wrongCodes) .. (MaxWrongCodes - 1)
      BY <2>1
    <3> QED BY <1>2, <3>1
  <2>3. wrong' = wrong \cup {h}
    BY <1>2, <1>4, <1>5
  <2>4. \A g \in wrong : left'[g] = left[g]
    BY <1>2, <1>3, <1>5
  <2>5. left'[h] = tries
    BY <1>2, <1>5
  <2>6. \A f, g \in wrong' : left'[f] = left'[g] => f = g
    BY <2>2, <2>3, <2>4, <2>5 DEF HostInv, WrongCodesCountOnce
  <2>7. {left'[g] : g \in wrong'} = {left[g] : g \in wrong} \cup {tries}
    BY <2>3, <2>4, <2>5
  <2>8. (MaxWrongCodes - wrongCodes) .. (MaxWrongCodes - 1) \cup {tries}
           = (MaxWrongCodes - wrongCodes') .. (MaxWrongCodes - 1)
    BY <1>1, <1>2
  <2> QED BY <2>1, <2>6, <2>7, <2>8 DEF WrongCodesCountOnce
<1>11. JudgedOnce'
  BY <1>1, <1>2, <1>3, <1>5 DEF HostInv, JudgedOnce
<1>12. ClosedByOne'
  BY <1>1, <1>2, <1>3 DEF HostInv, ClosedByOne
<1>13. HostIsFirst'
  BY <1>1, <1>2, <1>3 DEF HostInv, HostIsFirst
<1> QED BY <1>6, <1>8, <1>9, <1>10, <1>11, <1>12, <1>13 DEF HostInv

\* Taking, delivering and giving back the room.
LEMMA TransferStep ==
    ASSUME HostInv, NEW h \in Handshakes,
           Claim(h) \/ SendSucceeds(h) \/ Release(h)
    PROVE  HostInv'
<1> USE DEF HostInv
<1>1. /\ pc \in [Procs -> Labels] /\ h \in Procs /\ h # "host"
      /\ pc[h] \in {"proved", "sending", "releasing"}
  BY ProcsAreDistinct DEF TypeOK, Claim, SendSucceeds, Release
<1>2. \E l \in {"connected", "take", "failed"} : pc' = [pc EXCEPT ![h] = l]
  BY DEF Claim, SendSucceeds, Release, Silently, Goto
<1>3. /\ UNCHANGED <<room, handler, wrongCodes, left, offer, expired, meeting>>
      /\ claimed' \in BOOLEAN /\ event' = "none"
      /\ delivered' \in {delivered, delivered \cup {h}}
  BY DEF Claim, SendSucceeds, Release, Silently, TypeOK
<1>4. TypeOK'
  <2>1. pc' \in [Procs -> Labels]
    BY <1>1, <1>2 DEF Labels
  <2> QED BY <1>3, <2>1 DEF TypeOK, meeting, Events
<1>5. OneTransfer' /\ HolderHasClaimed' /\ DeliveredLeaves'
  <2>1. CASE Claim(h)
    <3>1. \A g \in Handshakes : ~HasRoom(g)
      BY <2>1 DEF HolderHasClaimed, Claim
    <3>2. claimed' /\ delivered' = delivered /\ pc' = [pc EXCEPT ![h] = "connected"]
      BY <2>1 DEF Claim, Silently, Goto
    <3>3. \A g \in Handshakes : HasRoom(g)' => g = h
      BY <1>1, <3>1, <3>2 DEF HasRoom
    <3>4. delivered' = {}
      BY <3>1, <3>2 DEF HasRoom, TypeOK
    <3> QED BY <3>2, <3>3, <3>4 DEF OneTransfer, HolderHasClaimed, DeliveredLeaves
  <2>2. CASE SendSucceeds(h)
    <3>1. HasRoom(h) /\ claimed /\ claimed' = claimed
      BY <2>2 DEF HasRoom, SendSucceeds, HolderHasClaimed
    <3>2. delivered' = delivered \cup {h} /\ pc' = [pc EXCEPT ![h] = "take"]
      BY <2>2 DEF SendSucceeds, Silently, Goto
    <3>3. \A g \in Handshakes : HasRoom(g)' => HasRoom(g)
      BY <1>1, <3>1, <3>2 DEF HasRoom
    <3>4. DeliveredLeaves'
      BY <1>1, <3>2, ProcsAreDistinct DEF DeliveredLeaves, Leaving, TypeOK
    <3> QED BY <3>1, <3>3, <3>4 DEF OneTransfer, HolderHasClaimed
  <2>3. CASE Release(h)
    <3>1. HasRoom(h) /\ h \notin delivered
      BY <2>3 DEF HasRoom, Release, DeliveredLeaves, Leaving
    <3>2. delivered' = delivered /\ pc' = [pc EXCEPT ![h] = "failed"]
      BY <2>3 DEF Release, Silently, Goto
    <3>3. \A g \in Handshakes : ~HasRoom(g)'
      BY <1>1, <3>1, <3>2 DEF HasRoom, OneTransfer
    <3>4. delivered' = {}
      BY <3>3, <3>2 DEF HasRoom, TypeOK
    <3> QED BY <3>3, <3>4 DEF OneTransfer, HolderHasClaimed, DeliveredLeaves
  <2> QED BY <2>1, <2>2, <2>3
<1>6. WrongCodesCountOnce'
  BY <1>3 DEF WrongCodesCountOnce
<1>7. JudgedOnce'
  BY <1>1, <1>2, <1>3, ProcsAreDistinct DEF JudgedOnce
<1>8. ClosedByOne'
  BY <1>1, <1>2, <1>3 DEF ClosedByOne
<1>9. HostIsFirst'
  BY <1>1, <1>2, <1>3 DEF HostIsFirst
<1> QED BY <1>4, <1>5, <1>6, <1>7, <1>8, <1>9

LEMMA ServeStep ==
    ASSUME HostInv, NEW h \in Handshakes, Open(h) \/ Serve(h)
    PROVE  HostInv'
BY QuietServe, JudgeWrongStep, TransferStep DEF Serve


-----------------------------------------------------------------------------
(* Closing and abandoning the room, by any goroutine.                      *)

\* abandonRoom's look at the room, the request to unregister it and the last
\* event only move their goroutine on.
LEMMA QuietClose ==
    ASSUME HostInv, NEW p \in Procs, Abandon(p) \/ UnregisterRoom(p) \/ ReportEnd(p)
    PROVE  HostInv'
<1>1. MeetingTypeOK'
  BY DEF HostInv, TypeOK, MeetingTypeOK, Events, meeting, Silently, Emit,
         Abandon, UnregisterRoom, ReportEnd, ServerDrops
<1>2. UNCHANGED session
  BY DEF Abandon, UnregisterRoom, ReportEnd
<1>3. \A l : MayWalk(p, l) /\ Goto(p, l) => HostInv'
  BY <1>1, <1>2, WalkKeepsInvariant
<1>4. pc["host"] \notin Opening
  BY OnlyHostAtFirst DEF Abandon, UnregisterRoom, ReportEnd, Opening
<1>5. ASSUME p \in delivered PROVE p \in Handshakes /\ pc[p] \in Leaving
  BY <1>5 DEF HostInv, DeliveredLeaves, TypeOK
<1> USE <1>4, <1>5, ProcsAreDistinct
    DEF MayWalk, Labels, InTransfer, Leaving, Closing, Opening, Afterwards, Silently, Emit
<1>6. CASE Abandon(p)
  <2>1. MayWalk(p, "seal") /\ MayWalk(p, Afterwards(p))
    BY <1>6 DEF Abandon
  <2> QED BY <1>3, <1>6, <2>1 DEF Abandon
<1>7. CASE UnregisterRoom(p)
  BY <1>3, <1>7 DEF UnregisterRoom
<1>8. CASE ReportEnd(p)
  <2>1. MayWalk(p, Afterwards(p))
    BY <1>8 DEF ReportEnd
  <2> QED BY <1>3, <1>8, <2>1 DEF ReportEnd
<1> QED BY <1>6, <1>7, <1>8

\* Sealing, taking and unhandling a room: whoever finds it set is the only one
\* to close it.
LEMMA SealingStep ==
    ASSUME HostInv, NEW p \in Procs, Seal(p) \/ TakeRoom(p) \/ RemoveHandler(p)
    PROVE  HostInv'
<1> USE DEF HostInv
<1>1. /\ pc \in [Procs -> Labels] /\ pc[p] \in {"seal", "take", "unhandle"}
      /\ \E l \in {"take", "unhandle", "finish", "unregister"} :
            /\ pc' = [pc EXCEPT ![p] = l]
            /\ l \in Closing => room \/ pc[p] \in Closing
            /\ l # "take" => pc[p] # "seal"
            /\ pc[p] = "take" /\ l \in Closing => ~room'
  BY DEF TypeOK, Seal, TakeRoom, RemoveHandler, Silently, Goto, Closing
<1>2. /\ UNCHANGED <<wrongCodes, left, delivered, offer, expired, meeting>>
      /\ room' \in BOOLEAN /\ claimed' \in BOOLEAN /\ handler' \in BOOLEAN
      /\ room' => room
      /\ claimed => claimed'
      /\ event' = "none"
  <2>1. room \in BOOLEAN /\ claimed \in BOOLEAN /\ handler \in BOOLEAN
    BY DEF TypeOK
  <2>2. CASE Seal(p)
    BY <2>1, <2>2 DEF Seal, Silently
  <2>3. CASE TakeRoom(p)
    BY <2>1, <2>3 DEF TakeRoom, Silently
  <2>4. CASE RemoveHandler(p)
    BY <2>1, <2>4 DEF RemoveHandler, Silently
  <2> QED BY <2>2, <2>3, <2>4
<1>3. TypeOK'
  <2>1. pc' \in [Procs -> Labels]
    BY <1>1 DEF Labels
  <2> QED BY <1>2, <2>1 DEF TypeOK, meeting, Events
<1>4. \A h \in Handshakes : HasRoom(h)' => HasRoom(h)
  BY <1>1, <1>2, ProcsAreDistinct DEF HasRoom
<1>5. OneTransfer' /\ HolderHasClaimed'
  BY <1>2, <1>4 DEF OneTransfer, HolderHasClaimed
<1>6. DeliveredLeaves'
  BY <1>1, <1>2, ProcsAreDistinct DEF DeliveredLeaves, Leaving, TypeOK
<1>7. WrongCodesCountOnce'
  BY <1>2 DEF WrongCodesCountOnce
<1>8. JudgedOnce'
  BY <1>1, <1>2, ProcsAreDistinct DEF JudgedOnce
<1>9. ClosedByOne'
  BY <1>1, <1>2 DEF ClosedByOne, Closing
<1>10. HostIsFirst'
  <2>1. pc["host"] \notin Opening
    BY <1>1, OnlyHostAtFirst DEF Opening
  <2>2. pc'["host"] \notin Opening
    BY <1>1, <2>1, ProcsAreDistinct DEF Opening
  <2> QED BY <2>2 DEF HostIsFirst
<1> QED BY <1>3, <1>5, <1>6, <1>7, <1>8, <1>9, <1>10

LEMMA CloseStep ==
    ASSUME HostInv, NEW p \in Procs, Close(p)
    PROVE  HostInv'
BY QuietClose, SealingStep DEF Close

-----------------------------------------------------------------------------
(* Announcing, by the host or the keeper.                                  *)

LEMMA AnnounceStep ==
    ASSUME HostInv, NEW p \in Announcers, Announce(p)
    PROVE  HostInv'
<1>1. p \in Procs /\ p \notin Handshakes /\ pc[p] \in Opening
  BY ProcsAreDistinct DEF Announcers, Announce, Register, RegisterFails, RegisterInUse,
       Reserve, ReserveFails, UndoRegister, Opening
<1>2. MeetingTypeOK'
  BY DEF HostInv, TypeOK, MeetingTypeOK, Events, meeting, Silently, ServerDrops,
         Announce, Register, RegisterFails, RegisterInUse, Reserve, ReserveFails,
         UndoRegister
<1>3. UNCHANGED session
  BY DEF Announce, Register, RegisterFails, RegisterInUse, Reserve, ReserveFails,
         UndoRegister
<1>4. PICK l \in Opening : Goto(p, l)
  BY DEF Announce, Register, RegisterFails, RegisterInUse, Reserve, ReserveFails,
         UndoRegister, Silently, Opening
<1>5. p \notin delivered
  BY <1>1 DEF HostInv, TypeOK
<1>6. pc["host"] \in Opening => p = "host"
  BY <1>1, OnlyHostAtFirst DEF Opening
<1>7. MayWalk(p, l)
  BY <1>1, <1>5, <1>6 DEF MayWalk, Labels, Opening, InTransfer, Closing
<1> QED BY <1>1, <1>2, <1>3, <1>4, <1>7, WalkKeepsInvariant


-----------------------------------------------------------------------------
(* Host, the watcher and the keeper.                                       *)

\* Setting the room, starting to read and installing the handler.
LEMMA HostSetsUp ==
    ASSUME HostInv, SetRoom \/ StartOffer \/ SetHandler \/ StartKeeper
    PROVE  HostInv'
<1> USE DEF HostInv
<1>1. /\ pc \in [Procs -> Labels]
      /\ pc["host"] \in {"announced", "start_offer", "set_handler", "start_keeper"}
      /\ \A p \in Procs \ {"host"} :
            \/ pc'[p] = pc[p]
            \/ p = "watcher" /\ pc'[p] = "reading"
            \/ p = "keeper" /\ pc'[p] = "waiting"
      /\ pc'["host"] \in {"start_offer", "set_handler", "start_keeper", "done"}
      /\ pc' \in [Procs -> Labels]
  BY ProcsAreDistinct DEF TypeOK, SetRoom, StartOffer, SetHandler, StartKeeper,
       Silently, Goto, Labels
<1>2. /\ UNCHANGED <<claimed, wrongCodes, left, delivered, expired, meeting>>
      /\ event' = "none"
      /\ room' \in BOOLEAN /\ handler' \in BOOLEAN
      /\ offer' \in {"unread", "reading", "ready", "unreadable"}
      /\ room' = room \/ pc["host"] = "announced"
  BY DEF TypeOK, SetRoom, StartOffer, SetHandler, StartKeeper, Silently, session
<1>3. TypeOK'
  BY <1>1, <1>2 DEF TypeOK, meeting, Events
<1>4. \A h \in Handshakes : pc'[h] = pc[h] /\ (HasRoom(h)' <=> HasRoom(h))
  BY <1>1, <1>2, ProcsAreDistinct DEF HasRoom
<1>5. OneTransfer' /\ HolderHasClaimed'
  BY <1>2, <1>4 DEF OneTransfer, HolderHasClaimed
<1>6. DeliveredLeaves' /\ JudgedOnce'
  BY <1>2, <1>4 DEF DeliveredLeaves, JudgedOnce, TypeOK
<1>7. WrongCodesCountOnce'
  BY <1>2 DEF WrongCodesCountOnce
<1>8. ClosedByOne'
  <2>1. \A p \in Procs : pc'[p] \in Closing => pc[p] \in Closing
    BY <1>1 DEF Closing
  <2>2. room' => room \/ \A p \in Procs : pc[p] \notin Closing
    BY <1>1, <1>2 DEF HostIsFirst, Opening, Closing
  <2> QED BY <2>1, <2>2 DEF ClosedByOne, Closing
<1>9. HostIsFirst'
  BY <1>1 DEF HostIsFirst, Opening
<1> QED BY <1>3, <1>5, <1>6, <1>7, <1>8, <1>9

\* The steps of the host, the watcher and the keeper that only move them on.
LEMMA QuietWorker ==
    ASSUME HostInv, HostFails \/ WatchOffer \/ KeeperStep
    PROVE  HostInv'
<1>1. MeetingTypeOK'
  BY DEF HostInv, TypeOK, MeetingTypeOK, Events, meeting, Silently, Emit, HostFails,
       WatchOffer, KeeperStep, WakeUp, LookAtServer, ReportServerLost, RestoreTurn,
       Connect, ConnectFails, BackOff, ReportServerBack, RestoreFailed
<1>2. UNCHANGED session
  BY DEF HostFails, WatchOffer, KeeperStep, WakeUp, LookAtServer, ReportServerLost,
       RestoreTurn, Connect, ConnectFails, BackOff, ReportServerBack, RestoreFailed
<1>3. \A p \in Workers : \A l : MayWalk(p, l) /\ Goto(p, l) => HostInv'
  BY <1>1, <1>2, WalkKeepsInvariant DEF Procs
<1>4. \A p \in Workers : p \notin delivered
  BY ProcsAreDistinct DEF Workers, HostInv, TypeOK
<1> USE ProcsAreDistinct DEF MayWalk, Labels, InTransfer, Closing, Opening
<1>5. CASE HostFails
  <2>1. MayWalk("host", "gave_up") /\ Goto("host", "gave_up")
    BY <1>4, <1>5 DEF HostFails, Silently, Workers
  <2> QED BY <1>3, <2>1 DEF Workers
<1>6. CASE WatchOffer
  <2>1. pc["host"] \notin Opening
    BY <1>6, OnlyHostAtFirst DEF WatchOffer
  <2>2. MayWalk("watcher", "done") /\ MayWalk("watcher", "abandon")
    BY <1>4, <2>1 DEF Workers
  <2>3. Goto("watcher", "done") \/ Goto("watcher", "abandon")
    BY <1>6 DEF WatchOffer, Silently, Emit
  <2> QED BY <1>3, <2>2, <2>3 DEF Workers
<1>7. CASE KeeperStep
  <2> USE DEF KeeperStep, WakeUp, LookAtServer, ReportServerLost, RestoreTurn,
          Connect, ConnectFails, BackOff, ReportServerBack, RestoreFailed
  <2>1. pc["host"] \notin Opening
    BY <1>7, OnlyHostAtFirst
  <2>2. PICK l \in Labels \ (InTransfer \cup Closing \cup {"idle", "auth"}) :
            Goto("keeper", l)
    BY <1>7 DEF Silently, Emit
  <2>3. MayWalk("keeper", l)
    BY <1>4, <2>1, <2>2 DEF Workers
  <2> QED BY <1>3, <2>2, <2>3 DEF Workers
<1> QED BY <1>5, <1>6, <1>7

\* Reading the files, the network, the hour and a rest move no goroutine.
LEMMA StillStep ==
    ASSUME HostInv, ReadOffer \/ Environment \/ Rest
    PROVE  HostInv'
<1> USE DEF Environment, LoseLink, LinkReturns, NoticeLost, ServerForgets, ServerMistakes,
        ServerExpires, OtherSender, HourPasses, Rest, ReadOffer
<1>1. MeetingTypeOK'
  BY DEF HostInv, TypeOK, MeetingTypeOK, Events, meeting
<1>2. CASE Environment \/ Rest
  <2>1. /\ UNCHANGED <<pc, room, claimed, handler, wrongCodes, left, delivered, offer>>
        /\ expired' \in BOOLEAN
    BY <1>2 DEF session, HostInv, TypeOK
  <2> QED BY <1>1, <2>1, StillKeepsInvariant
<1>3. CASE ReadOffer
  <2>1. pc["host"] \notin Opening
    BY <1>3 DEF HostInv, HostIsFirst
  <2>2. TypeOK' /\ HostIsFirst'
    BY <1>1, <1>3, <2>1 DEF HostInv, TypeOK, MeetingTypeOK, HostIsFirst
  <2>3. \A h \in Handshakes : HasRoom(h)' <=> HasRoom(h)
    BY <1>3 DEF HasRoom
  <2> QED BY <1>3, <2>2, <2>3 DEF HostInv, OneTransfer, HolderHasClaimed,
         DeliveredLeaves, WrongCodesCountOnce, JudgedOnce, ClosedByOne
<1> QED BY <1>2, <1>3

-----------------------------------------------------------------------------
(* The theorems.                                                           *)

LEMMA NextHolds == HostInv /\ [Next]_vars => HostInv'
<1> SUFFICES ASSUME HostInv, [Next]_vars PROVE HostInv'
  OBVIOUS
<1>1. CASE UNCHANGED vars
  <2>1. MeetingTypeOK'
    BY <1>1 DEF vars, meeting, HostInv, TypeOK, MeetingTypeOK
  <2> QED BY <1>1, <2>1, StillKeepsInvariant DEF vars, session, HostInv, TypeOK
<1>2. CASE \E h \in Handshakes : Open(h) \/ Serve(h)
  BY <1>2, ServeStep
<1>3. CASE \E p \in Procs : Close(p)
  BY <1>3, CloseStep
<1>4. CASE \E p \in Announcers : Announce(p)
  BY <1>4, AnnounceStep
<1>5. CASE HostStep
  BY <1>5, HostSetsUp, QuietWorker DEF HostStep
<1>6. CASE WatchOffer \/ KeeperStep
  BY <1>6, QuietWorker
<1>7. CASE ReadOffer \/ Environment \/ Rest
  BY <1>7, StillStep
<1> QED BY <1>1, <1>2, <1>3, <1>4, <1>5, <1>6, <1>7 DEF Next

LEMMA HostInvHolds == Spec => []HostInv
BY InitHolds, NextHolds, PTL DEF Spec

\* A hosting session is sound: its variables keep their types, one handshake at
\* most has the room and none after a delivery (serve's compare-and-swap on
\* claimed and who clears it), every wrong code is counted once (serve's guess
\* lock), and one caller closes the room (takeRoom).
THEOREM SessionIsSound ==
    Spec => [](TypeOK /\ OneTransfer /\ WrongCodesCountOnce /\ ClosedByOne)
<1>1. HostInv => TypeOK /\ OneTransfer /\ WrongCodesCountOnce /\ ClosedByOne
  BY DEF HostInv
<1> QED BY <1>1, HostInvHolds, PTL

\* The steps of serve take, give back and use up the room as SingleUse allows.
LEMMA StepsUseOnce == HostInv /\ HostInv' /\ [Next]_vars => [Code!Next]_(Code!vars)
<1> SUFFICES ASSUME HostInv, HostInv', [Next]_vars PROVE [Code!Next]_(Code!vars)
  OBVIOUS
<1> DEFINE holder == {h \in Handshakes : HasRoom(h)}
<1>1. pc \in [Procs -> Labels] /\ Handshakes \subseteq Procs /\ delivered \subseteq Handshakes
  BY ProcsAreDistinct DEF HostInv, TypeOK
<1>2. ASSUME NEW h \in Handshakes, Claim(h) PROVE Code!Take(h)
  <2>1. holder = {}
    BY <1>2 DEF HostInv, HolderHasClaimed, Claim
  <2>2. /\ pc' = [pc EXCEPT ![h] = "connected"] /\ delivered' = delivered
        /\ claimed' = TRUE
    BY <1>2 DEF Claim, Silently, Goto
  <2>3. holder' = {h}
    BY <1>1, <2>1, <2>2 DEF HasRoom
  <2> QED BY <2>1, <2>2, <2>3 DEF Code!Take
<1>3. ASSUME NEW h \in Handshakes, SendSucceeds(h) PROVE Code!Deliver
  <2>1. HasRoom(h) /\ h \notin delivered
    BY <1>3 DEF HasRoom, SendSucceeds, HostInv, DeliveredLeaves, Leaving
  <2>2. holder = {h} /\ delivered = {}
    BY <1>1, <2>1 DEF HostInv, OneTransfer, HasRoom
  <2>3. pc' = [pc EXCEPT ![h] = "take"] /\ delivered' = {h}
    BY <1>3, <2>2 DEF SendSucceeds, Silently, Goto
  <2>4. holder' = {h}
    BY <1>1, <2>2, <2>3 DEF HasRoom
  <2> QED BY <2>2, <2>3, <2>4 DEF Code!Deliver
<1>4. ASSUME NEW h \in Handshakes, Release(h) \/ SourceFails(h) PROVE Code!GiveBack
  <2>1. HasRoom(h) /\ h \notin delivered
    BY <1>4 DEF HasRoom, Release, SourceFails, HostInv, DeliveredLeaves, Leaving
  <2>2. holder = {h} /\ delivered = {}
    BY <1>1, <2>1 DEF HostInv, OneTransfer, HasRoom
  <2>3. /\ pc' = [pc EXCEPT ![h] = "failed"] \/ pc' = [pc EXCEPT ![h] = "abandon"]
        /\ delivered' = delivered
    BY <1>4 DEF Release, SourceFails, Silently, Goto, session
  <2>4. holder' = {}
    BY <1>1, <2>2, <2>3 DEF HasRoom
  <2> QED BY <2>2, <2>3, <2>4 DEF Code!GiveBack
<1>5. ASSUME UNCHANGED delivered, \A h \in Handshakes : HasRoom(h)' <=> HasRoom(h)
      PROVE  UNCHANGED Code!vars
  BY <1>5 DEF Code!vars
<1>6. ASSUME NEW h \in Handshakes,
             UNCHANGED delivered,
             \E l : Goto(h, l) /\ (l \in InTransfer <=> pc[h] \in InTransfer)
      PROVE  UNCHANGED Code!vars
  BY <1>1, <1>5, <1>6 DEF HasRoom, Goto, InTransfer
<1>7. ASSUME UNCHANGED delivered,
             \A h \in Handshakes : pc'[h] = pc[h]
      PROVE  UNCHANGED Code!vars
  BY <1>5, <1>7 DEF HasRoom
<1>8. ASSUME NEW h \in Handshakes, Open(h) \/ Serve(h)
      PROVE  [Code!Next]_(Code!vars)
  <2>1. CASE Claim(h) \/ SendSucceeds(h) \/ Release(h) \/ SourceFails(h)
    BY <1>2, <1>3, <1>4, <2>1 DEF Code!Next
  <2>2. CASE Open(h) \/ DropHandshake(h) \/ JudgeRight(h) \/ JudgeWrong(h)
             \/ JudgeClosing(h) \/ Reject(h) \/ ClaimBusy(h)
    BY <1>6, <2>2 DEF Open, DropHandshake, JudgeRight, JudgeWrong, JudgeClosing,
         Reject, ClaimBusy, Silently, Emit, session, InTransfer
  <2>3. CASE ReportConnected(h) \/ SendFails(h) \/ ReportFailed(h)
    BY <1>6, <2>3 DEF ReportConnected, SendFails, ReportFailed, Silently, Emit,
         session, InTransfer
  <2> QED BY <1>8, <2>1, <2>2, <2>3 DEF Serve
<1>9. CASE \E p \in Procs : Close(p)
  <2>1. PICK p \in Procs : Close(p)
    BY <1>9
  <2>2. UNCHANGED delivered
    BY <2>1 DEF Close, Abandon, Seal, TakeRoom, RemoveHandler, UnregisterRoom,
         ReportEnd, session
  <2>3. \E l : Goto(p, l) /\ l \notin InTransfer /\ pc[p] \notin InTransfer
    BY <2>1 DEF Close, Abandon, Seal, TakeRoom, RemoveHandler, UnregisterRoom,
         ReportEnd, Silently, Emit, Afterwards, InTransfer
  <2>4. CASE p \in Handshakes
    BY <1>6, <2>2, <2>3, <2>4
  <2>5. CASE p \notin Handshakes
    BY <1>1, <1>7, <2>2, <2>3, <2>5 DEF Goto
  <2> QED BY <2>4, <2>5
<1>10. CASE \E p \in Announcers : Announce(p)
  <2>1. UNCHANGED delivered /\ \A h \in Handshakes : pc'[h] = pc[h]
    BY <1>1, <1>10, ProcsAreDistinct DEF Announcers, Announce, Register,
         RegisterFails, RegisterInUse, Reserve, ReserveFails, UndoRegister,
         Silently, Goto, session
  <2> QED BY <1>7, <2>1
<1>11. CASE HostStep \/ WatchOffer \/ KeeperStep
  <2>1. UNCHANGED delivered
    BY <1>11 DEF HostStep, HostFails, SetRoom, StartOffer, SetHandler, StartKeeper,
         WatchOffer, KeeperStep, WakeUp, LookAtServer, ReportServerLost, RestoreTurn,
         Connect, ConnectFails, BackOff, ReportServerBack, RestoreFailed, session
  <2>2. \A h \in Handshakes : pc'[h] = pc[h]
    BY <1>1, <1>11, ProcsAreDistinct
       DEF HostStep, HostFails, SetRoom, StartOffer, SetHandler, StartKeeper,
         WatchOffer, KeeperStep, WakeUp, LookAtServer, ReportServerLost, RestoreTurn,
         Connect, ConnectFails, BackOff, ReportServerBack, RestoreFailed,
         Silently, Emit, Goto
  <2> QED BY <1>7, <2>1, <2>2
<1>12. CASE ReadOffer \/ Environment \/ Rest \/ UNCHANGED vars
  <2>1. UNCHANGED <<pc, delivered>>
    BY <1>12 DEF ReadOffer, Environment, LoseLink, LinkReturns, NoticeLost,
         ServerForgets, ServerMistakes, ServerExpires, OtherSender, HourPasses, Rest, vars, session
  <2> QED BY <1>7, <2>1
<1> QED BY <1>8, <1>9, <1>10, <1>11, <1>12 DEF Next

LEMMA InitUsesOnce == Init => Code!Init
BY ProcsAreDistinct DEF Init, Code!Init, HasRoom

\* A hosting session implements a room whose code works once: what serve does
\* with claimed, and closing the room after a delivery, amounts to SingleUse.
THEOREM CodeWorksOnce == Spec => UsedOnce
<1>1. HostInv /\ HostInv' /\ [Next]_vars => [Code!Next]_(Code!vars)
  BY StepsUseOnce
<1> QED BY <1>1, InitUsesOnce, HostInvHolds, PTL DEF Spec, UsedOnce, Code!Spec

-----------------------------------------------------------------------------
(* Keeping the room.  The keeper's wait is sound because the link is up, or  *)
(* the signal that it went is on its way: as a notice, or in the lost        *)
(* channel.  A link that is up has the room and its slot behind it, unless   *)
(* something happened on it that the node is not told of.                    *)

\* What the meeting point has for this sender, if it is connected to it.
HeldThere == link => unseen \/ (server = "ours" /\ slot)

\* A loss has been noticed, or will be.
LossIsSignalled == ~link => notice \/ lost

\* The keeper is started by the host's last step.
KeeperIsLast == pc["host"] \notin {"done", "gave_up"} => pc["keeper"] = "idle"

\* The hour starts with the session.
HourIsLater == expired => pc["host"] = "done"

\* From the announcement on, and again from each time restore has put the room
\* back.  A woken keeper has taken the signal and is about to look at the link.
KeptInv ==
    /\ KeeperIsLast /\ HourIsLater
    /\ pc["host"] = "announced" => HeldThere /\ LossIsSignalled
    /\ room /\ ~expired =>
          /\ pc["keeper"] \in {"idle", "waiting", "announced", "woken"} => HeldThere
          /\ pc["keeper"] \in {"idle", "waiting", "announced"} => LossIsSignalled

\* A step that moves neither the host nor the keeper and does not touch the
\* meeting point keeps all that.
LEMMA ElsewhereKeepsRoom ==
    ASSUME KeptInv, UNCHANGED <<meeting, expired>>, room' => room,
           pc'["host"] = pc["host"], pc'["keeper"] = pc["keeper"]
    PROVE  KeptInv'
BY DEF KeptInv, KeeperIsLast, HourIsLater, HeldThere, LossIsSignalled, meeting

\* Handshakes leave the room to the keeper.
LEMMA ServeKeepsRoom ==
    ASSUME HostInv, KeptInv, NEW h \in Handshakes, Open(h) \/ Serve(h)
    PROVE  KeptInv'
<1>1. /\ UNCHANGED <<meeting, expired, room>>
      /\ \E l : pc' = [pc EXCEPT ![h] = l]
  BY DEF Open, Serve, DropHandshake, JudgeRight, JudgeWrong, JudgeClosing, Reject, Claim,
         ClaimBusy, ReportConnected, SendSucceeds, SourceFails, SendFails, Release,
         ReportFailed, Silently, Emit, Goto, session
<1>2. pc'["host"] = pc["host"] /\ pc'["keeper"] = pc["keeper"]
  BY <1>1, ProcsAreDistinct DEF HostInv, TypeOK
<1> QED BY <1>1, <1>2, ElsewhereKeepsRoom

\* Whoever closes the room has no room to keep: it takes it before it asks the
\* meeting point to drop it.
LEMMA CloseKeepsRoom ==
    ASSUME HostInv, KeptInv, NEW p \in Procs, Close(p)
    PROVE  KeptInv'
<1> USE DEF Close, Abandon, Seal, TakeRoom, RemoveHandler, UnregisterRoom, ReportEnd,
        Silently, Emit, Goto, session
<1>1. pc \in [Procs -> Labels] /\ room \in BOOLEAN
  BY DEF HostInv, TypeOK
<1>2. /\ pc[p] \in {"abandon", "seal", "take", "unhandle", "unregister", "finish"}
      /\ \E l \in {"seal", "take", "unhandle", "unregister", "finish", "done", "gave_up"} :
            pc' = [pc EXCEPT ![p] = l]
      /\ expired' = expired
      /\ room' => room
  BY <1>1 DEF Afterwards
<1>3. pc["host"] # "announced" /\ pc'["host"] # "announced"
  BY <1>1, <1>2, OnlyHostAtFirst, ProcsAreDistinct DEF Opening
<1>4. /\ pc["host"] = "done" => pc'["host"] = "done"
      /\ pc'["host"] \notin {"done", "gave_up"} => pc["host"] \notin {"done", "gave_up"}
      /\ \/ pc'["keeper"] = pc["keeper"]
         \/ /\ pc["keeper"] # "idle"
            /\ pc'["keeper"] \notin {"idle", "waiting", "announced", "woken"}
  <2>1. CASE p = "host"
    BY <1>1, <1>2, <2>1, ProcsAreDistinct
  <2>2. CASE p = "keeper"
    BY <1>1, <1>2, <2>2, ProcsAreDistinct
  <2>3. CASE p \notin {"host", "keeper"}
    BY <1>1, <1>2, <2>3, ProcsAreDistinct
  <2> QED BY <2>1, <2>2, <2>3
<1>5. KeeperIsLast' /\ HourIsLater'
  BY <1>2, <1>4 DEF KeptInv, KeeperIsLast, HourIsLater
<1>6. CASE pc[p] = "unregister"
  <2>1. ~room'
    BY <1>2, <1>6 DEF HostInv, ClosedByOne
  <2> QED BY <1>3, <1>5, <2>1 DEF KeptInv
<1>7. CASE pc[p] # "unregister"
  <2>1. UNCHANGED meeting
    BY <1>7
  <2> QED BY <1>2, <1>3, <1>4, <1>5, <2>1 DEF KeptInv, HeldThere, LossIsSignalled, meeting
<1> QED BY <1>6, <1>7

\* The announcement that succeeds leaves the link up and the room behind it.
LEMMA AnnounceKeepsRoom ==
    ASSUME HostInv, KeptInv, NEW p \in Announcers, Announce(p)
    PROVE  KeptInv'
<1>1. /\ pc \in [Procs -> Labels] /\ p \in Procs /\ p \in {"host", "keeper"}
      /\ pc[p] \in {"register", "reserve", "undo"}
  BY ProcsAreDistinct DEF HostInv, TypeOK, Announcers, Announce, Register, RegisterFails,
       RegisterInUse, Reserve, ReserveFails, UndoRegister
<1>2. /\ UNCHANGED session
      /\ \/ /\ pc' = [pc EXCEPT ![p] = "announced"]
            /\ link' /\ server' = "ours" /\ slot'
         \/ \E l \in {"reserve", "undo", "unannounced", "in_use"} : pc' = [pc EXCEPT ![p] = l]
  BY DEF Announce, Register, RegisterFails, RegisterInUse, Reserve, ReserveFails,
         UndoRegister, Silently, Goto
<1>3. CASE p = "host"
  <2>1. ~room /\ pc["keeper"] = "idle" /\ ~expired
    BY <1>1, <1>3, ProcsAreDistinct DEF HostInv, HostIsFirst, Opening, KeptInv, HourIsLater
  <2>2. ~room' /\ ~expired' /\ pc'["keeper"] = "idle"
    BY <1>1, <1>2, <1>3, <2>1, ProcsAreDistinct DEF session
  <2> QED BY <1>1, <1>2, <1>3, <2>2
          DEF KeptInv, KeeperIsLast, HourIsLater, HeldThere, LossIsSignalled
<1>4. CASE p = "keeper"
  <2>1. pc["host"] \notin Opening
    BY <1>1, <1>4, OnlyHostAtFirst, ProcsAreDistinct
  <2>2. pc'["host"] = pc["host"] /\ pc["host"] # "announced"
    BY <1>1, <1>2, <1>4, <2>1, ProcsAreDistinct DEF Opening
  <2>3. /\ pc["keeper"] # "idle"
        /\ pc'["keeper"] \notin {"idle", "waiting", "woken"}
        /\ pc'["keeper"] = "announced" => link' /\ server' = "ours" /\ slot'
    BY <1>1, <1>2, <1>4
  <2> QED BY <1>2, <2>2, <2>3
          DEF session, KeptInv, KeeperIsLast, HourIsLater, HeldThere, LossIsSignalled
<1> QED BY <1>1, <1>3, <1>4

\* The room is set by a host that has just announced it.
LEMMA HostKeepsRoom ==
    ASSUME HostInv, KeptInv, HostStep
    PROVE  KeptInv'
<1> USE DEF HostStep, HostFails, SetRoom, StartOffer, SetHandler, StartKeeper, Silently, Goto,
        session
<1>1. /\ pc \in [Procs -> Labels]
      /\ pc["host"] \in {"unannounced", "announced", "start_offer", "set_handler", "start_keeper"}
      /\ pc["keeper"] = "idle" /\ ~expired
      /\ pc["host"] = "unannounced" => ~room
  BY DEF HostInv, TypeOK, HostIsFirst, Opening, KeptInv, KeeperIsLast, HourIsLater
<1>2. /\ UNCHANGED <<meeting, expired>>
      /\ pc["host"] = "announced" \/ room' = room
      /\ pc["host"] = "unannounced" => room' = room
  BY <1>1
<1>3. /\ pc'["host"] \notin Opening
      /\ \/ pc'["keeper"] = "idle"
         \/ pc'["keeper"] = "waiting" /\ pc'["host"] = "done"
  BY <1>1, ProcsAreDistinct DEF Opening
<1>4. KeeperIsLast' /\ HourIsLater'
  BY <1>1, <1>2, <1>3 DEF KeeperIsLast, HourIsLater
<1>5. room' => HeldThere /\ LossIsSignalled
  BY <1>1, <1>2 DEF KeptInv
<1> QED BY <1>2, <1>3, <1>4, <1>5 DEF KeptInv, HeldThere, LossIsSignalled, Opening, meeting

\* The keeper waits again when it finds the link up, or the room gone.
LEMMA KeeperKeepsRoom ==
    ASSUME HostInv, KeptInv, KeeperStep
    PROVE  KeptInv'
<1> USE DEF KeeperStep, WakeUp, LookAtServer, ReportServerLost, RestoreTurn,
        Connect, ConnectFails, BackOff, ReportServerBack, RestoreFailed, Silently, Emit, Goto
<1>1. pc \in [Procs -> Labels] /\ room \in BOOLEAN /\ link \in BOOLEAN
  BY DEF HostInv, TypeOK
<1>2. pc["keeper"] # "idle" /\ UNCHANGED session
  OBVIOUS
<1>3. pc'["host"] = pc["host"] /\ pc["host"] \notin Opening
  BY <1>1, <1>2, OnlyHostAtFirst, ProcsAreDistinct
<1>4. KeeperIsLast' /\ HourIsLater'
  BY <1>2, <1>3 DEF KeptInv, KeeperIsLast, HourIsLater, session
<1>5. room /\ ~expired /\ pc'["keeper"] \in {"idle", "waiting", "announced", "woken"}
         => HeldThere'
  <2> SUFFICES ASSUME room, ~expired,
                      pc'["keeper"] \in {"idle", "waiting", "announced", "woken"}
               PROVE  HeldThere'
    OBVIOUS
  <2>1. pc["keeper"] \in {"waiting", "woken", "announced"} /\ UNCHANGED <<link, server, slot, unseen>>
    BY <1>1, ProcsAreDistinct DEF meeting
  <2> QED BY <2>1 DEF KeptInv, HeldThere
<1>6. room /\ ~expired /\ pc'["keeper"] \in {"idle", "waiting", "announced"}
         => LossIsSignalled'
  <2> SUFFICES ASSUME room, ~expired,
                      pc'["keeper"] \in {"idle", "waiting", "announced"}
               PROVE  LossIsSignalled'
    OBVIOUS
  <2>1. /\ pc["keeper"] \in {"woken", "announced"} /\ UNCHANGED meeting
        /\ pc["keeper"] = "woken" => link
    BY <1>1, ProcsAreDistinct
  <2> QED BY <2>1 DEF KeptInv, LossIsSignalled, meeting
<1> QED BY <1>2, <1>3, <1>4, <1>5, <1>6 DEF KeptInv, Opening, session

\* A link that goes leaves a notice, and the meeting point gives a room away while
\* the link is down, when the hour is over, or unseen.
LEMMA EnvironmentKeepsRoom ==
    ASSUME HostInv, KeptInv, Environment
    PROVE  KeptInv'
<1> USE DEF Environment, LoseLink, LinkReturns, NoticeLost, ServerForgets, ServerMistakes,
        ServerExpires, OtherSender, HourPasses
<1>1. UNCHANGED <<pc, room>> /\ (expired => expired') /\ link \in BOOLEAN
  BY DEF HostInv, TypeOK, session
<1>2. KeeperIsLast' /\ HourIsLater'
  BY <1>1 DEF KeptInv, KeeperIsLast, HourIsLater, session
<1>3. ~expired' /\ HeldThere => HeldThere'
  BY <1>1 DEF HeldThere, meeting, session
<1>4. HeldThere /\ pc["host"] = "announced" => HeldThere'
  BY <1>1, <1>3 DEF HeldThere, KeptInv, HourIsLater, meeting, session
<1>5. LossIsSignalled => LossIsSignalled'
  BY <1>1 DEF LossIsSignalled, meeting
<1> QED BY <1>1, <1>2, <1>3, <1>4, <1>5 DEF KeptInv

LEMMA NextKeepsRoom == HostInv /\ KeptInv /\ [Next]_vars => KeptInv'
<1> SUFFICES ASSUME HostInv, KeptInv, [Next]_vars PROVE KeptInv'
  OBVIOUS
<1>1. CASE \E h \in Handshakes : Open(h) \/ Serve(h)
  BY <1>1, ServeKeepsRoom
<1>2. CASE \E p \in Procs : Close(p)
  BY <1>2, CloseKeepsRoom
<1>3. CASE \E p \in Announcers : Announce(p)
  BY <1>3, AnnounceKeepsRoom
<1>4. CASE HostStep
  BY <1>4, HostKeepsRoom
<1>5. CASE KeeperStep
  BY <1>5, KeeperKeepsRoom
<1>6. CASE Environment
  BY <1>6, EnvironmentKeepsRoom
<1>7. CASE ReadOffer \/ Rest \/ UNCHANGED vars
  <2>1. UNCHANGED <<pc, room, expired, meeting>>
    BY <1>7 DEF ReadOffer, Rest, vars, session
  <2> QED BY <2>1, ElsewhereKeepsRoom
<1>8. CASE WatchOffer
  <2>1. /\ UNCHANGED <<meeting, expired, room>>
        /\ \E l : pc' = [pc EXCEPT !["watcher"] = l]
    BY <1>8 DEF WatchOffer, Silently, Emit, Goto, session
  <2>2. pc'["host"] = pc["host"] /\ pc'["keeper"] = pc["keeper"]
    BY <2>1, ProcsAreDistinct DEF HostInv, TypeOK
  <2> QED BY <2>1, <2>2, ElsewhereKeepsRoom
<1> QED BY <1>1, <1>2, <1>3, <1>4, <1>5, <1>6, <1>7, <1>8 DEF Next

\* keepRoom puts the room back, as far as the node can know: within its hour, a
\* sender whose keeper rests and has no loss to hear of is connected, however often
\* the connection went and came back, whoever took the nameplate meanwhile and
\* whatever the handshakes did; and it is registered and has its relay slot, unless
\* this connection came up by itself or the server dropped the room over it (keepRoom,
\* restore, announce and the DisconnectedF of New).
THEOREM RoomStaysKept == Spec => []RoomIsKept
<1>1. Init => KeptInv
  BY ProcsAreDistinct DEF Init, KeptInv, KeeperIsLast, HourIsLater
<1>2. KeptInv => RoomIsKept
  BY DEF KeptInv, RoomIsKept, HeldThere, LossIsSignalled
<1> QED BY <1>1, <1>2, NextKeepsRoom, HostInvHolds, PTL DEF Spec

=============================================================================
