------------------------------ MODULE Hosting ------------------------------
(***************************************************************************)
(* What a hosting session tells its consumer, and when: the goroutines of  *)
(* Host, serve, watchOffer, keepRoom and abandonRoom of                    *)
(* src/internal/p2p/node.go, down to the events they emit.                 *)
(*                                                                         *)
(* Host is the detailed model of the session itself (who gets the room,    *)
(* how it is put back); here every event waits for its place in the        *)
(* channel, and what lies between two events is one step.                  *)
(***************************************************************************)
EXTENDS Node

\* What may go wrong while a room is open: "files", that reading them fails;
\* "server", that the meeting point goes away; "codes", that wrong ones are tried.
\* Routes: whether the connection of a receiver may be direct at first, or relayed.
CONSTANTS Troubles, Routes

ASSUME HostingAssumption == Routes \subseteq BOOLEAN

VARIABLES
    room,           \* node -> "none", "open" or "closed"
    claimed,        \* node -> whether a receiver has the room
    delivered       \* node -> whether the files were

hostingVars == <<room, claimed, delivered>>

HostingInit ==
    /\ room = [n \in Nodes |-> "none"]
    /\ claimed = [n \in Nodes |-> FALSE]
    /\ delivered = [n \in Nodes |-> FALSE]

SameRoom == UNCHANGED hostingVars

SameNode == UNCHANGED <<life, direct, upgrade, interrupted, outcome>>

CloseRoom(n) == room' = [room EXCEPT ![n] = "closed"]

\* Host: the room is announced and everything that serves it starts, before the
\* caller hears of it; or there is no room.
Host(n) ==
    /\ at[n]["Host"] = "announcing"
    /\ \/ /\ room' = [room EXCEPT ![n] = "open"]
          /\ at' = [at EXCEPT ![n]["Host"] = "hosted", ![n]["watchOffer"] = "reading",
                              ![n]["keepRoom"] = "keeping"]
       \/ /\ Goto(n, "Host", "refused")
          /\ UNCHANGED room
    /\ UNCHANGED <<events, claimed, delivered>> /\ SameNode

\* The read in the background reports each file as it starts on it.
ReadFiles(n) ==
    /\ Tells(n, "watchOffer", "reading", "preparing", "reading")
    /\ SameRoom /\ SameNode

\* watchOffer waits for its end.
WatchOffer(n) ==
    /\ \/ Moves(n, "watchOffer", "reading", "ready")
       \/ Tells(n, "watchOffer", "ready", "notice", "off")
       \/ /\ "files" \in Troubles /\ life[n] = "open"
          /\ Moves(n, "watchOffer", "reading", "abandon")
       \/ life[n] = "closed" /\ Moves(n, "watchOffer", "reading", "off")
    /\ SameRoom /\ SameNode

\* keepRoom loses the meeting point while there is a room, and gets it back or gives
\* the room up; it stops with the node, and when it loses it with no room.
KeepRoom(n) ==
    /\ \/ /\ "server" \in Troubles
          /\ Moves(n, "keepRoom", "keeping", IF room[n] = "open" THEN "lost" ELSE "off")
       \/ Tells(n, "keepRoom", "lost", "notice", "restoring")
       \/ Moves(n, "keepRoom", "restoring", IF room[n] = "open" THEN "back" ELSE "keeping")
       \/ Tells(n, "keepRoom", "back", "notice", "keeping")
       \/ /\ life[n] = "open" /\ room[n] = "open"
          /\ Moves(n, "keepRoom", "restoring", "abandon")
       \/ /\ life[n] = "closed"
          /\ \E g \in {"keeping", "restoring"} : Moves(n, "keepRoom", g, "off")
    /\ SameRoom /\ SameNode

\* Mutation: abandonRoom closes the room and does not say why.
AbandonSilently(n, g) ==
    /\ SameNode /\ UNCHANGED delivered
    /\ \/ /\ Moves(n, g, "abandon", IF room[n] = "open" THEN "abandoning" ELSE "off")
          /\ claimed' = [claimed EXCEPT ![n] = @ \/ room[n] = "open"]
          /\ UNCHANGED room
       \/ Moves(n, g, "abandoning", "off") /\ CloseRoom(n) /\ UNCHANGED claimed

\* abandonRoom: two goroutines may both find the room open.
Abandon(n, g) ==
    /\ SameNode /\ UNCHANGED delivered
    /\ \/ /\ Moves(n, g, "abandon", IF room[n] = "open" THEN "abandoning" ELSE "off")
          /\ claimed' = [claimed EXCEPT ![n] = @ \/ room[n] = "open"]
          /\ UNCHANGED room
       \/ Moves(n, g, "abandoning", "abandoned") /\ CloseRoom(n) /\ UNCHANGED claimed
       \/ Tells(n, g, "abandoned", "roomLost", "off") /\ UNCHANGED <<room, claimed>>

\* A receiver's stream, which only an open room takes.
Serve(n, s) ==
    /\ life[n] = "open" /\ room[n] = "open"
    /\ upgrade[n][s] = "off"
    /\ Moves(n, s, "off", "shaking")
    /\ SameRoom /\ SameNode

\* serve, for a handshake that fails: one that breaks off is not mentioned, a wrong
\* code is, and the last one ends the room.
Reject(n, s) ==
    /\ \/ Moves(n, s, "shaking", "off")
       \/ /\ "codes" \in Troubles
          /\ Tells(n, s, "shaking", "notice", "off") \/ Moves(n, s, "shaking", "abandon")
    /\ SameRoom /\ SameNode

\* serve, for one that proves the code: it claims the room and says how the two
\* are connected.  Nobody knows the code before Host's caller has it and shows it.
Claim(n, s) ==
    /\ ~claimed[n] /\ at[n]["Host"] = "returned"
    /\ \E isDirect \in Routes :
          /\ Moves(n, s, "shaking", IF isDirect THEN "claimedDirect" ELSE "claimedRelayed")
          /\ direct' = [direct EXCEPT ![n] = isDirect]
    /\ claimed' = [claimed EXCEPT ![n] = TRUE]
    /\ UNCHANGED <<room, delivered, life, upgrade, interrupted, outcome>>

Greet(n, s) ==
    /\ \/ Tells(n, s, "claimedDirect", "direct", "sending")
       \/ Tells(n, s, "claimedRelayed", "relayed", "sending")
    /\ WatchUnlessDirect(n, s, at[n][s] = "claimedDirect")
    /\ SameRoom /\ UNCHANGED <<life, direct, interrupted, outcome>>

SendProgress(n, s) ==
    /\ at[n][s] = "sending"
    /\ EmitProgress(n)
    /\ SameRoom /\ SameNode /\ UNCHANGED at

\* The transfer ends: the room is retired, abandoned or free again, and all but
\* the second say so.  Nothing is delivered before all of it has been read.
SendEnds(n, s) ==
    /\ SameNode
    /\ \/ /\ Moves(n, s, "sending", "delivered")
          /\ at[n]["watchOffer"] \in {"ready", "off"}
          /\ delivered' = [delivered EXCEPT ![n] = TRUE]
          /\ UNCHANGED <<room, claimed>>
       \/ /\ Moves(n, s, "delivered", "saved")
          /\ CloseRoom(n) /\ UNCHANGED <<claimed, delivered>>
       \/ Tells(n, s, "saved", "saved", "off") /\ SameRoom
       \/ Moves(n, s, "sending", "abandon") /\ SameRoom
       \/ /\ Moves(n, s, "sending", "failed")
          /\ claimed' = [claimed EXCEPT ![n] = FALSE]
          /\ UNCHANGED <<room, delivered>>
       \/ Tells(n, s, "failed", "failed", "off") /\ SameRoom

Enders == {"watchOffer", "keepRoom"} \cup Serves

HostingStep(n) ==
    \/ Host(n) \/ ReadFiles(n) \/ WatchOffer(n) \/ KeepRoom(n)
    \/ \E g \in Enders : Abandon(n, g)
    \/ \E s \in Serves : \/ Serve(n, s) \/ Reject(n, s) \/ Claim(n, s) \/ Greet(n, s)
                         \/ SendProgress(n, s) \/ SendEnds(n, s)

=============================================================================
