----------------------------- MODULE SingleUse -----------------------------
(***************************************************************************)
(* What a room promises to the two people who share its code: one transfer *)
(* at a time, a failed one gives the room back, and one delivery uses the  *)
(* code up ("a code works once").  Host implements it.                     *)
(***************************************************************************)
CONSTANT Receivers

VARIABLES
    holder,      \* the receivers that have the room: none or one
    used         \* whether the files were delivered

vars == <<holder, used>>

Take(r) ==
    /\ holder = {}
    /\ holder' = {r}
    /\ UNCHANGED used

GiveBack ==
    /\ ~used
    /\ holder' = {}
    /\ UNCHANGED used

\* Whoever has the room keeps it: nobody takes it after a delivery.
Deliver ==
    /\ ~used
    /\ holder # {}
    /\ used' = TRUE
    /\ UNCHANGED holder

Init == holder = {} /\ ~used

Next == (\E r \in Receivers : Take(r)) \/ GiveBack \/ Deliver

Spec == Init /\ [][Next]_vars
=============================================================================
