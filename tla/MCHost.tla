------------------------------- MODULE MCHost -------------------------------
(* Small instances of Host for TLC.                                        *)
EXTENDS Host, TLC

HandshakeSymmetry == Permutations(Handshakes)

\* An event labels the step that emitted it and no action reads it.
StateWithoutEvent == <<pc, session, meeting>>
=============================================================================
