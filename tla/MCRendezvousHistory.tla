------------------------ MODULE MCRendezvousHistory ------------------------
(* Small instances of RendezvousHistory for TLC.                           *)
EXTENDS RendezvousHistory, TLC

MCRange == <<[lo |-> 1, hi |-> 1]>>

PeerSymmetry == Permutations(Peers)

\* A reply labels the step that gave it; see MCRendezvous.
StateWithoutReply == <<now, registry, conn, inbox, answered>>
=============================================================================
