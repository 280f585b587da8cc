---------------------------- MODULE MCRendezvous ----------------------------
(* Small instances of Rendezvous for TLC.                                  *)
EXTENDS Rendezvous, TLC

\* With a sparsity of 2 one room fits the first range and none the second, so
\* freeNameplate goes through both and falls back to any free number.
MCRanges == <<[lo |-> 1, hi |-> 2], [lo |-> 3, hi |-> 3]>>

\* For one nameplate.
MCRange == <<[lo |-> 1, hi |-> 1]>>

PeerSymmetry == Permutations(Peers)

\* A reply labels the step that gave it and no action reads it, so states that
\* differ in it alone are one state to explore.
StateWithoutReply == <<now, registry, conn, inbox>>
=============================================================================
