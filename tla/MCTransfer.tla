----------------------------- MODULE MCTransfer -----------------------------
(* Small instances of Transfer for TLC.                                    *)
EXTENDS Transfer

\* Two that begin differently.
MCTwo == {<<1>>, <<2, 1>>}

\* Some that are the beginning of another, and one that is of none.
MCContents == {<<>>, <<1>>, <<2>>, <<1, 2>>}

\* The same file twice, and two that begin alike.
MCSelections == {[i \in Files |-> <<1, 2>>],
                 [i \in Files |-> IF i = 1 THEN <<1, 2>> ELSE <<1>>]}

MCFirstSelection == {[i \in Files |-> <<1, 2>>]}

MCShortSelection == {[i \in Files |-> <<1>>]}

\* Each file has its own place.
MCApart == [i \in Files |-> i]
=============================================================================
