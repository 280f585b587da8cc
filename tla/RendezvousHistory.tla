------------------------- MODULE RendezvousHistory -------------------------
(***************************************************************************)
(* Rendezvous with a history variable, for properties that compare what    *)
(* the server answers now with what it answered before.  No action reads   *)
(* it.                                                                     *)
(***************************************************************************)
EXTENDS Rendezvous

VARIABLE answered       \* peer -> when its lookups were answered since the server started

historyVars == <<vars, answered>>

Answers == {"found", "not_found", "reconnecting"}

NothingAnswered == [p \in Peers |-> <<>>]

HistoryInit ==
    /\ Init
    /\ answered = NothingAnswered

RecordAnswer ==
    answered' = IF reply'.type \in Answers
                THEN [answered EXCEPT ![reply'.to] = Append(@, now)]
                ELSE answered

HistoryNext ==
    \/ Next /\ ~Restart /\ RecordAnswer
    \/ Restart /\ answered' = NothingAnswered

HistorySpec == HistoryInit /\ [][HistoryNext]_historyVars

\* "Someone typing the code they were given gets their first lookup answered,
\* however much else is going on": a peer is throttled only after it has had an
\* answer within the window, whatever the others' misses and whatever counters
\* were swept in between.
FirstLookupAnswered ==
    [][reply'.type = "throttled" =>
          \E i \in DOMAIN answered[reply'.to] :
              answered[reply'.to][i] >= now - LookupWindow
      ]_historyVars

\* Windows are fixed, not sliding, and stale ones are dropped by every request;
\* still no peer gets twice the limit of answers in any stretch of time as long as
\* one window: that many span more.
LookupRate ==
    \A p \in Peers : \A i, j \in DOMAIN answered[p] :
        j = i + 2 * MaxLookups - 1 => answered[p][j] - answered[p][i] > LookupWindow

=============================================================================
