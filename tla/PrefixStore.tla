------------------------------ MODULE PrefixStore ------------------------------
(***************************************************************************)
(* What the engine promises about its tables, whatever threads do: they    *)
(* hold a prefix of the accepted calls, replayed in the order of           *)
(* acceptance.  The prefix only grows, and a call is missing from it only  *)
(* when the flush that carried it raised, before it was part of it.        *)
(***************************************************************************)
EXTENDS Naturals, Sequences

CONSTANT Keys

VARIABLES log,        \* the keys of every accepted call
          lost,       \* positions in log of calls whose flush raised
          persisted,  \* how many calls the tables account for
          view        \* the version of each key in the tables

vars == <<log, lost, persisted, view>>

Replay(calls, dropped, n) ==
    [k \in Keys |->
        {i \in 1..n : /\ k \in calls[i] /\ i \notin dropped
                      /\ \A j \in 1..n : k \in calls[j] /\ j \notin dropped => j <= i}]

Init ==
    /\ log = <<>>
    /\ lost = {}
    /\ persisted = 0
    /\ view = Replay(log, lost, persisted)

Accept == \E keys \in SUBSET Keys : log' = Append(log, keys)

Drop == \E S \in SUBSET ((persisted + 1)..Len(log)) : lost' = lost \cup S

\* Each step may also extend the prefix.
Next ==
    /\ \/ Accept /\ UNCHANGED lost
       \/ Drop /\ UNCHANGED log
    /\ persisted' \in persisted..Len(log')
    /\ view' = Replay(log', lost', persisted')

Spec == Init /\ [][Next]_vars
=============================================================================
