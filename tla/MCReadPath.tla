----------------------------- MODULE MCReadPath -----------------------------
EXTENDS ReadPath

CONSTANTS Parameters,        \* bounds: keys
          FewTimes, FewParameters,
          MaxInOne,            \* bound: points of a snapshot on its own
          MaxInTwo, MaxInMemtable   \* bounds: of each of two, and a memtable

Keys == [t : Timestamps, p : Parameters]

\* What Memtable.snapshot can return.
Sorted(keys, max) == {s \in UNION {[1..n -> keys] : n \in 0..max} : InOrder(s)}

\* One snapshot with several blocks, or the same few keys in several sources.
SmallInputs ==
    LET few == [t : FewTimes, p : FewParameters]
        two == Sorted(few, MaxInTwo) \ {<<>>}
    IN  {[snapshots |-> <<s>>, memtable |-> <<>>] : s \in Sorted(Keys, MaxInOne) \ {<<>>}}
          \cup {[snapshots |-> <<a, b>>, memtable |-> m] :
                   a \in two, b \in two, m \in Sorted(few, MaxInMemtable)}

\* Every interval between and around the timestamps, empty ones too, unfiltered
\* or for one parameter; 0 is no parameter of any point.
SmallQueries ==
    {[start |-> a, end |-> b, filtered |-> FALSE, parameters |-> {}] :
        a \in Timestamps, b \in Timestamps \cup {x + 1 : x \in Timestamps}}
      \cup {[start |-> a, end |-> 9, filtered |-> TRUE, parameters |-> {0, p}] :
               a \in Timestamps, p \in Parameters}
=============================================================================
