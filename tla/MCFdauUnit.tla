----------------------------- MODULE MCFdauUnit -----------------------------
EXTENDS FdauUnit

\* As many minor frames as ticks, fewer, and more than there are ticks.
SmallFLTs ==
    {[minorFrames |-> 3, layout |-> <<{1, 2, 3}, {2}, {3}>>],
     [minorFrames |-> 2, layout |-> <<{1, 2}, {1}, {2}>>],
     [minorFrames |-> 4, layout |-> <<{1, 2}, {1, 4}>>]}
=============================================================================
