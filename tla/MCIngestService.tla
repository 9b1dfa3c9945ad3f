--------------------------- MODULE MCIngestService ---------------------------
EXTENDS IngestService

CONSTANTS p1, p2

\* Rows that fill a batch by points, by rows or not at all, and frames with none.
MixedSizes == [p \in {p1, p2} |-> IF p = p1 THEN {0, 1} ELSE {3}]
=============================================================================
