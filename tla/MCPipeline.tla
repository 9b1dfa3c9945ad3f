----------------------------- MODULE MCPipeline -----------------------------
EXTENDS Pipeline

CONSTANT u

\* Frames without a point, with one, and large enough for a batch of their own.
SomeSizes == [p \in {u} |-> {0, 1, 3}]
=============================================================================
