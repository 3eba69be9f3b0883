--------------------------- MODULE MCWriterStore ---------------------------
EXTENDS WriterStore

CONSTANTS a, b

MCEntity == {a, b}
MCHome   == [x \in MCEntity |-> IF x = b THEN 2 ELSE 1]
MCEdge   == {[ln |-> "mentions", c |-> b, e |-> a], [ln |-> "mentions", c |-> a, e |-> b]}
=============================================================================
