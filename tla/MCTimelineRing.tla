--------------------------- MODULE MCTimelineRing ---------------------------
\* A ring of three discretes that time goes round twice.
EXTENDS TimelineRing

AnyPriority == [type \in QueryTypes |-> 1]
=============================================================================
