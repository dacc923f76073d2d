-------------------------- MODULE MCBuildScanPair ---------------------------
\* Sounding times on both sides of every bound, echoes from 30 to 3000 km.
EXTENDS BuildScanPair

AnyPriority == [type \in QueryTypes |-> 1]

BoundaryTaus ==
  UNION {{b, b + 1} : b \in {1, 100, 1000, 8000, 15000, 30000, 60000, 120000, 240000}}
  \cup UNION {{240000 * n - 1, 240000 * n} : n \in 2 .. 16} \cup {5000000}

SampleDelays == {200139, 2001385, 6671282, 13342564, 20013846}
=============================================================================
