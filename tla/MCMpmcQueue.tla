---- MODULE MCMpmcQueue ----
EXTENDS MpmcQueue, TLC

\* Any caller and any message may come first.
Symmetry == Permutations(Producers) \cup Permutations(Messages)

====
