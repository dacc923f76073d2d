-------------------------- MODULE MCOrbitIntegrator --------------------------
EXTENDS OrbitIntegrator

MCDays == -1 .. 1
Clock(h, m, s) == [hour |-> h, min |-> m, sec |-> s]

\* Every year of the two digits, at both ends of it and around its leap day
AllEpochs == [yy : 0 .. 99, day : {1, 32, 59, 60, 61, 365, 366}, tenths : {0}]
                \ [yy : {y \in 0 .. 99 : ~IsLeap(EpochYear(y))}, day : {366}, tenths : {0}]

\* The satellites requests are followed of: at the end of a year, on the leap
\* day the countings take differently, and on a day like any other.  Epochs
\* never change: those of the others are only looked at as they are read.
Followed == epoch \in {[yy |-> 99, day |-> 365, tenths |-> 0], [yy |-> 0, day |-> 60, tenths |-> 0],
                       [yy |-> 4, day |-> 32, tenths |-> 0]}

\* At noon, where the first step ends for an epoch at midnight, and a minute before
NoonClocks == {Clock(11, 59, 0), Clock(12, 0, 0)}
=============================================================================
