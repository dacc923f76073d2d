--------------------------- MODULE OrbitIntegrator ---------------------------
(***************************************************************************)
(* The integrator of a resonant deep space satellite                       *)
(* (NoradSDP4::_secular, "SatelliteUtils/noradSDP4.cpp").  It goes from    *)
(* the epoch in steps of 720 minutes and stays where the last call left    *)
(* it, in mutable members of the satellite: every request that meets the   *)
(* satellite, on whatever worker thread, goes on from there.  Nothing      *)
(* locks them: two requests at once read and write them statement by       *)
(* statement, and the next call finds what they leave.                     *)
(*                                                                         *)
(* The value of dp_xli and dp_xni is abstracted to the number of steps     *)
(* from the epoch it has been taken through, that of the three dot terms   *)
(* to the number of steps they were calculated at.  What a call stores     *)
(* there once another is in _secular with it may be anything, and is Torn, *)
(* as is all that is calculated from it; dp_atime, which decides where the *)
(* call goes, is followed through its loads and stores.  Times are minutes.*)
(***************************************************************************)
EXTENDS SatelliteTime

CONSTANTS
  Threads,       \* worker threads with a request that meets the satellite
  Epochs,        \* epochs of element sets: two digits of year, day, tenths of a day
  Days,          \* days from the epoch's that requests ask for
  Clocks,        \* times of day they ask for
  MaxSteps,      \* MAX_INTEGRATE in steps; 10000 in the code
  StepBound      \* steps after which adding one to dp_atime changes nothing

Step == 720
Slack == 1         \* stepping back by a minute needs no restart

ASSUME IntegratorAssumption ==
  /\ MaxSteps \in Nat /\ StepBound \in Nat /\ MaxSteps < StepBound
  /\ Days \subseteq Int
  /\ \A e \in Epochs : e.yy \in 0 .. 99 /\ e.day \in 1 .. 366 /\ e.tenths \in 0 .. 9

\* The epochs WychKd knows a month for
KnownEpochs == {e \in Epochs : MonthKnown(EpochYear(e.yy), e.day)}

\* process_request: the minutes from an epoch to a time of the d-th day from it.
Elapsed(e, d, clock) ==
  RequestMinutes(Gmtime[EpochYear(e.yy), 1, e.day + d], clock) - EpochMinutes(e)

\* What the calendars, which are recursive, make of a time is a number of
\* minutes, and no time as far from the epoch as counting by steps reaches.
ASSUME TimesAssumption ==
  \A e \in KnownEpochs, d \in Days, clock \in Clocks :
    Elapsed(e, d, clock) \in -(StepBound * Step) .. StepBound * Step

\* Neither a number of steps nor the terms of one
Torn == StepBound + 1

VARIABLES
  epoch,       \* the satellite's
  atime,       \* dp_atime
  xli,         \* dp_xli and dp_xni
  dots,        \* dp_xldot, dp_xndot, dp_xnddt
  warned,      \* EM_IntegrWarn is set in the satellite's errors
  at,          \* where each thread is in _secular
  tsince,      \* its time since the epoch
  ft,          \* its ft
  delt,        \* its delt
  sum,         \* the dp_atime it is about to store
  mixed,       \* history: calls have met since one that met none last restarted
  met          \* history: its call has met another's

cacheVars == <<atime, xli, dots>>
locals == <<tsince, ft, delt, sum>>
historyVars == <<mixed, met>>
vars == <<epoch, cacheVars, warned, at, locals, historyVars>>

Abs(x) == IF x < 0 THEN -x ELSE x

\* _dot_terms_calculated at the n-th step
DotTerms(n) == n

Init ==
  /\ epoch \in KnownEpochs
  /\ atime = 0 /\ xli = 0 /\ dots = DotTerms(0) /\ warned = FALSE
  /\ at = [h \in Threads |-> "idle"]
  /\ tsince = [h \in Threads |-> 0]
  /\ ft = [h \in Threads |-> 0]
  /\ delt = [h \in Threads |-> Step]
  /\ sum = [h \in Threads |-> 0]
  /\ mixed = FALSE
  /\ met = [h \in Threads |-> FALSE]

Goto(h, s) == at' = [at EXCEPT ![h] = s]

Inside == {h \in Threads : at[h] # "idle"}
Alone(h) == Inside \subseteq {h}

\* What a group of members holds once a call has stored v to them
Stored(h, v) == IF met[h] THEN Torn ELSE v

\* The call is over and its locals are gone.
Leave(h) ==
  /\ Goto(h, "idle")
  /\ tsince' = [tsince EXCEPT ![h] = 0]
  /\ ft' = [ft EXCEPT ![h] = 0]
  /\ delt' = [delt EXCEPT ![h] = Step]
  /\ met' = [met EXCEPT ![h] = FALSE]
  /\ UNCHANGED <<sum, mixed>>

-----------------------------------------------------------------------------
(* Mutations: definitions below after a plausible mistake; nothing uses them. *)

\* the saved dot terms not restored
RestoreNoDots(h) ==
  /\ at[h] = "restore_dots"
  /\ Goto(h, "measure")
  /\ UNCHANGED <<epoch, cacheVars, warned, locals, historyVars>>

\* delt always forwards
DirectionForwards(h) == Step

-----------------------------------------------------------------------------
(* process_request computing where the satellite is *)

Request(h, d, clock) ==
  /\ at[h] = "idle"
  /\ tsince' = [tsince EXCEPT ![h] = Elapsed(epoch, d, clock)]
  /\ Goto(h, "secular")
  /\ mixed' = (mixed \/ ~Alone(h))
  /\ met' = [g \in Threads |-> met[g] \/ (~Alone(h) /\ g \in Inside \cup {h})]
  /\ UNCHANGED <<epoch, cacheVars, warned, ft, delt, sum>>

\* A new time near the epoch, across it, or back by more than a minute
MustRestart(h) ==
  \/ Abs(tsince[h]) < Step
  \/ atime > 0 /\ tsince[h] < atime - Slack
  \/ atime < 0 /\ tsince[h] > atime + Slack

Begin(h) ==
  /\ at[h] = "secular"
  /\ Goto(h, IF MustRestart(h) THEN "restore_atime" ELSE "measure")
  /\ mixed' = (mixed /\ (met[h] \/ ~MustRestart(h)))
  /\ UNCHANGED <<epoch, cacheVars, warned, locals, met>>

\* Epoch restart
RestoreTime(h) ==
  /\ at[h] = "restore_atime"
  /\ atime' = 0
  /\ Goto(h, "restore_xli")
  /\ UNCHANGED <<epoch, xli, dots, warned, locals, historyVars>>

RestoreLongitude(h) ==
  /\ at[h] = "restore_xli"
  /\ xli' = Stored(h, 0)
  /\ Goto(h, "restore_dots")
  /\ UNCHANGED <<epoch, atime, dots, warned, locals, historyVars>>

RestoreDots(h) ==
  /\ at[h] = "restore_dots"
  /\ dots' = Stored(h, DotTerms(0))
  /\ Goto(h, "measure")
  /\ UNCHANGED <<epoch, atime, xli, warned, locals, historyVars>>

\* Too far: getPosition returns false, which process_request does not look at.
TooFar(h) ==
  /\ at[h] = "measure" /\ Abs(tsince[h] - atime) > MaxSteps * Step
  /\ warned' = TRUE
  /\ Leave(h)
  /\ UNCHANGED <<epoch, cacheVars>>

\* Less than a step is left, which is ft, or the loop is entered or goes on.
LeftOver(h, loop) ==
  LET left == tsince[h] - atime IN
  IF Abs(left) >= Step THEN Goto(h, loop) /\ UNCHANGED ft
                       ELSE Goto(h, "combine") /\ ft' = [ft EXCEPT ![h] = left]

Measure(h) ==
  /\ at[h] = "measure" /\ Abs(tsince[h] - atime) <= MaxSteps * Step
  /\ LeftOver(h, "direct")
  /\ UNCHANGED <<epoch, cacheVars, warned, tsince, delt, sum, historyVars>>

Direction(h) == IF tsince[h] >= atime THEN Step ELSE -Step

Direct(h) ==
  /\ at[h] = "direct"
  /\ delt' = [delt EXCEPT ![h] = Direction(h)]
  /\ Goto(h, "step")
  /\ UNCHANGED <<epoch, cacheVars, warned, tsince, ft, sum, historyVars>>

\* One step with the last dot terms: theirs is the only step they give.
Advanced(n, d) == IF n # Torn /\ dots = n /\ Abs(n + d) <= StepBound THEN n + d ELSE Torn

Integrate(h) ==
  /\ at[h] = "step"
  /\ xli' = Stored(h, Advanced(xli, delt[h] \div Step))
  /\ Goto(h, "load_atime")
  /\ UNCHANGED <<epoch, atime, dots, warned, locals, historyVars>>

LoadTime(h) ==
  /\ at[h] = "load_atime"
  /\ sum' = [sum EXCEPT ![h] = IF Abs(atime + delt[h]) > StepBound * Step THEN atime ELSE atime + delt[h]]
  /\ Goto(h, "store_atime")
  /\ UNCHANGED <<epoch, cacheVars, warned, tsince, ft, delt, historyVars>>

StoreTime(h) ==
  /\ at[h] = "store_atime"
  /\ atime' = sum[h]
  /\ sum' = [sum EXCEPT ![h] = 0]
  /\ Goto(h, "terms")
  /\ UNCHANGED <<epoch, xli, dots, warned, tsince, ft, delt, historyVars>>

\* The dot terms anew
CalculateTerms(h) ==
  /\ at[h] = "terms"
  /\ dots' = Stored(h, DotTerms(xli))
  /\ Goto(h, "again")
  /\ UNCHANGED <<epoch, atime, xli, warned, locals, historyVars>>

CloseEnough(h) ==
  /\ at[h] = "again"
  /\ LeftOver(h, "step")
  /\ UNCHANGED <<epoch, cacheVars, warned, tsince, delt, sum, historyVars>>

\* The rest of the time, ft, by the dot terms from the last step
Combine(h) ==
  /\ at[h] = "combine"
  /\ Leave(h)
  /\ UNCHANGED <<epoch, cacheVars, warned>>

Restore(h) == RestoreTime(h) \/ RestoreLongitude(h) \/ RestoreDots(h)
OneStep(h) == Integrate(h) \/ LoadTime(h) \/ StoreTime(h) \/ CalculateTerms(h) \/ CloseEnough(h)
Secular(h) ==
  Begin(h) \/ Restore(h) \/ TooFar(h) \/ Measure(h) \/ Direct(h) \/ OneStep(h) \/ Combine(h)

Next == \E h \in Threads : Secular(h) \/ \E d \in Days, clock \in Clocks : Request(h, d, clock)

\* A thread in _secular is never blocked: it goes on.
Spec == Init /\ [][Next]_vars /\ \A h \in Threads : WF_vars(Secular(h))

-----------------------------------------------------------------------------
(* Properties *)

\* A position is computed from a whole number of steps from the epoch, all of
\* the members saying the same number, and at most a step away, or a minute
\* beyond, whatever requests were answered from the same members before.  What
\* two requests at once make of the members may be anything, and a position is
\* wrong for as long as no request on its own restarts at the epoch: from that
\* restart on every position is right, until requests meet again.
FromEpoch ==
  \A h \in Threads : at[h] = "combine" /\ ~mixed =>
    LET from == tsince[h] - ft[h] IN
      /\ from = atime /\ atime = xli * Step /\ dots = xli
      /\ Abs(ft[h]) < Step
      /\ from > 0 => tsince[h] >= from - Slack
      /\ from < 0 => tsince[h] <= from + Slack

\* The three ways the code counts days agree on the satellite's epoch: a
\* request for the epoch is one for time zero, and the days since 1950 are
\* those of the Julian date.  (From 29 February 2000 to the end of that year
\* they do not: DurData takes 2000 for a leap year and WychKd does not.)
EpochDate == Gmtime[EpochYear(epoch.yy), 1, epoch.day]
EpochIsZero ==
  EpochYear(epoch.yy) # 2000 \/ epoch.day < 60 =>
    /\ JulianMinutes(EpochDate, epoch.tenths * (DayMinutes \div 10)) = EpochMinutes(epoch)
    /\ Days50(EpochYear(epoch.yy), epoch.day) - JulianDay(EpochDate) = Days50(1970, 1) - 2440588

\* A computation that no other meets comes to an end, however earlier ones that
\* met left the members.  One that another meets may step away from its own
\* time for ever: the direction is chosen before the loop.
PositionReturns == \A h \in Threads : at[h] # "idle" ~> at[h] = "idle" \/ met[h]
=============================================================================
