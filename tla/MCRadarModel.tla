---------------------------- MODULE MCRadarModel ----------------------------
\* Instances of RadarModel: a scaled one, and the settings of the program.
EXTENDS RadarModel, TLC

Scan(size, length, period, receive_time) ==
  [size |-> size, length |-> length, period |-> period, receive_time |-> receive_time]
New(type, id, scan) == [type |-> type, id |-> id, scan |-> scan]
NoScan == Scan(1, 1, 8, 133426)

-----------------------------------------------------------------------------
\* The settings of the program, unit 100 ns.
RealSpeed == [type \in QueryTypes |->
  CASE type = "search" -> 50 [] type \in {"tracking", "drop"} -> 10
    [] type = "tech_control" -> 1 [] OTHER -> 100]
RealThreshold == [type \in QueryTypes |-> IF type \in {"confirm", "capture"} THEN 0 ELSE 1]

\* The scans of the three kinds of target of ModelEngine.
Target1 == Scan(4, 2400, 19200, 133426)
Target2 == Scan(1, 150, 1200, 66713)
Target3 == Scan(1, 2400, 19200, 140097)

\* The events of ModelEngine, stopped after the searches and targets are dropped.
Searches == << New("search", 1000, Target1), New("search", 2000, Target2), New("search", 3000, Target3),
               New("tech_control", 100, NoScan) >>
Drops == [n \in 1 .. 7 |-> New("drop", <<1003, 2003, 3003, 4003, 1000, 2000, 3000>>[n], NoScan)]
EngineScenarios ==
  { (0 :> Searches)
    @@ (100000 :> << New("confirm", 1001, Target1) >>)
    @@ (1000000 :> << New("confirm", 2001, Target2), New("confirm", 3001, Target2),
                      New("confirm", 4001, Target3) >>)
    @@ (10000000 :> Drops)
    @@ (stop_time :> << >>) }

-----------------------------------------------------------------------------
\* A scaled instance: a discrete is 4 units, a step 8 discretes.
SmallSpeed == [type \in QueryTypes |->
  CASE type = "search" -> 4 [] type \in {"tracking", "drop", "tech_control"} -> 2 [] OTHER -> 8]
SmallThreshold == RealThreshold

Near  == Scan(1, 3, 6, 42)
Far   == Scan(1, 14, 28, 101)
Train == Scan(2, 14, 28, 90)
Lost  == Scan(2, 14, 28, 0)
Short == Scan(1, 1, 2, 57)
Close == Scan(1, 3, 6, 5)

\* Two searches; one or two detections, at any of the first steps; a drop.
SmallScenarios ==
  { (0 :> << New("search", 10, s1), New("search", 20, s2), New("tech_control", 1, Near) >>)
    @@ (32 * t1 :> << New("confirm", 31, c1), New("confirm", 41, c2) >>)
    @@ (32 * (t1 + t2) :> << New("confirm", 51, c3), New("drop", 33, Near) >>)
    @@ (stop_time :> << >>)
    : s1 \in {Near, Train}, s2 \in {Far}, c1 \in {Near, Far, Train}, c2 \in {Short, Far, Train},
      c3 \in {Near, Train, Lost, Close}, t1 \in 1 .. 3, t2 \in 1 .. 2 }
=============================================================================
