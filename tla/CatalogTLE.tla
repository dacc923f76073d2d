----------------------------- MODULE CatalogTLE -----------------------------
(***************************************************************************)
(* CatalogTLE::parse_keo ("Target Environment/SatelliteUtils/              *)
(* catalog_tle.cpp") reading its file line by line, called by              *)
(* Server::start.  A line is known by its first character; what follows it *)
(* is abstracted to the satellite it describes and to whether stoi and     *)
(* stod can read it.  An entry keeps where its parts came from.            *)
(***************************************************************************)
EXTENDS Naturals, Sequences, FiniteSets

CONSTANTS
  Satellites,      \* numbers of the NORAD catalogue
  Files,           \* the contents the file may have: sequences of lines
  CatalogBound     \* bound: entries read into one catalogue

Leads == {"1", "2", "#", "other"}
NoName == 0        \* an empty line, or no line, where the name should be
Line == [lead : Leads, sat : Satellites \cup {NoName}, readable : BOOLEAN]

ASSUME CatalogAssumption ==
  /\ Satellites \subseteq Nat \ {NoName}
  /\ \A f \in Files : f \in Seq(Line)
  /\ CatalogBound \in Nat

None == [lead |-> "#", sat |-> NoName, readable |-> TRUE]   \* an empty s1 or s2

VARIABLES
  control,     \* the server: "down", "parsing", "parsed", "up", "stopping" or "crashed"
  file,        \* the file on the disk
  rest,        \* what parse_keo has still to read of it
  s1, s2,      \* the lines of the entry being read
  name,        \* its name
  catalog      \* _keo_el

parserVars == <<rest, s1, s2, name>>

CatalogInit ==
  /\ control = "down"
  /\ file \in Files
  /\ rest = << >>
  /\ s1 = None /\ s2 = None /\ name = NoName
  /\ catalog = << >>

-----------------------------------------------------------------------------
(* Mutation, used by no specification: name and lines declared before the  *)
(* outer loop, so that an entry begins with what the last one left.        *)
ResetKeepingName ==
  /\ s1' = None /\ s2' = None
  /\ UNCHANGED name

ResetEntry == s1' = None /\ s2' = None /\ name' = NoName

Repeated(l) == \/ l.lead = "1" /\ s1 # None
               \/ l.lead = "2" /\ s2 # None

-----------------------------------------------------------------------------
(* Server::start up to parse_keo, and the lines of the file *)

SecondLines(f) == Cardinality({i \in DOMAIN f : f[i].lead = "2"})

BeginParse ==
  /\ control = "down" /\ Len(catalog) + SecondLines(file) <= CatalogBound
  /\ control' = "parsing"
  /\ rest' = file
  /\ s1' = None /\ s2' = None /\ name' = NoName
  /\ UNCHANGED <<file, catalog>>

EndParse(next) ==
  /\ control' = next
  /\ rest' = << >>
  /\ s1' = None /\ s2' = None /\ name' = NoName

Skipped(l) == l.lead = "#"

\* A comment: nothing changes.
SkipLine ==
  /\ control = "parsing" /\ rest # << >> /\ Skipped(Head(rest))
  /\ rest' = Tail(rest)
  /\ UNCHANGED <<control, file, s1, s2, name, catalog>>

\* A second line of a kind before the entry is complete: parse_keo gives up and
\* keeps the entries it has.
RepeatedLine ==
  /\ control = "parsing" /\ rest # << >> /\ Repeated(Head(rest))
  /\ EndParse("down")
  /\ UNCHANGED <<file, catalog>>

\* s1, s2 and name after a line that is neither skipped nor repeated
With1(l) == IF l.lead = "1" THEN l ELSE s1
With2(l) == IF l.lead = "2" THEN l ELSE s2
WithName(l) == IF l.lead = "other" THEN l.sat ELSE name
Complete(l) == With1(l) # None /\ With2(l) # None

KeepLine ==
  /\ control = "parsing" /\ rest # << >>
  /\ LET l == Head(rest) IN
       /\ ~Skipped(l) /\ ~Repeated(l) /\ ~Complete(l)
       /\ s1' = With1(l) /\ s2' = With2(l) /\ name' = WithName(l)
  /\ rest' = Tail(rest)
  /\ UNCHANGED <<control, file, catalog>>

\* The element set that line l completes, by the satellites its parts are of.
KEO(l) == [name |-> WithName(l), number |-> With1(l).sat, orbit |-> With2(l).sat]

\* Both lines are there: the entry is computed from them and appended.
AddEntry ==
  /\ control = "parsing" /\ rest # << >>
  /\ LET l == Head(rest) IN
       /\ ~Skipped(l) /\ ~Repeated(l) /\ Complete(l)
       /\ With1(l).readable /\ With2(l).readable
       /\ catalog' = Append(catalog, KEO(l))
  /\ ResetEntry
  /\ rest' = Tail(rest)
  /\ UNCHANGED <<control, file>>

\* stoi or stod throws, through parse_keo and start.
UnreadableEntry ==
  /\ control = "parsing" /\ rest # << >>
  /\ LET l == Head(rest) IN
       /\ ~Skipped(l) /\ ~Repeated(l) /\ Complete(l)
       /\ ~(With1(l).readable /\ With2(l).readable)
  /\ EndParse("down")
  /\ UNCHANGED <<file, catalog>>

\* The end of the file, in the middle of an entry or not: parse_keo succeeds.
EndOfFile ==
  /\ control = "parsing" /\ rest = << >>
  /\ EndParse("parsed")
  /\ UNCHANGED <<file, catalog>>

\* The operator puts another file in its place while the server is down.
ReplaceFile ==
  /\ control = "down"
  /\ file' \in Files
  /\ UNCHANGED <<control, parserVars, catalog>>

ParserNext ==
  \/ BeginParse \/ SkipLine \/ RepeatedLine \/ KeepLine \/ AddEntry \/ UnreadableEntry
  \/ EndOfFile \/ ReplaceFile
=============================================================================
