---------------------------- MODULE TargetAnswers ----------------------------
(***************************************************************************)
(* What a client's table holds after get_targets: Server::start and stop   *)
(* around the catalogue, Server::process_request, TargetsListMsg, and      *)
(* Client::deserialize into a TargetTable.  The channel between them and   *)
(* who may use it are the subject of TEServer and TEClient; here one       *)
(* client asks and one worker thread answers, while the other workers may  *)
(* still be starting.                                                      *)
(*                                                                         *)
(* A position is abstracted to the area it falls into: an area is the set  *)
(* of the orbits seen in it.  A position that is not a number is outside   *)
(* no area.  A catalogue cleared while a worker copies it is undefined     *)
(* behaviour: that request and those after it in the process may be given  *)
(* anything, and the process may crash at any time.                        *)
(***************************************************************************)
EXTENDS CatalogTLE, SequencesExt

CONSTANTS
  WorkerThreads,   \* number of worker threads
  DecimalComma,    \* the user's own locale writes a decimal comma
  Areas,           \* the areas clients ask for: sets of orbits
  Placeless,       \* the sets of orbits that may be without a position at a time
  TornBound        \* bound: targets a request of a damaged process is given

ASSUME AnswersAssumption ==
  /\ WorkerThreads \in Nat \ {0}
  /\ DecimalComma \in BOOLEAN
  /\ Areas \subseteq SUBSET Satellites /\ Placeless \subseteq SUBSET Satellites
  /\ TornBound \in Nat

VARIABLES
  clean,       \* history: the files read since it was empty were lists of element sets
  damaged,     \* history: this process has copied a catalogue while it was cleared
  starting,    \* worker threads that have not set their locale
  locale,      \* the locale of the process
  worker,      \* the request's worker: "idle", "asked", "copying", "gathered" or "formatting"
  area,        \* the area asked for
  undefined,   \* the orbits without a position, not a number, at the time asked for
  torn,        \* history: the process that has the last request was damaged before its answer
  expected,    \* history: what the catalogue had there when it was asked for
  buffer,      \* target_buffer
  answer,      \* the answer on its way to the client
  waiting,     \* the client is in get_targets
  code,        \* what its last call returned
  comma,       \* history: the answer to it was written with a decimal comma
  table        \* the client's table: a set of targets

serverVars == <<control, file, parserVars, catalog, clean, damaged, starting>>
clientVars == <<waiting, code, comma, table>>
answerVars == <<worker, area, undefined, torn, expected, buffer, answer, clientVars>>
allVars == <<serverVars, locale, answerVars>>

NoAnswer == [items |-> << >>, comma |-> FALSE, sent |-> FALSE]

AnswersInit ==
  /\ CatalogInit
  /\ clean = TRUE /\ damaged = FALSE
  /\ starting = 0 /\ locale = "system"
  /\ worker = "idle" /\ area = {} /\ undefined = {} /\ torn = FALSE
  /\ expected = << >> /\ buffer = << >> /\ answer = NoAnswer
  /\ waiting = FALSE /\ code = "none" /\ comma = FALSE /\ table = {}

-----------------------------------------------------------------------------
(* Mutations: definitions below after a plausible mistake; nothing uses them. *)

\* emplace without the uniqueness of the table's keys
KeptAll(items) == ToSet(items)

\* the separator after the last item, not between items
SeparatorAfterLast(items) == items = << >>

-----------------------------------------------------------------------------
(* Server::start around parse_keo, and stop *)

\* Lines that tell of a satellite: its elements, or its name.
Element(l) == l.lead \in {"1", "2"}
Told(l) == Element(l) \/ (l.lead = "other" /\ l.sat # NoName)

\* The lines of a satellite lie together, and each of its two is there once.
Together(f) ==
  /\ \A i, k \in DOMAIN f : \A j \in i .. k :
       Told(f[i]) /\ Told(f[j]) /\ Told(f[k]) /\ f[i].sat = f[k].sat => f[j].sat = f[i].sat
  /\ \A i, j \in DOMAIN f :
       i # j /\ Element(f[i]) /\ f[i].lead = f[j].lead => f[i].sat # f[j].sat

\* For every second line of f, f has the first line too.
FirstLinesKept(f) ==
  \A j \in DOMAIN f : f[j].lead = "2" =>
    \E i \in DOMAIN f : f[i].lead = "1" /\ f[i].sat = f[j].sat

\* Where the second one is lost the next set begins with its first.
SecondLinesLost(f) ==
  \A i, j \in DOMAIN f :
    /\ i < j /\ f[i].lead = "1" /\ f[j].lead = "2"
    /\ \A k \in DOMAIN f : f[k].lead = "2" => f[k].sat # f[i].sat
    => \E k \in i + 1 .. j - 1 : f[k].lead = "1"

\* A name has elements after it.
NamesBefore(f) ==
  \A i \in DOMAIN f : f[i].lead = "other" /\ f[i].sat # NoName =>
    \E j \in DOMAIN f : i < j /\ Element(f[j]) /\ f[j].sat = f[i].sat

\* f is a list of element sets, as the files of the program are but for lines lost.
ElementSets(f) == Together(f) /\ FirstLinesKept(f) /\ SecondLinesLost(f) /\ NamesBefore(f)

Parse ==
  /\ ParserNext
  /\ clean' = (clean /\ (control' = "parsing" => ElementSets(file)))
  /\ locale' = IF control' = "parsing" THEN "C" ELSE locale
  /\ UNCHANGED <<damaged, starting, answerVars>>

\* The file cannot be opened: start() has set the locale, and returns.
NoFile ==
  /\ control = "down"
  /\ locale' = "C"
  /\ UNCHANGED <<serverVars, answerVars>>

\* open, bind or listen fails after the file has been read: the entries stay.
StartFails ==
  /\ control = "parsed"
  /\ control' = "down"
  /\ UNCHANGED <<file, parserVars, catalog, clean, damaged, starting, locale, answerVars>>

Started ==
  /\ control = "parsed"
  /\ control' = "up"
  /\ starting' = WorkerThreads
  /\ UNCHANGED <<file, parserVars, catalog, clean, damaged, locale, answerVars>>

WorkerStarts ==
  /\ starting > 0 /\ control # "crashed"
  /\ starting' = starting - 1
  /\ locale' = "system"
  /\ UNCHANGED <<control, file, parserVars, catalog, clean, damaged, answerVars>>

\* stop() empties the catalogue first, while the workers still run.
Stop ==
  /\ control \in {"up", "down"}
  /\ control' = "stopping"
  /\ catalog' = << >>
  /\ damaged' = (damaged \/ worker = "copying")
  /\ clean' = ~damaged'
  /\ torn' = (torn \/ worker = "copying")
  /\ UNCHANGED <<file, parserVars, starting, locale,
                 worker, area, undefined, expected, buffer, answer, clientVars>>

\* The workers have been joined; a request none of them took is dropped.
Joined ==
  /\ control = "stopping" /\ starting = 0 /\ worker \in {"idle", "asked"}
  /\ control' = "down"
  /\ worker' = "idle"
  /\ UNCHANGED <<file, parserVars, catalog, clean, damaged, starting, locale,
                 area, undefined, torn, expected, buffer, answer, clientVars>>

CrashDamaged ==
  /\ damaged /\ control # "crashed"
  /\ control' = "crashed"
  /\ UNCHANGED <<file, parserVars, catalog, clean, damaged, starting, locale, answerVars>>

\* A crashed server is started again as a new process.
NewProcess ==
  /\ control = "crashed"
  /\ control' = "down"
  /\ rest' = << >> /\ s1' = None /\ s2' = None /\ name' = NoName
  /\ catalog' = << >> /\ clean' = TRUE /\ damaged' = FALSE /\ starting' = 0 /\ locale' = "system"
  /\ worker' = "idle" /\ buffer' = << >>
  /\ UNCHANGED <<file, area, undefined, torn, expected, answer, clientVars>>

-----------------------------------------------------------------------------
(* Server::process_request and TargetsListMsg *)

AsTarget(e) == [id |-> e.number, orbit |-> e.orbit, name |-> e.name]
Garbage == [id |-> 0, orbit |-> NoName, name |-> NoName]

Seen(orbits) == {i \in DOMAIN catalog : catalog[i].orbit \in orbits}

\* The vector of entries is copied one by one, without a lock.
BeginCopy ==
  /\ worker = "asked" /\ control \in {"up", "stopping"} /\ starting < WorkerThreads
  /\ worker' = "copying"
  /\ UNCHANGED <<serverVars, locale, area, undefined, torn, expected, buffer, answer, clientVars>>

\* The loop over the copy is parallel: its targets come in any order.  A position
\* that is not a number passes sector_check.
Gather ==
  /\ worker = "copying" /\ control # "crashed"
  /\ \/ /\ ~torn
        /\ \E order \in SetToSeqs(Seen(area \cup undefined)) :
             buffer' = [i \in DOMAIN order |-> AsTarget(catalog[order[i]])]
     \/ /\ torn
        /\ buffer' \in BoundedSeq({expected[i] : i \in DOMAIN expected} \cup {Garbage}, TornBound)
  /\ worker' = "gathered" /\ area' = {}
  /\ UNCHANGED <<serverVars, locale, undefined, torn, expected, answer, clientVars>>

\* A system without the locale "en" leaves the process the one it has.
SetLocale ==
  /\ worker = "gathered" /\ control # "crashed"
  /\ worker' = "formatting"
  /\ locale' \in {"en", locale}
  /\ UNCHANGED <<serverVars, area, undefined, torn, expected, buffer, answer, clientVars>>

\* The message, to a client that still waits for it
Format ==
  /\ worker = "formatting" /\ control # "crashed"
  /\ worker' = "idle" /\ buffer' = << >>
  /\ answer' = IF waiting THEN [items |-> buffer, comma |-> locale = "system" /\ DecimalComma, sent |-> TRUE]
                          ELSE answer
  /\ UNCHANGED <<serverVars, locale, area, undefined, torn, expected, clientVars>>

\* targets.back() of no targets: undefined, and a crash is one outcome.
CrashOnEmpty ==
  /\ worker = "formatting" /\ buffer = << >> /\ control # "crashed"
  /\ control' = "crashed"
  /\ UNCHANGED <<file, parserVars, catalog, clean, damaged, starting, locale, answerVars>>

-----------------------------------------------------------------------------
(* Client::get_targets and deserialize *)

\* A request for area a at a time when the orbits of u have no position
Ask(a, u) ==
  /\ control = "up" /\ ~waiting /\ worker = "idle"
  /\ waiting' = TRUE /\ worker' = "asked" /\ area' = a /\ undefined' = u /\ torn' = damaged
  /\ expected' = [i \in Seen(a \cup u) |-> AsTarget(catalog[i])]
  /\ UNCHANGED <<serverVars, locale, buffer, answer, code, comma, table>>

Return(c, tbl) ==
  /\ waiting' = FALSE /\ answer' = NoAnswer /\ code' = c /\ comma' = answer.comma /\ table' = tbl
  /\ UNCHANGED <<serverVars, locale, worker, area, undefined, torn, expected, buffer>>

\* A separator follows every item but those that equal, by id, the last one.
Separated(items) == \A i \in 1 .. Len(items) - 1 : items[i].id # Last(items).id

\* Not a number is printed as nan, which is not JSON.
Defined(items) == \A i \in DOMAIN items : items[i].orbit \notin undefined

\* Of two targets with one id the table keeps the first.
Kept(items) ==
  {items[i] : i \in {j \in DOMAIN items : \A k \in 1 .. j - 1 : items[k].id # items[j].id}}

\* The caller's table is cleared before the answer is looked at.  After a decimal
\* comma a fraction is a number of its own, and none of JSON if it begins with a 0.
AnswerUnread ==
  /\ waiting /\ answer.sent
  /\ \/ ~Separated(answer.items)
     \/ ~Defined(answer.items)
     \/ answer.comma /\ answer.items # << >>
  /\ Return("RequestFail", {})

\* No fraction begins with a 0, and each array has twelve numbers for the six of
\* std::array: an assertion in a debug build, else a write past its end.
AnswerOverrun ==
  /\ waiting /\ answer.sent /\ Separated(answer.items) /\ Defined(answer.items)
  /\ answer.comma /\ answer.items # << >>
  /\ Return("overrun", {})

AnswerRead ==
  /\ waiting /\ answer.sent /\ Separated(answer.items) /\ Defined(answer.items)
  /\ answer.comma => answer.items = << >>
  /\ Return("OK", Kept(answer.items))

\* The connection has ended before the answer: the table is as it was.
ConnectionLost ==
  /\ waiting /\ ~answer.sent /\ control # "up"
  /\ Return("SystemError", table)

AnswersNext ==
  \/ Parse \/ NoFile \/ StartFails \/ Started \/ WorkerStarts \/ Stop \/ Joined
  \/ CrashDamaged \/ NewProcess
  \/ BeginCopy \/ Gather \/ SetLocale \/ Format \/ CrashOnEmpty
  \/ \E a \in Areas, u \in Placeless : Ask(a, u)
  \/ AnswerUnread \/ AnswerOverrun \/ AnswerRead \/ ConnectionLost

AnswersSpec == AnswersInit /\ [][AnswersNext]_allVars

-----------------------------------------------------------------------------
(* Properties *)

\* An entry is made of the lines of one satellite, under its own name or none,
\* where the files are lists of element sets, whatever comments, blank lines,
\* missing names, unreadable or lost second lines they have: parse_keo stops
\* rather than pair lines of two satellites.  (A lost FIRST line pairs every
\* line after it with the wrong one.)
ElementsMatched ==
  clean =>
    \A i \in DOMAIN catalog :
      /\ catalog[i].number = catalog[i].orbit
      /\ catalog[i].name \in {catalog[i].number, NoName}

\* A call that OK answers has put into the table every target the area had when it
\* was asked for, once each, or, where the server was stopped before its worker
\* had copied the catalogue, none at all; one that RequestFail answers has left
\* none.  Never a part of them, and never another's, unless stop() cleared the
\* catalogue in the middle of a copy, after which nothing is said of the process.
Expected == {expected[i] : i \in DOMAIN expected}
Ids(targets) == {t.id : t \in targets}

WholeOrNothing ==
  ~waiting /\ code \in {"OK", "RequestFail"} /\ ~torn /\ table # {} =>
    /\ code = "OK"
    /\ table \subseteq Expected /\ Ids(table) = Ids(Expected)
    /\ Cardinality(table) = Cardinality(Ids(table))

\* An answer the client cannot read has one of four causes: a catalogue that holds
\* a satellite twice, which a start() that failed after reading the file leaves; a
\* satellite in it whose position is not a number; the decimal comma, of a locale
\* a starting worker has set behind another's back or that "en" has not
\* replaced; a catalogue cleared in the middle of a copy.
RefusalsExplained ==
  ~waiting /\ code = "RequestFail" =>
    \/ \E i, j \in DOMAIN expected : i # j /\ expected[i].id = expected[j].id
    \/ \E i \in DOMAIN expected : expected[i].orbit \in undefined
    \/ comma
    \/ torn
=============================================================================
