----------------------- MODULE SatelliteCatalog_proofs -----------------------
(***************************************************************************)
(* Proofs about what the server makes of its satellite catalogue, for any  *)
(* files, areas, epochs and number of workers.  A table that get_targets   *)
(* has filled holds the whole of what was asked for or nothing, unless the *)
(* catalogue was cleared while it was copied; an answer the client cannot  *)
(* read has one of four causes; the entries read from lists of element     *)
(* sets are each of one satellite (TargetAnswers).  A deep space position  *)
(* is computed from where it would be integrated to from the epoch, until  *)
(* requests for one satellite meet in its integrator, and again from the   *)
(* first restart of one that meets no other (OrbitIntegrator).             *)
(***************************************************************************)
EXTENDS TargetAnswers, OrbitIntegrator, FiniteSetTheorems, WellFoundedInduction, TLAPS

-----------------------------------------------------------------------------
(* Sequences without repetition and first occurrences *)

\* A set of natural numbers that is not empty has a least member.
LEMMA LeastIndex == ASSUME NEW S \in SUBSET Nat, S # {} PROVE \E x \in S : \A y \in S : x <= y
<1> DEFINE Less == OpToRel(<, Nat)
<1>1. IsWellFoundedOn(Less, Nat)
  BY NatLessThanWellFounded
<1>2. \E x \in S : \A y \in S : ~(<<y, x>> \in Less)
  <2> HIDE DEF Less
  <2> QED  BY <1>1, WFMin
<1>3. \A x, y \in Nat : <<y, x>> \in Less <=> y < x
  BY DEF OpToRel
<1> HIDE DEF Less
<1>4. PICK x \in S : \A y \in S : ~(<<y, x>> \in Less)
  BY <1>2
<1>5. \A y \in S : ~(y < x)
  BY <1>3, <1>4
<1> QED  BY <1>4, <1>5

\* An order of a finite set, each member once, leaves none of them out.
LEMMA OrderIsWhole ==
  ASSUME NEW S, IsFiniteSet(S), NEW order \in SetToSeqs(S)
  PROVE  /\ Cardinality(S) \in Nat
         /\ order \in [1 .. Cardinality(S) -> S]
         /\ \A i, j \in 1 .. Cardinality(S) : i # j => order[i] # order[j]
         /\ \A s \in S : \E i \in 1 .. Cardinality(S) : order[i] = s
<1> DEFINE n == Cardinality(S)
<1>1. n \in Nat
  BY FS_CardinalityType
<1>2. order \in [1 .. n -> S] /\ (\A i, j \in 1 .. n : i # j => order[i] # order[j])
  BY DEF SetToSeqs
<1>3. order \in Injection(1 .. n, S)
  BY <1>2 DEF Injection, IsInjective
<1>4. Cardinality(1 .. n) = n
  BY <1>1, FS_Interval
<1>5. order \in Surjection(1 .. n, S)
  BY <1>3, <1>4, FS_Injection
<1>6. \A s \in S : \E i \in 1 .. n : order[i] = s
  BY <1>5 DEF Surjection
<1> QED  BY <1>1, <1>2, <1>6

\* The table keeps a target of the answer for each id of the answer, and no two
\* with one id.
LEMMA KeptOnce ==
  ASSUME NEW n \in Nat, NEW items, DOMAIN items = 1 .. n
  PROVE  /\ Kept(items) \subseteq {items[i] : i \in 1 .. n}
         /\ Ids(Kept(items)) = {items[i].id : i \in 1 .. n}
         /\ Cardinality(Kept(items)) = Cardinality(Ids(Kept(items)))
<1> DEFINE First(j) == \A k \in 1 .. j - 1 : items[k].id # items[j].id
           K == Kept(items)
           I == {items[i].id : i \in 1 .. n}
<1>1. K = {items[i] : i \in {j \in 1 .. n : First(j)}}
  BY DEF Kept
<1>2. K \subseteq {items[i] : i \in 1 .. n}
  BY <1>1
<1>3. ASSUME NEW i \in 1 .. n  PROVE \E j \in 1 .. n : First(j) /\ items[j].id = items[i].id
  <2> DEFINE Same == {k \in 1 .. n : items[k].id = items[i].id}
  <2>1. Same \in SUBSET Nat /\ i \in Same
    OBVIOUS
  <2>2. PICK j \in Same : \A k \in Same : j <= k
    BY <2>1, LeastIndex
  <2>3. ASSUME NEW k \in 1 .. j - 1  PROVE items[k].id # items[j].id
    <3>1. k \in 1 .. n /\ ~(j <= k)
      BY <2>2
    <3>2. k \notin Same
      BY <2>2, <3>1
    <3> QED  BY <2>2, <3>1, <3>2
  <2> QED  BY <2>2, <2>3
<1>4. Ids(K) = I
  <2>1. Ids(K) \subseteq I
    BY <1>2 DEF Ids
  <2>2. ASSUME NEW i \in 1 .. n  PROVE items[i].id \in Ids(K)
    <3>1. PICK j \in 1 .. n : First(j) /\ items[j].id = items[i].id
      BY <1>3
    <3>2. items[j] \in K
      BY <1>1, <3>1
    <3> QED  BY <3>1, <3>2 DEF Ids
  <2> QED  BY <2>1, <2>2
<1>5. ASSUME NEW x \in K, NEW y \in K, x.id = y.id  PROVE x = y
  <2>1. PICK i \in 1 .. n : First(i) /\ x = items[i]
    BY <1>1
  <2>2. PICK j \in 1 .. n : First(j) /\ y = items[j]
    BY <1>1
  <2>3. items[i].id = items[j].id
    BY <1>5, <2>1, <2>2
  <2>4. ~(i < j) /\ ~(j < i)
    <3>1. ASSUME i < j  PROVE FALSE
      <4>1. i \in 1 .. j - 1
        BY <3>1
      <4> QED  BY <4>1, <2>2, <2>3
    <3>2. ASSUME j < i  PROVE FALSE
      <4>1. j \in 1 .. i - 1
        BY <3>2
      <4> QED  BY <4>1, <2>1, <2>3
    <3> QED  BY <3>1, <3>2
  <2>5. i = j
    BY <2>4
  <2> QED  BY <2>1, <2>2, <2>5
<1>6. IsFiniteSet(K)
  <2>1. IsFiniteSet(1 .. n) /\ IsFiniteSet({j \in 1 .. n : First(j)})
    <3>1. IsFiniteSet(1 .. n)
      BY FS_Interval
    <3> QED  BY <3>1, FS_Subset
  <2> DEFINE F == {j \in 1 .. n : First(j)}
             f == [j \in F |-> items[j]]
  <2>2. f \in Surjection(F, K)
    BY <1>1 DEF Surjection
  <2> QED  BY <2>1, <2>2, FS_Surjection
<1>7. Cardinality(Ids(K)) = Cardinality(K)
  <2> DEFINE g == [t \in K |-> t.id]
  <2> HIDE DEF K
  <2>1. Ids(K) = {t.id : t \in K}
    BY DEF Ids
  <2>2. g \in [K -> Ids(K)]
    BY <2>1
  <2>3. g \in Bijection(K, Ids(K))
    BY <2>1, <2>2, <1>5 DEF Bijection, Injection, Surjection, IsInjective
  <2> QED  BY <2>3, <1>6, FS_Bijection DEF ExistsBijection
<1> QED  BY <1>2, <1>4, <1>7

-----------------------------------------------------------------------------
(* The inductive invariant *)

Named == Satellites \cup {NoName}
Entries == [name : Named, number : Named, orbit : Named]

(* What the parser has read is made of lines of the file.                    *)
ParserTypes ==
  /\ control \in {"down", "parsing", "parsed", "up", "stopping", "crashed"}
  /\ file \in Files /\ rest \in Seq(Line)
  /\ s1 \in Line /\ s2 \in Line /\ name \in Named
  /\ catalog \in Seq(Entries)

AnswerTypes ==
  /\ starting \in 0 .. WorkerThreads
  /\ worker \in {"idle", "asked", "copying", "gathered", "formatting"}
  /\ waiting \in BOOLEAN /\ answer.sent \in BOOLEAN
  /\ IsFiniteSet(DOMAIN expected)

(* An answer has each of the targets expected, in some order, or none.       *)
WholeAnswer(items) ==
  \/ items = << >>
  \/ \E order \in SetToSeqs(DOMAIN expected) : items = [i \in DOMAIN order |-> expected[order[i]]]

(* A worker has a request only while the server runs, stops or has crashed;  *)
(* a server that stops has no catalogue any more, and one that runs has the  *)
(* catalogue it had when the request was made.                               *)
RequestMeetsCatalog ==
  /\ worker # "idle" => control \in {"up", "stopping", "crashed"}
  /\ control = "stopping" => catalog = << >>
  /\ worker \in {"asked", "copying"} /\ control = "up" =>
       expected = [i \in Seen(area \cup undefined) |-> AsTarget(catalog[i])]

(* What the worker has gathered and what is on its way is whole, or its copy *)
(* was torn, and only a client that waits has an answer on its way.          *)
AnswersWhole ==
  /\ worker \in {"gathered", "formatting"} => torn \/ WholeAnswer(buffer)
  /\ answer.sent => waiting /\ (torn \/ WholeAnswer(answer.items))

AnswersInv ==
  /\ ParserTypes /\ AnswerTypes
  /\ RequestMeetsCatalog /\ AnswersWhole
  /\ WholeOrNothing /\ RefusalsExplained

-----------------------------------------------------------------------------
(* The parser *)

LEMMA LinesOfFiles == \A f \in Files : f \in Seq(Line)
  BY CatalogAssumption

LEMMA NoLineIsLine == None \in Line
  BY DEF None, Line, Leads

LEMMA LineParts == \A l \in Line : l.sat \in Named
  BY DEF Line, Named

LEMMA RestOfFile == \A r \in Seq(Line) : r # << >> => Head(r) \in Line /\ Tail(r) \in Seq(Line)
  OBVIOUS

LEMMA GrownCatalog == \A c \in Seq(Entries), e \in Entries : Append(c, e) \in Seq(Entries)
  OBVIOUS

\* What a line makes of the entry being read.
LEMMA WithLine ==
  ASSUME NEW l \in Line, s1 \in Line, s2 \in Line, name \in Named
  PROVE  With1(l) \in Line /\ With2(l) \in Line /\ WithName(l) \in Named /\ KEO(l) \in Entries
<1>1. With1(l) \in Line /\ With2(l) \in Line /\ WithName(l) \in Named
  BY LineParts DEF With1, With2, WithName
<1>2. With1(l).sat \in Named /\ With2(l).sat \in Named
  BY <1>1, LineParts
<1> QED  BY <1>1, <1>2 DEF KEO, Entries

\* Parsing keeps the types, and takes place between "down" and "parsed".
LEMMA ParserStep ==
  ASSUME ParserTypes, ParserNext
  PROVE  ParserTypes' /\ control \in {"down", "parsing"} /\ control' \in {"down", "parsing", "parsed"}
<1> DEFINE l == Head(rest)
<1>1. CASE BeginParse
  <2>1. file \in Seq(Line) /\ NoName \in Named
    BY LinesOfFiles DEF ParserTypes, Named
  <2> QED  BY <1>1, <2>1, NoLineIsLine DEF BeginParse, ParserTypes
<1>2. CASE SkipLine
  BY <1>2, RestOfFile DEF SkipLine, ParserTypes
<1>3. ASSUME NEW next \in {"down", "parsed"}, control = "parsing", EndParse(next), UNCHANGED <<file, catalog>>
      PROVE  ParserTypes' /\ control' = next
  <2>1. << >> \in Seq(Line) /\ NoName \in Named
    BY DEF Named
  <2> QED  BY <1>3, <2>1, NoLineIsLine DEF EndParse, ParserTypes
<1>4. CASE RepeatedLine
  BY <1>3, <1>4 DEF RepeatedLine
<1>5. CASE KeepLine
  <2>1. rest # << >> /\ control = "parsing" /\ rest' = Tail(rest) /\ UNCHANGED <<control, file, catalog>>
        /\ s1' = With1(l) /\ s2' = With2(l) /\ name' = WithName(l)
    BY <1>5 DEF KeepLine
  <2>2. l \in Line /\ Tail(rest) \in Seq(Line)
    BY <2>1, RestOfFile DEF ParserTypes
  <2>3. With1(l) \in Line /\ With2(l) \in Line /\ WithName(l) \in Named
    BY <2>2, WithLine DEF ParserTypes
  <2> HIDE DEF l
  <2> QED  BY <2>1, <2>2, <2>3 DEF ParserTypes
<1>6. CASE AddEntry
  <2>1. /\ rest # << >> /\ control = "parsing" /\ rest' = Tail(rest) /\ UNCHANGED <<control, file>>
        /\ catalog' = Append(catalog, KEO(l))
        /\ s1' = None /\ s2' = None /\ name' = NoName
    BY <1>6 DEF AddEntry, ResetEntry
  <2>2. l \in Line /\ Tail(rest) \in Seq(Line)
    BY <2>1, RestOfFile DEF ParserTypes
  <2>3. KEO(l) \in Entries
    BY <2>2, WithLine DEF ParserTypes
  <2>4. catalog' \in Seq(Entries)
    BY <2>1, <2>3, GrownCatalog DEF ParserTypes
  <2>5. NoName \in Named
    BY DEF Named
  <2> HIDE DEF l
  <2> QED  BY <2>1, <2>2, <2>4, <2>5, NoLineIsLine DEF ParserTypes
<1>7. CASE UnreadableEntry
  BY <1>3, <1>7 DEF UnreadableEntry
<1>8. CASE EndOfFile
  BY <1>3, <1>8 DEF EndOfFile
<1>9. CASE ReplaceFile
  BY <1>9 DEF ReplaceFile, ParserTypes, parserVars
<1> QED  BY <1>1, <1>2, <1>4, <1>5, <1>6, <1>7, <1>8, <1>9 DEF ParserNext

-----------------------------------------------------------------------------
(* Answers *)

\* The targets of a catalogue that the area holds are finitely many.
LEMMA SeenFinite ==
  ASSUME catalog \in Seq(Entries), NEW a
  PROVE  IsFiniteSet(Seen(a))
<1>1. Len(catalog) \in Nat /\ DOMAIN catalog = 1 .. Len(catalog)
  OBVIOUS
<1>2. IsFiniteSet(1 .. Len(catalog))
  BY <1>1, FS_Interval
<1>3. Seen(a) \in SUBSET (1 .. Len(catalog))
  BY <1>1 DEF Seen
<1> QED  BY <1>2, <1>3, FS_Subset

\* The parallel loop over the catalogue of the request gathers all of them, and
\* over a catalogue that stop() has emptied none.
LEMMA GatheredWhole ==
  ASSUME AnswersInv, Gather, ~torn
  PROVE  WholeAnswer(buffer')
<1> DEFINE seen == Seen(area \cup undefined)
<1>1. PICK order \in SetToSeqs(seen) : buffer' = [i \in DOMAIN order |-> AsTarget(catalog[order[i]])]
  BY DEF Gather
<1>2. IsFiniteSet(seen)
  BY SeenFinite DEF AnswersInv, ParserTypes
<1>3. order \in [1 .. Cardinality(seen) -> seen] /\ Cardinality(seen) \in Nat
  <2> HIDE DEF seen
  <2> QED  BY <1>1, <1>2, OrderIsWhole
<1>4. CASE control = "up"
  <2>1. expected = [i \in seen |-> AsTarget(catalog[i])]
    BY <1>4 DEF AnswersInv, RequestMeetsCatalog, Gather
  <2> HIDE DEF seen
  <2>2. DOMAIN expected = seen /\ (\A i \in seen : expected[i] = AsTarget(catalog[i]))
    BY <2>1
  <2>3. \A i \in DOMAIN order : order[i] \in seen
    BY <1>3
  <2>4. buffer' = [i \in DOMAIN order |-> expected[order[i]]]
    BY <1>1, <2>2, <2>3
  <2> QED  BY <1>1, <2>2, <2>4 DEF WholeAnswer
<1>5. CASE control = "stopping"
  <2>1. seen = {}
    BY <1>5 DEF AnswersInv, RequestMeetsCatalog, Seen
  <2> HIDE DEF seen
  <2>2. DOMAIN order = 1 .. 0
    BY <1>3, <2>1, FS_EmptySet
  <2>3. buffer' = << >>
    BY <1>1, <2>2
  <2> QED  BY <2>3 DEF WholeAnswer
<1>6. control \in {"up", "stopping"}
  BY DEF Gather, AnswersInv, RequestMeetsCatalog
<1> QED  BY <1>4, <1>5, <1>6

\* The table of a whole answer that was read
LEMMA WholeTable ==
  ASSUME NEW items, IsFiniteSet(DOMAIN expected), WholeAnswer(items), Kept(items) # {}
  PROVE  /\ Kept(items) \subseteq Expected /\ Ids(Kept(items)) = Ids(Expected)
         /\ Cardinality(Kept(items)) = Cardinality(Ids(Kept(items)))
<1>1. items # << >>
  <2>1. items = << >> => Kept(items) = {}
    BY DEF Kept
  <2> QED  BY <2>1
<1>2. PICK order \in SetToSeqs(DOMAIN expected) : items = [i \in DOMAIN order |-> expected[order[i]]]
  BY <1>1 DEF WholeAnswer
<1> DEFINE S == DOMAIN expected
           n == Cardinality(S)
<1>3. /\ n \in Nat /\ order \in [1 .. n -> S]
      /\ \A s \in S : \E i \in 1 .. n : order[i] = s
  BY <1>2, OrderIsWhole
<1>4. DOMAIN items = 1 .. n /\ (\A i \in 1 .. n : items[i] = expected[order[i]])
  BY <1>2, <1>3
<1> HIDE DEF n
<1>5. /\ Kept(items) \subseteq {items[i] : i \in 1 .. n}
      /\ Ids(Kept(items)) = {items[i].id : i \in 1 .. n}
      /\ Cardinality(Kept(items)) = Cardinality(Ids(Kept(items)))
  BY <1>3, <1>4, KeptOnce
<1>6. {items[i] : i \in 1 .. n} = Expected
  <2>1. {items[i] : i \in 1 .. n} \subseteq Expected
    BY <1>3, <1>4 DEF Expected
  <2>2. ASSUME NEW s \in S  PROVE expected[s] \in {items[i] : i \in 1 .. n}
    <3>1. PICK i \in 1 .. n : order[i] = s
      BY <1>3
    <3> QED  BY <3>1, <1>4
  <2> QED  BY <2>1, <2>2 DEF Expected
<1>7. {items[i].id : i \in 1 .. n} = Ids({items[i] : i \in 1 .. n})
  BY DEF Ids
<1> QED  BY <1>5, <1>6, <1>7

\* One with a separator missing has two targets with one id.
LEMMA UnreadHasDuplicates ==
  ASSUME NEW items, IsFiniteSet(DOMAIN expected), WholeAnswer(items), ~Separated(items)
  PROVE  \E i, j \in DOMAIN expected : i # j /\ expected[i].id = expected[j].id
<1>1. items # << >>
  <2>1. Len(<< >>) - 1 = -1
    OBVIOUS
  <2>2. items = << >> => Separated(items)
    BY <2>1 DEF Separated
  <2> QED  BY <2>2
<1>2. PICK order \in SetToSeqs(DOMAIN expected) : items = [i \in DOMAIN order |-> expected[order[i]]]
  BY <1>1 DEF WholeAnswer
<1> DEFINE S == DOMAIN expected
           n == Cardinality(S)
<1>3. /\ n \in Nat /\ order \in [1 .. n -> S]
      /\ \A i, j \in 1 .. n : i # j => order[i] # order[j]
  BY <1>2, OrderIsWhole
<1>4. DOMAIN items = 1 .. n /\ (\A i \in 1 .. n : items[i] = expected[order[i]])
  BY <1>2, <1>3
<1> HIDE DEF n
<1>5. Len(items) = n
  BY <1>3, <1>4
<1>6. PICK i \in 1 .. n - 1 : items[i].id = Last(items).id
  BY <1>5 DEF Separated
<1>7. i \in 1 .. n /\ n \in 1 .. n /\ i # n
  BY <1>3
<1>8. Last(items) = items[n]
  BY <1>5 DEF Last
<1>9. order[i] \in S /\ order[n] \in S /\ order[i] # order[n]
  BY <1>3, <1>7
<1>10. expected[order[i]].id = expected[order[n]].id
  BY <1>4, <1>6, <1>7, <1>8
<1> QED  BY <1>9, <1>10

\* One with a position that is not a number has a target without one.
LEMMA UndefinedExpected ==
  ASSUME NEW items, IsFiniteSet(DOMAIN expected), WholeAnswer(items), ~Defined(items)
  PROVE  \E i \in DOMAIN expected : expected[i].orbit \in undefined
<1>1. PICK j \in DOMAIN items : items[j].orbit \in undefined
  BY DEF Defined
<1>2. PICK order \in SetToSeqs(DOMAIN expected) : items = [i \in DOMAIN order |-> expected[order[i]]]
  <2>1. items # << >>
    BY <1>1
  <2> QED  BY <2>1 DEF WholeAnswer
<1>3. order \in [1 .. Cardinality(DOMAIN expected) -> DOMAIN expected]
  BY <1>2, OrderIsWhole
<1>4. j \in DOMAIN order /\ items[j] = expected[order[j]] /\ order[j] \in DOMAIN expected
  BY <1>1, <1>2, <1>3
<1> QED  BY <1>1, <1>4

-----------------------------------------------------------------------------
(* The steps *)

\* What is said of answers depends on what was expected, sent and returned alone,
\* and holds the more when the process is damaged.
LEMMA AnswersKept ==
  ASSUME UNCHANGED <<undefined, expected, buffer, answer, clientVars>>, torn => torn',
         worker' \in {"gathered", "formatting"} => worker \in {"gathered", "formatting"},
         AnswersWhole, WholeOrNothing, RefusalsExplained
  PROVE  AnswersWhole' /\ WholeOrNothing' /\ RefusalsExplained'
<1> USE DEF clientVars
<1>1. WholeAnswer(buffer)' <=> WholeAnswer(buffer)
  BY DEF WholeAnswer
<1>2. WholeAnswer(answer.items)' <=> WholeAnswer(answer.items)
  BY DEF WholeAnswer
<1>3. AnswersWhole'
  BY <1>1, <1>2 DEF AnswersWhole
<1>4. WholeOrNothing'
  BY DEF WholeOrNothing, Expected
<1>5. RefusalsExplained'
  BY DEF RefusalsExplained
<1> QED  BY <1>3, <1>4, <1>5

\* Starting or stopping the server, or its workers, makes no answer.
LEMMA ServerStep ==
  ASSUME AnswersAssumption, AnswersInv,
         \/ Parse \/ NoFile \/ StartFails \/ Started \/ WorkerStarts \/ Stop \/ Joined
         \/ CrashDamaged \/ NewProcess
  PROVE  AnswersInv'
<1> USE DEF AnswersInv
<1>1. CASE Parse
  <2>1. ParserTypes' /\ control \in {"down", "parsing"} /\ control' \in {"down", "parsing", "parsed"}
    BY <1>1, ParserStep DEF Parse
  <2>2. worker = "idle" /\ UNCHANGED <<starting, answerVars>>
    BY <1>1, <2>1 DEF Parse, RequestMeetsCatalog
  <2>3. RequestMeetsCatalog' /\ AnswerTypes'
    BY <2>1, <2>2 DEF RequestMeetsCatalog, AnswerTypes, answerVars, clientVars
  <2> QED  BY <2>1, <2>2, <2>3, AnswersKept DEF answerVars
<1>2. CASE NoFile
  <2>1. ParserTypes' /\ AnswerTypes'
    BY <1>2 DEF NoFile, ParserTypes, AnswerTypes, serverVars, parserVars, answerVars, clientVars
  <2>2. RequestMeetsCatalog'
    BY <1>2 DEF NoFile, RequestMeetsCatalog, serverVars, answerVars
  <2> QED  BY <1>2, <2>1, <2>2, AnswersKept DEF NoFile, answerVars
<1>3. CASE StartFails
  <2>1. ParserTypes' /\ AnswerTypes' /\ RequestMeetsCatalog'
    BY <1>3 DEF StartFails, ParserTypes, AnswerTypes, RequestMeetsCatalog, parserVars, answerVars, clientVars
  <2> QED  BY <1>3, <2>1, AnswersKept DEF StartFails, answerVars
<1>4. CASE Started
  <2>1. ParserTypes' /\ AnswerTypes' /\ RequestMeetsCatalog'
    BY <1>4, AnswersAssumption
       DEF Started, ParserTypes, AnswerTypes, RequestMeetsCatalog, parserVars, answerVars, clientVars
  <2> QED  BY <1>4, <2>1, AnswersKept DEF Started, answerVars
<1>5. CASE WorkerStarts
  <2>1. starting' \in 0 .. WorkerThreads
    BY <1>5, AnswersAssumption DEF WorkerStarts, AnswerTypes
  <2>2. ParserTypes' /\ AnswerTypes'
    BY <1>5, <2>1 DEF WorkerStarts, ParserTypes, AnswerTypes, parserVars, answerVars, clientVars
  <2>3. RequestMeetsCatalog'
    BY <1>5 DEF WorkerStarts, RequestMeetsCatalog, Seen, answerVars
  <2> QED  BY <1>5, <2>2, <2>3, AnswersKept DEF WorkerStarts, answerVars
<1>6. CASE Stop
  <2>1. ParserTypes' /\ AnswerTypes'
    <3>1. << >> \in Seq(Entries)
      OBVIOUS
    <3> QED  BY <1>6, <3>1 DEF Stop, ParserTypes, AnswerTypes, parserVars, clientVars
  <2>2. RequestMeetsCatalog'
    BY <1>6 DEF Stop, RequestMeetsCatalog
  <2> QED  BY <1>6, <2>1, <2>2, AnswersKept DEF Stop
<1>7. CASE Joined
  <2>1. ParserTypes' /\ AnswerTypes'
    BY <1>7 DEF Joined, ParserTypes, AnswerTypes, parserVars, clientVars
  <2>2. RequestMeetsCatalog'
    BY <1>7 DEF Joined, RequestMeetsCatalog
  <2> QED  BY <1>7, <2>1, <2>2, AnswersKept DEF Joined
<1>8. CASE CrashDamaged
  <2>1. ParserTypes' /\ AnswerTypes' /\ RequestMeetsCatalog'
    BY <1>8 DEF CrashDamaged, ParserTypes, AnswerTypes, RequestMeetsCatalog, parserVars, answerVars, clientVars
  <2> QED  BY <1>8, <2>1, AnswersKept DEF CrashDamaged, answerVars
<1>9. CASE NewProcess
  <2>1. ParserTypes'
    <3>1. << >> \in Seq(Entries) /\ << >> \in Seq(Line) /\ NoName \in Named
      BY DEF Named
    <3> QED  BY <1>9, <3>1, NoLineIsLine DEF NewProcess, ParserTypes
  <2>2. AnswerTypes' /\ RequestMeetsCatalog'
    BY <1>9, AnswersAssumption DEF NewProcess, AnswerTypes, RequestMeetsCatalog, clientVars
  <2>3. WholeAnswer(answer.items)' <=> WholeAnswer(answer.items)
    BY <1>9 DEF NewProcess, WholeAnswer
  <2>4. AnswersWhole'
    BY <1>9, <2>3 DEF NewProcess, AnswersWhole, clientVars
  <2>5. WholeOrNothing' /\ RefusalsExplained'
    BY <1>9 DEF NewProcess, WholeOrNothing, RefusalsExplained, Expected, clientVars
  <2> QED  BY <2>1, <2>2, <2>4, <2>5
<1> QED  BY <1>1, <1>2, <1>3, <1>4, <1>5, <1>6, <1>7, <1>8, <1>9

\* A worker copies, gathers, formats and sends.
LEMMA WorkerStep ==
  ASSUME AnswersInv, BeginCopy \/ Gather \/ SetLocale \/ Format \/ CrashOnEmpty
  PROVE  AnswersInv'
<1> USE DEF AnswersInv
<1>1. UNCHANGED <<file, rest, s1, s2, name, catalog, starting, undefined, torn, expected, clientVars>>
  BY DEF BeginCopy, Gather, SetLocale, Format, CrashOnEmpty, serverVars, parserVars, answerVars
<1>2. control' \in {control, "crashed"} /\ worker # "idle"
  BY DEF BeginCopy, Gather, SetLocale, Format, CrashOnEmpty, serverVars
<1>3. WholeOrNothing' /\ RefusalsExplained' /\ ParserTypes'
  BY <1>1, <1>2 DEF WholeOrNothing, RefusalsExplained, Expected, ParserTypes, clientVars
<1>4. worker' \in {"idle", "copying", "gathered", "formatting"}
      /\ (worker' = "copying" => worker = "asked" /\ area' = area)
  <2>1. BeginCopy => worker' = "copying" /\ worker = "asked" /\ area' = area
    BY DEF BeginCopy
  <2>2. Gather => worker' = "gathered"
    BY DEF Gather
  <2>3. SetLocale => worker' = "formatting"
    BY DEF SetLocale
  <2>4. Format => worker' = "idle"
    BY DEF Format
  <2>5. CrashOnEmpty => worker' = "formatting"
    BY DEF CrashOnEmpty, answerVars
  <2> QED  BY <2>1, <2>2, <2>3, <2>4, <2>5
<1>5. RequestMeetsCatalog'
  <2>1. control' = "up" => control = "up"
    BY <1>2
  <2>2. control' = "stopping" => catalog' = << >>
    BY <1>1, <1>2 DEF RequestMeetsCatalog
  <2>3. worker' # "idle" => control' \in {"up", "stopping", "crashed"}
    BY <1>2 DEF RequestMeetsCatalog
  <2>4. ASSUME worker' = "copying", control' = "up"
        PROVE  expected' = [i \in Seen(area \cup undefined) |-> AsTarget(catalog[i])] /\ area' = area
    BY <1>1, <1>4, <2>1, <2>4 DEF RequestMeetsCatalog
  <2>5. worker' \in {"asked", "copying"} /\ control' = "up" =>
          expected' = [i \in Seen(area' \cup undefined') |-> AsTarget(catalog[i])]
    BY <1>1, <1>4, <2>4
  <2> QED  BY <1>1, <2>2, <2>3, <2>5 DEF RequestMeetsCatalog, Seen, AsTarget
<1>6. \A items : WholeAnswer(items) =>
         (items = << >> \/ \E order \in SetToSeqs(DOMAIN expected') :
                              items = [i \in DOMAIN order |-> expected'[order[i]]])
  BY <1>1 DEF WholeAnswer
<1>7. AnswersWhole' /\ answer'.sent \in BOOLEAN
  <2> USE DEF clientVars
  <2>1. CASE BeginCopy
    BY <2>1, <1>1, AnswersKept DEF BeginCopy, AnswerTypes
  <2>2. CASE Gather
    <3>1. (torn \/ WholeAnswer(buffer')) /\ answer' = answer
      BY <2>2, GatheredWhole DEF Gather
    <3>2. torn' \/ WholeAnswer(buffer)'
      BY <3>1, <1>1 DEF WholeAnswer
    <3>3. WholeAnswer(answer.items)' <=> WholeAnswer(answer.items)
      BY <3>1, <1>1 DEF WholeAnswer
    <3> QED  BY <3>1, <3>2, <3>3, <1>1 DEF AnswersWhole, AnswerTypes
  <2>3. CASE SetLocale
    <3>1. worker = "gathered" /\ UNCHANGED <<buffer, answer>>
      BY <2>3 DEF SetLocale
    <3> QED  BY <3>1, <1>1, AnswersKept DEF AnswerTypes
  <2>4. CASE Format
    <3>1. CASE waiting
      <4>1. /\ answer'.items = buffer /\ answer'.sent = TRUE /\ worker' = "idle"
            /\ torn \/ WholeAnswer(buffer)
        BY <2>4, <3>1 DEF Format, AnswersWhole
      <4> QED  BY <4>1, <3>1, <1>1, <1>6 DEF AnswersWhole, WholeAnswer
    <3>2. CASE ~waiting
      <4>1. answer' = answer /\ worker' = "idle"
        BY <2>4, <3>2 DEF Format
      <4> QED  BY <4>1, <3>2, <1>1 DEF AnswersWhole, AnswerTypes
    <3> QED  BY <3>1, <3>2
  <2>5. CASE CrashOnEmpty
    <3>1. worker' = worker /\ UNCHANGED <<buffer, answer>>
      BY <2>5 DEF CrashOnEmpty, answerVars
    <3> QED  BY <3>1, <1>1, AnswersKept DEF AnswerTypes
  <2> QED  BY <2>1, <2>2, <2>3, <2>4, <2>5
<1>8. AnswerTypes'
  BY <1>1, <1>4, <1>7 DEF AnswerTypes, clientVars
<1> QED  BY <1>3, <1>5, <1>7, <1>8

\* A call begins: what is expected is what the catalogue has now.
LEMMA AskStep ==
  ASSUME AnswersInv, NEW a \in Areas, NEW u \in Placeless, Ask(a, u)
  PROVE  AnswersInv'
<1> USE DEF AnswersInv
<1>1. UNCHANGED <<control, file, rest, s1, s2, name, catalog, starting, buffer, answer, code, table>>
      /\ waiting' = TRUE /\ worker' = "asked" /\ area' = a /\ undefined' = u /\ ~waiting /\ control = "up"
      /\ expected' = [i \in Seen(a \cup u) |-> AsTarget(catalog[i])]
  BY DEF Ask, serverVars, parserVars
<1>2. ParserTypes'
  BY <1>1 DEF ParserTypes
<1>3. IsFiniteSet(Seen(a \cup u)) /\ DOMAIN expected' = Seen(a \cup u)
  BY <1>1, SeenFinite DEF ParserTypes
<1>4. AnswerTypes'
  BY <1>1, <1>3 DEF AnswerTypes
<1>5. RequestMeetsCatalog'
  BY <1>1 DEF RequestMeetsCatalog, Seen, AsTarget
<1>6. AnswersWhole'
  <2>1. ~answer.sent
    BY <1>1 DEF AnswersWhole, AnswerTypes
  <2> QED  BY <1>1, <2>1 DEF AnswersWhole
<1>7. WholeOrNothing' /\ RefusalsExplained'
  BY <1>1 DEF WholeOrNothing, RefusalsExplained
<1> QED  BY <1>2, <1>4, <1>5, <1>6, <1>7

\* A call returns: with the whole answer, with none, or with a reason.
LEMMA ReturnStep ==
  ASSUME AnswersInv, AnswerUnread \/ AnswerOverrun \/ AnswerRead \/ ConnectionLost
  PROVE  AnswersInv'
<1> USE DEF AnswersInv
<1>1. UNCHANGED <<control, file, rest, s1, s2, name, catalog, starting, worker, area, undefined, torn,
                  expected, buffer>>
      /\ waiting' = FALSE /\ answer' = NoAnswer /\ comma' = answer.comma
  BY DEF AnswerUnread, AnswerOverrun, AnswerRead, ConnectionLost, Return, serverVars, parserVars
<1>2. ParserTypes' /\ AnswerTypes' /\ RequestMeetsCatalog'
  <2>1. ParserTypes'
    BY <1>1 DEF ParserTypes
  <2>2. AnswerTypes'
    BY <1>1 DEF AnswerTypes, NoAnswer
  <2>3. RequestMeetsCatalog'
    BY <1>1 DEF RequestMeetsCatalog, Seen
  <2> QED  BY <2>1, <2>2, <2>3
<1>3. AnswersWhole'
  <2>1. answer'.sent = FALSE
    BY <1>1 DEF NoAnswer
  <2>2. WholeAnswer(buffer)' <=> WholeAnswer(buffer)
    BY <1>1 DEF WholeAnswer
  <2> QED  BY <1>1, <2>1, <2>2 DEF AnswersWhole
<1>4. WholeOrNothing'
  <2>1. CASE AnswerRead
    <3>1. table' = Kept(answer.items) /\ code' = "OK" /\ (torn \/ WholeAnswer(answer.items))
      BY <2>1 DEF AnswerRead, Return, AnswersWhole
    <3>2. CASE Kept(answer.items) # {} /\ ~torn
      <4>1. /\ Kept(answer.items) \subseteq Expected /\ Ids(Kept(answer.items)) = Ids(Expected)
            /\ Cardinality(Kept(answer.items)) = Cardinality(Ids(Kept(answer.items)))
        BY <3>1, <3>2, WholeTable DEF AnswerTypes
      <4> QED  BY <1>1, <3>1, <4>1 DEF WholeOrNothing, Expected
    <3>3. CASE Kept(answer.items) = {} \/ torn
      BY <1>1, <3>1, <3>3 DEF WholeOrNothing
    <3> QED  BY <3>2, <3>3
  <2>2. CASE AnswerUnread
    BY <2>2 DEF AnswerUnread, Return, WholeOrNothing
  <2>3. CASE AnswerOverrun \/ ConnectionLost
    BY <2>3 DEF AnswerOverrun, ConnectionLost, Return, WholeOrNothing
  <2> QED  BY <2>1, <2>2, <2>3
<1>5. RefusalsExplained'
  <2>1. CASE AnswerUnread
    <3>1. /\ torn \/ WholeAnswer(answer.items)
          /\ ~Separated(answer.items) \/ ~Defined(answer.items) \/ answer.comma
      BY <2>1 DEF AnswerUnread, AnswersWhole
    <3>2. \/ \E i, j \in DOMAIN expected : i # j /\ expected[i].id = expected[j].id
          \/ \E i \in DOMAIN expected : expected[i].orbit \in undefined
          \/ answer.comma
          \/ torn
      BY <3>1, UnreadHasDuplicates, UndefinedExpected DEF AnswerTypes
    <3> QED  BY <1>1, <3>2 DEF RefusalsExplained
  <2>2. CASE AnswerRead \/ AnswerOverrun \/ ConnectionLost
    BY <2>2 DEF AnswerRead, AnswerOverrun, ConnectionLost, Return, RefusalsExplained
  <2> QED  BY <2>1, <2>2
<1> QED  BY <1>2, <1>3, <1>4, <1>5

-----------------------------------------------------------------------------
(* Theorems *)

LEMMA AnswersStart == AnswersInit => AnswersInv
<1> SUFFICES ASSUME AnswersInit  PROVE AnswersInv
  OBVIOUS
<1>1. ParserTypes
  <2>1. << >> \in Seq(Line) /\ << >> \in Seq(Entries) /\ NoName \in Named
    BY DEF Named
  <2> QED  BY <2>1, NoLineIsLine DEF AnswersInit, CatalogInit, ParserTypes
<1>2. AnswerTypes
  <2>1. DOMAIN << >> = {}
    OBVIOUS
  <2>2. IsFiniteSet(DOMAIN expected)
    BY <2>1, FS_EmptySet DEF AnswersInit
  <2>3. starting \in 0 .. WorkerThreads
    BY AnswersAssumption DEF AnswersInit
  <2>4. answer.sent = FALSE /\ waiting = FALSE /\ worker = "idle"
    BY DEF AnswersInit, NoAnswer
  <2> QED  BY <2>2, <2>3, <2>4 DEF AnswerTypes
<1>3. RequestMeetsCatalog /\ AnswersWhole /\ WholeOrNothing /\ RefusalsExplained
  BY DEF AnswersInit, CatalogInit, NoAnswer,
         RequestMeetsCatalog, AnswersWhole, WholeOrNothing, RefusalsExplained
<1> QED  BY <1>1, <1>2, <1>3 DEF AnswersInv

LEMMA AnswersStutter == AnswersInv /\ UNCHANGED allVars => AnswersInv'
<1> SUFFICES ASSUME AnswersInv, UNCHANGED allVars  PROVE AnswersInv'
  OBVIOUS
<1> USE DEF AnswersInv, allVars, serverVars, parserVars, answerVars, clientVars
<1>1. ParserTypes' /\ AnswerTypes'
  BY DEF ParserTypes, AnswerTypes
<1>2. RequestMeetsCatalog'
  BY DEF RequestMeetsCatalog, Seen, AsTarget
<1>3. WholeAnswer(buffer)' <=> WholeAnswer(buffer)
  BY DEF WholeAnswer
<1>4. WholeAnswer(answer.items)' <=> WholeAnswer(answer.items)
  BY DEF WholeAnswer
<1>5. AnswersWhole'
  BY <1>3, <1>4 DEF AnswersWhole
<1>6. WholeOrNothing' /\ RefusalsExplained'
  BY DEF WholeOrNothing, RefusalsExplained, Expected
<1> QED  BY <1>1, <1>2, <1>5, <1>6

(* The invariant from which the two theorems below follow, through every     *)
(* start, stop and crash of the server while a client's request is under way. *)
THEOREM AnswersInvariant == AnswersSpec => []AnswersInv
<1>1. AnswersInit => AnswersInv
  BY AnswersStart
<1>2. AnswersInv /\ [AnswersNext]_allVars => AnswersInv'
  BY ServerStep, WorkerStep, AskStep, ReturnStep, AnswersStutter, AnswersAssumption DEF AnswersNext
<1> QED  BY <1>1, <1>2, PTL DEF AnswersSpec

(* A call of Client::get_targets that returns OK has left in the table all    *)
(* the targets the area had when it was asked for, once each, or none, and    *)
(* one that returns RequestFail none, unless Server::stop has cleared the     *)
(* catalogue while the process was copying it.                                *)
THEOREM TableWhole == AnswersSpec => []WholeOrNothing
<1>1. AnswersInv => WholeOrNothing
  BY DEF AnswersInv
<1> QED  BY <1>1, AnswersInvariant, PTL

(* An answer of Server::process_request that Client::deserialize cannot read  *)
(* was made from a catalogue that holds a satellite twice, or one with a      *)
(* position that is not a number, or with a decimal comma, or by a process    *)
(* whose catalogue was cleared while it was copied.                           *)
THEOREM RefusalsHaveCauses == AnswersSpec => []RefusalsExplained
<1>1. AnswersInv => RefusalsExplained
  BY DEF AnswersInv
<1> QED  BY <1>1, AnswersInvariant, PTL

-----------------------------------------------------------------------------
(* What the parser has made of the lines before the point it has reached *)

Point == Len(file) - Len(rest)

RestAhead == Len(rest) <= Len(file) /\ \A i \in DOMAIN rest : rest[i] = file[Point + i]

\* The line the entry being read holds, none being 0, is the last one with elements.
Holds(h) ==
  /\ \/ h = 0 /\ s1 = None /\ s2 = None
     \/ h # 0 /\ file[h].lead = "1" /\ s1 = file[h] /\ s2 = None
     \/ h # 0 /\ file[h].lead = "2" /\ s2 = file[h] /\ s1 = None
  /\ h # 0 => \A j \in h + 1 .. Point : ~Element(file[j])

\* Those before it are of entries that are complete.
PairsRead(h) ==
  \A j \in 1 .. Point : j # h /\ Element(file[j]) =>
    \E k \in 1 .. Point :
      k # h /\ Element(file[k]) /\ file[k].lead # file[j].lead /\ file[k].sat = file[j].sat

\* The name was read after them.
NameRead(h) ==
  name # NoName =>
    \E m \in 1 .. Point :
      /\ file[m].lead = "other" /\ file[m].sat = name
      /\ \A j \in m .. Point : Element(file[j]) => j = h

Reading == \E h \in 0 .. Point : Holds(h) /\ PairsRead(h) /\ NameRead(h)

MatchInv ==
  /\ ElementsMatched
  /\ control = "parsing" => RestAhead /\ (clean => ElementSets(file) /\ Reading)

\* The next line is the one at the point.
LEMMA LineAhead ==
  ASSUME ParserTypes, RestAhead, rest # << >>, rest' = Tail(rest), file' = file
  PROVE  /\ Point \in Nat /\ Point + 1 \in DOMAIN file /\ Head(rest) = file[Point + 1]
         /\ Head(rest) \in Line /\ Point' = Point + 1 /\ RestAhead'
         /\ DOMAIN file = 1 .. Len(file) /\ Len(file) \in Nat /\ Point + 1 <= Len(file)
         /\ \A j \in DOMAIN file : file[j] \in Line
<1>1. file \in Seq(Line) /\ rest \in Seq(Line)
  BY LinesOfFiles DEF ParserTypes
<1>2. /\ Len(rest) \in Nat /\ Len(file) \in Nat /\ Len(rest) > 0 /\ Len(rest) <= Len(file)
      /\ DOMAIN rest = 1 .. Len(rest) /\ DOMAIN file = 1 .. Len(file) /\ Head(rest) = rest[1]
      /\ Len(Tail(rest)) = Len(rest) - 1 /\ DOMAIN Tail(rest) = 1 .. Len(rest) - 1
      /\ \A i \in 1 .. Len(rest) - 1 : Tail(rest)[i] = rest[i + 1]
  BY <1>1 DEF RestAhead
<1>3. Point \in Nat /\ Point + 1 \in DOMAIN file /\ Head(rest) = file[Point + 1] /\ Head(rest) \in Line
      /\ Point + 1 <= Len(file)
  BY <1>1, <1>2 DEF RestAhead, Point
<1>4. Point' = Point + 1 /\ Len(rest') = Len(rest) - 1
  BY <1>2 DEF Point
<1>5. ASSUME NEW i \in DOMAIN rest'  PROVE rest'[i] = file[Point + 1 + i]
  <2>1. i \in 1 .. Len(rest) - 1 /\ rest'[i] = rest[i + 1]
    BY <1>2
  <2>2. rest[i + 1] = file[Point + (i + 1)]
    BY <1>2, <2>1 DEF RestAhead
  <2>3. Point + (i + 1) = Point + 1 + i
    BY <1>3, <2>1
  <2> QED  BY <2>1, <2>2, <2>3
<1>6. RestAhead'
  <2>1. \A i \in DOMAIN rest' : rest'[i] = file'[Point' + i]
    BY <1>4, <1>5
  <2>2. Len(rest') <= Len(file')
    BY <1>2, <1>4
  <2> QED  BY <2>1, <2>2 DEF RestAhead
<1> QED  BY <1>1, <1>2, <1>3, <1>4, <1>6

\* A line that completes an entry is of the satellite of the line before it, and so
\* is the name.
LEMMA SetCompleted ==
  ASSUME NEW f \in Seq(Line), ElementSets(f), NEW p \in Nat, p + 1 \in DOMAIN f,
         NEW h \in 1 .. p, Element(f[h]), Element(f[p + 1]), f[h].lead # f[p + 1].lead,
         \A j \in h + 1 .. p : ~Element(f[j]),
         \A j \in 1 .. p : j # h /\ Element(f[j]) =>
           \E k \in 1 .. p : k # h /\ Element(f[k]) /\ f[k].lead # f[j].lead /\ f[k].sat = f[j].sat
  PROVE  f[h].sat = f[p + 1].sat
<1>0. DOMAIN f = 1 .. Len(f) /\ Len(f) \in Nat /\ h \in DOMAIN f
  OBVIOUS
\* The other line of the satellite of h is not before h
<1>1. ASSUME NEW j \in DOMAIN f, Element(f[j]), f[j].lead # f[h].lead, f[j].sat = f[h].sat
      PROVE  f[p + 1].sat = f[h].sat
  <2>1. CASE j <= p
    <3>1. PICK k \in 1 .. p : k # h /\ Element(f[k]) /\ f[k].lead # f[j].lead /\ f[k].sat = f[j].sat
      BY <1>0, <1>1, <2>1
    <3>2. f[k].lead = f[h].lead /\ k \in DOMAIN f
      BY <1>0, <1>1, <3>1 DEF Element
    <3> QED  BY <1>0, <1>1, <3>1, <3>2 DEF ElementSets, Together
  <2>2. CASE j > p
    <3>1. p + 1 \in h .. j
      BY <1>0, <2>2
    <3>2. Told(f[h]) /\ Told(f[p + 1]) /\ Told(f[j])
      BY <1>1 DEF Told
    <3> QED  BY <1>0, <1>1, <3>1, <3>2 DEF ElementSets, Together
  <2> QED  BY <1>0, <2>1, <2>2
<1>2. CASE f[h].lead = "1"
  <2>1. f[p + 1].lead = "2"
    BY <1>2 DEF Element
  <2>2. CASE \E k \in DOMAIN f : f[k].lead = "2" /\ f[k].sat = f[h].sat
    BY <1>1, <1>2, <2>2 DEF Element
  <2>3. CASE ~\E k \in DOMAIN f : f[k].lead = "2" /\ f[k].sat = f[h].sat
    <3>1. PICK k \in h + 1 .. p + 1 - 1 : f[k].lead = "1"
      BY <1>0, <1>2, <2>1, <2>3 DEF ElementSets, SecondLinesLost
    <3>2. k \in h + 1 .. p /\ Element(f[k])
      BY <3>1 DEF Element
    <3> QED  BY <3>2
  <2> QED  BY <2>2, <2>3
<1>3. CASE f[h].lead = "2"
  <2>1. PICK k \in DOMAIN f : f[k].lead = "1" /\ f[k].sat = f[h].sat
    BY <1>0, <1>3 DEF ElementSets, FirstLinesKept
  <2> QED  BY <1>1, <1>3, <2>1 DEF Element
<1> QED  BY <1>2, <1>3 DEF Element

LEMMA NameMatches ==
  ASSUME NEW f \in Seq(Line), ElementSets(f), NEW p \in Nat, p + 1 \in DOMAIN f,
         NEW h \in 1 .. p, Element(f[p + 1]), f[h].sat = f[p + 1].sat,
         NEW m \in 1 .. p, f[m].lead = "other", f[m].sat # NoName,
         \A j \in m .. p : Element(f[j]) => j = h
  PROVE  f[m].sat = f[p + 1].sat
<1>0. DOMAIN f = 1 .. Len(f) /\ Len(f) \in Nat /\ m \in DOMAIN f
  OBVIOUS
<1>1. PICK j \in DOMAIN f : m < j /\ Element(f[j]) /\ f[j].sat = f[m].sat
  BY <1>0 DEF ElementSets, NamesBefore
<1>2. CASE j <= p
  <2>1. j = h
    BY <1>0, <1>1, <1>2
  <2> QED  BY <1>1, <2>1
<1>3. CASE j > p
  <2>1. p + 1 \in m .. j
    BY <1>0, <1>3
  <2>2. Told(f[m]) /\ Told(f[p + 1]) /\ Told(f[j])
    BY <1>1 DEF Told
  <2>3. f[p + 1].sat = f[m].sat
    BY <1>0, <1>1, <2>1, <2>2 DEF ElementSets, Together
  <2> QED  BY <2>3
<1> QED  BY <1>0, <1>2, <1>3

\* A line without elements leaves the entry as it was, but for a name.
LEMMA OtherLineRead ==
  ASSUME ParserTypes, RestAhead, rest # << >>, rest' = Tail(rest), file' = file, Reading,
         UNCHANGED <<s1, s2>>, ~Element(Head(rest)),
         \/ name' = name
         \/ Head(rest).lead = "other" /\ name' = Head(rest).sat
  PROVE  Reading'
<1>1. /\ Point \in Nat /\ Point + 1 \in DOMAIN file /\ Head(rest) = file[Point + 1] /\ Point' = Point + 1
  BY LineAhead
<1>2. PICK h \in 0 .. Point : Holds(h) /\ PairsRead(h) /\ NameRead(h)
  BY DEF Reading
<1>3. h \in 0 .. Point'
  BY <1>1
<1>4. \A j \in 1 .. Point + 1 : Element(file[j]) => j \in 1 .. Point
  BY <1>1
<1>5. Holds(h)'
  <2>1. ASSUME h # 0, NEW j \in h + 1 .. Point + 1  PROVE ~Element(file[j])
    BY <1>1, <1>2, <1>4, <2>1 DEF Holds
  <2> QED  BY <1>1, <1>2, <2>1 DEF Holds, Element
<1>6. PairsRead(h)'
  <2>1. ASSUME NEW j \in 1 .. Point + 1, j # h, Element(file[j])
        PROVE  \E k \in 1 .. Point + 1 :
                 k # h /\ Element(file[k]) /\ file[k].lead # file[j].lead /\ file[k].sat = file[j].sat
    <3>1. PICK k \in 1 .. Point :
            k # h /\ Element(file[k]) /\ file[k].lead # file[j].lead /\ file[k].sat = file[j].sat
      BY <1>2, <1>4, <2>1 DEF PairsRead
    <3> QED  BY <1>1, <3>1
  <2> QED  BY <1>1, <2>1 DEF PairsRead, Element
<1>7. NameRead(h)'
  <2>1. ASSUME NEW m \in 1 .. Point + 1, file[m].lead = "other", file[m].sat = name',
               \A j \in m .. Point + 1 : Element(file[j]) => j = h
        PROVE  NameRead(h)'
    BY <1>1, <2>1 DEF NameRead, Element
  <2>2. CASE name' = NoName
    BY <2>2 DEF NameRead
  <2>3. CASE Head(rest).lead = "other" /\ name' = Head(rest).sat
    <3>1. \A j \in Point + 1 .. Point + 1 : ~Element(file[j])
      BY <1>1, <1>4
    <3> QED  BY <1>1, <2>1, <2>3, <3>1
  <2>4. CASE name' = name /\ name # NoName
    <3>1. PICK m \in 1 .. Point :
            /\ file[m].lead = "other" /\ file[m].sat = name
            /\ \A j \in m .. Point : Element(file[j]) => j = h
      BY <1>2, <2>4 DEF NameRead
    <3>2. \A j \in m .. Point + 1 : Element(file[j]) => j = h
      BY <1>1, <1>4, <3>1
    <3> QED  BY <1>1, <2>1, <2>4, <3>1, <3>2
  <2> QED  BY <2>2, <2>3, <2>4
<1> QED  BY <1>3, <1>5, <1>6, <1>7 DEF Reading

\* A line with elements begins an entry that has none yet.
LEMMA ElementLineRead ==
  ASSUME ParserTypes, RestAhead, rest # << >>, rest' = Tail(rest), file' = file, Reading,
         Element(Head(rest)), ~Repeated(Head(rest)), ~Complete(Head(rest)),
         s1' = With1(Head(rest)), s2' = With2(Head(rest)), name' = name
  PROVE  Reading'
<1> DEFINE l == Head(rest)
<1>1. /\ Point \in Nat /\ Point + 1 \in DOMAIN file /\ l = file[Point + 1] /\ Point' = Point + 1
  BY LineAhead
<1>2. PICK h \in 0 .. Point : Holds(h) /\ PairsRead(h) /\ NameRead(h)
  BY DEF Reading
<1>3. l.lead # "#" /\ l # None
  BY DEF Element, None
<1>4. h = 0
  <2>1. ASSUME h # 0  PROVE FALSE
    <3>1. file[h] # None
      BY <1>2, <2>1 DEF Holds, None
    <3> QED  BY <1>2, <1>3, <2>1, <3>1 DEF Holds, Element, Repeated, Complete, With1, With2
  <2> QED  BY <2>1
<1>5. PICK q \in Nat : q = Point + 1
  BY <1>1
<1>6. Holds(q)'
  <2>1. s1 = None /\ s2 = None
    BY <1>2, <1>4 DEF Holds
  <2>2. \/ file[q].lead = "1" /\ s1' = file[q] /\ s2' = None
        \/ file[q].lead = "2" /\ s2' = file[q] /\ s1' = None
    BY <1>1, <1>5, <2>1 DEF Element, With1, With2
  <2> QED  BY <1>1, <1>5, <2>2 DEF Holds
<1>7. PairsRead(q)'
  <2>1. ASSUME NEW j \in 1 .. Point + 1, j # q, Element(file[j])
        PROVE  \E k \in 1 .. Point + 1 :
                 k # q /\ Element(file[k]) /\ file[k].lead # file[j].lead /\ file[k].sat = file[j].sat
    <3>1. j \in 1 .. Point /\ j # h
      BY <1>1, <1>4, <1>5, <2>1
    <3>2. PICK k \in 1 .. Point :
            k # h /\ Element(file[k]) /\ file[k].lead # file[j].lead /\ file[k].sat = file[j].sat
      BY <1>2, <2>1, <3>1 DEF PairsRead
    <3> QED  BY <1>1, <1>5, <3>2
  <2> QED  BY <1>1, <2>1 DEF PairsRead, Element
<1>8. NameRead(q)'
  <2>1. CASE name = NoName
    BY <2>1 DEF NameRead
  <2>2. CASE name # NoName
    <3>1. PICK m \in 1 .. Point :
            /\ file[m].lead = "other" /\ file[m].sat = name
            /\ \A j \in m .. Point : Element(file[j]) => j = h
      BY <1>2, <2>2 DEF NameRead
    <3>2. \A j \in m .. Point + 1 : Element(file[j]) => j = q
      <4>1. ASSUME NEW j \in m .. Point + 1, Element(file[j]), j # q  PROVE FALSE
        <5>1. j \in m .. Point /\ j >= 1
          BY <1>1, <1>5, <3>1, <4>1
        <5> QED  BY <1>4, <3>1, <4>1, <5>1
      <4> QED  BY <4>1
    <3>3. m \in 1 .. Point + 1
      BY <1>1
    <3> QED  BY <1>1, <3>1, <3>2, <3>3 DEF NameRead, Element
  <2> QED  BY <2>1, <2>2
<1>9. q \in 0 .. Point'
  BY <1>1, <1>5
<1> QED  BY <1>6, <1>7, <1>8, <1>9 DEF Reading

\* The line that completes an entry is of the satellite of the entry's other line
\* and of its name.
LEMMA EntryRead ==
  ASSUME ParserTypes, RestAhead, rest # << >>, rest' = Tail(rest), file' = file, Reading,
         ElementSets(file), ~Skipped(Head(rest)), ~Repeated(Head(rest)), Complete(Head(rest)),
         s1' = None, s2' = None, name' = NoName
  PROVE  /\ Reading'
         /\ KEO(Head(rest)).number = KEO(Head(rest)).orbit
         /\ KEO(Head(rest)).name \in {KEO(Head(rest)).number, NoName}
<1> DEFINE l == Head(rest)
<1>1. /\ Point \in Nat /\ Point + 1 \in DOMAIN file /\ l = file[Point + 1] /\ Point' = Point + 1
      /\ file \in Seq(Line) /\ l \in Line
  BY LineAhead, LinesOfFiles DEF ParserTypes
<1>2. PICK h \in 0 .. Point : Holds(h) /\ PairsRead(h) /\ NameRead(h)
  BY DEF Reading
<1>3. Element(l)
  <2>1. s1 = None \/ s2 = None
    BY <1>2 DEF Holds
  <2> QED  BY <2>1 DEF Element, Complete, With1, With2
<1>4. h # 0
  BY <1>2, <1>3 DEF Holds, Element, Complete, With1, With2
<1>5. h \in 1 .. Point /\ Element(file[h]) /\ file[h].lead # l.lead
      /\ With1(l).sat \in {file[h].sat, l.sat} /\ With2(l).sat \in {file[h].sat, l.sat}
  <2>1. file[h] # None
    BY <1>2, <1>4 DEF Holds, None
  <2>2. h \in 1 .. Point
    BY <1>1, <1>4
  <2> QED  BY <1>2, <1>3, <1>4, <2>1, <2>2 DEF Holds, Element, Repeated, With1, With2
<1>6. file[h].sat = l.sat
  <2>1. \A j \in h + 1 .. Point : ~Element(file[j])
    BY <1>2, <1>4 DEF Holds
  <2>2. \A j \in 1 .. Point : j # h /\ Element(file[j]) =>
          \E k \in 1 .. Point :
            k # h /\ Element(file[k]) /\ file[k].lead # file[j].lead /\ file[k].sat = file[j].sat
    BY <1>2 DEF PairsRead
  <2> HIDE DEF l
  <2> QED  BY <1>1, <1>3, <1>5, <2>1, <2>2, SetCompleted
<1>7. KEO(l).number = l.sat /\ KEO(l).orbit = l.sat /\ KEO(l).name = name
  BY <1>3, <1>5, <1>6 DEF KEO, WithName, Element
<1>8. name \in {l.sat, NoName}
  <2>1. CASE name # NoName
    <3>1. PICK m \in 1 .. Point :
            /\ file[m].lead = "other" /\ file[m].sat = name
            /\ \A j \in m .. Point : Element(file[j]) => j = h
      BY <1>2, <2>1 DEF NameRead
    <3> HIDE DEF l
    <3>2. file[m].sat = file[Point + 1].sat
      BY <1>1, <1>3, <1>5, <1>6, <2>1, <3>1, NameMatches
    <3> QED  BY <1>1, <3>1, <3>2
  <2> QED  BY <2>1
<1>9. Reading'
  <2>1. Holds(0)' /\ NameRead(0)'
    BY <1>1 DEF Holds, NameRead
  <2>2. ASSUME NEW j \in 1 .. Point + 1, Element(file[j])
        PROVE  \E k \in 1 .. Point + 1 :
                 k # 0 /\ Element(file[k]) /\ file[k].lead # file[j].lead /\ file[k].sat = file[j].sat
    <3>1. CASE j = Point + 1
      <4>1. h \in 1 .. Point + 1 /\ h # 0 /\ file[j] = l
        BY <1>1, <1>4, <1>5, <3>1
      <4> HIDE DEF l
      <4> QED  BY <1>5, <1>6, <4>1
    <3>2. CASE j = h
      <4>1. Point + 1 \in 1 .. Point + 1 /\ Point + 1 # 0
        BY <1>1
      <4> QED  BY <1>1, <1>3, <1>5, <1>6, <3>2, <4>1
    <3>3. CASE j \in 1 .. Point /\ j # h
      <4>1. PICK k \in 1 .. Point :
              k # h /\ Element(file[k]) /\ file[k].lead # file[j].lead /\ file[k].sat = file[j].sat
        BY <1>2, <2>2, <3>3 DEF PairsRead
      <4> QED  BY <1>1, <4>1
    <3> QED  BY <1>1, <3>1, <3>2, <3>3
  <2>3. PairsRead(0)'
    BY <1>1, <2>2 DEF PairsRead, Element
  <2>4. 0 \in 0 .. Point'
    BY <1>1
  <2> QED  BY <2>1, <2>3, <2>4 DEF Reading
<1> QED  BY <1>7, <1>8, <1>9

\* An entry of a catalogue that grows by one is an old one or the new one.
LEMMA EntriesOfGrown ==
  ASSUME NEW c \in Seq(Entries), NEW e \in Entries
  PROVE  \A i \in DOMAIN Append(c, e) : Append(c, e)[i] = e \/ (i \in DOMAIN c /\ Append(c, e)[i] = c[i])
  OBVIOUS

\* Reading keeps the invariant, whatever line comes next.
LEMMA ReadingKept ==
  ASSUME AnswersInv, MatchInv, Parse
  PROVE  MatchInv'
<1> USE DEF AnswersInv
<1> DEFINE l == Head(rest)
<1>1. ParserTypes /\ ParserNext /\ clean' = (clean /\ (control' = "parsing" => ElementSets(file)))
  BY DEF Parse
<1>2. ASSUME UNCHANGED catalog  PROVE ElementsMatched'
  BY <1>1, <1>2 DEF MatchInv, ElementsMatched
<1>3. CASE BeginParse
  <2>1. control' = "parsing" /\ rest' = file /\ s1' = None /\ s2' = None /\ name' = NoName
        /\ UNCHANGED <<file, catalog>>
    BY <1>3 DEF BeginParse
  <2>2. file \in Seq(Line)
    BY <1>1, LinesOfFiles DEF ParserTypes
  <2>3. Point' = 0 /\ RestAhead'
    BY <2>1, <2>2 DEF Point, RestAhead
  <2>4. Holds(0)' /\ PairsRead(0)' /\ NameRead(0)' /\ 0 \in 0 .. Point'
    BY <2>1, <2>3 DEF Holds, PairsRead, NameRead
  <2>5. Reading'
    BY <2>4 DEF Reading
  <2>6. ElementSets(file)' <=> ElementSets(file)
    BY <2>1 DEF ElementSets, Together, FirstLinesKept, SecondLinesLost, NamesBefore, Told, Element
  <2>7. clean' => ElementSets(file)'
    BY <1>1, <2>1, <2>6
  <2> QED  BY <1>2, <2>1, <2>3, <2>5, <2>7 DEF MatchInv
<1>4. ASSUME control = "parsing", UNCHANGED <<control, file>>, rest # << >>, rest' = Tail(rest)
      PROVE  /\ RestAhead /\ RestAhead'
             /\ clean' => clean /\ ElementSets(file) /\ ElementSets(file)' /\ Reading
  <2>1. RestAhead /\ RestAhead'
    BY <1>1, <1>4, LineAhead DEF MatchInv
  <2>2. clean' => clean /\ ElementSets(file) /\ Reading
    BY <1>1, <1>4 DEF MatchInv
  <2>3. ElementSets(file)' <=> ElementSets(file)
    BY <1>4 DEF ElementSets, Together, FirstLinesKept, SecondLinesLost, NamesBefore, Told, Element
  <2> QED  BY <2>1, <2>2, <2>3
<1>5. CASE SkipLine
  <2>1. /\ control = "parsing" /\ rest # << >> /\ Skipped(l) /\ rest' = Tail(rest)
        /\ UNCHANGED <<control, file, s1, s2, name, catalog>>
    BY <1>5 DEF SkipLine
  <2>2. ~Element(l)
    BY <2>1 DEF Skipped, Element
  <2>3. clean' => Reading'
    BY <1>1, <1>4, <2>1, <2>2, OtherLineRead
  <2> QED  BY <1>2, <1>4, <2>1, <2>3 DEF MatchInv
<1>6. CASE KeepLine
  <2>1. /\ control = "parsing" /\ rest # << >> /\ rest' = Tail(rest) /\ UNCHANGED <<control, file, catalog>>
        /\ ~Skipped(l) /\ ~Repeated(l) /\ ~Complete(l)
        /\ s1' = With1(l) /\ s2' = With2(l) /\ name' = WithName(l)
    BY <1>6 DEF KeepLine
  <2>2. l.lead \in Leads
    BY <1>1, <2>1, RestOfFile DEF ParserTypes, Line
  <2>3. CASE Element(l)
    <3>1. name' = name
      BY <2>1, <2>3 DEF Element, WithName
    <3>2. clean' => Reading'
      BY <1>1, <1>4, <2>1, <2>3, <3>1, ElementLineRead
    <3> QED  BY <1>2, <1>4, <2>1, <3>2 DEF MatchInv
  <2>4. CASE ~Element(l)
    <3>1. l.lead = "other"
      BY <2>1, <2>2, <2>4 DEF Leads, Element, Skipped
    <3>2. s1' = s1 /\ s2' = s2 /\ name' = l.sat
      BY <2>1, <3>1 DEF With1, With2, WithName
    <3>3. clean' => Reading'
      BY <1>1, <1>4, <2>1, <2>4, <3>1, <3>2, OtherLineRead
    <3> QED  BY <1>2, <1>4, <2>1, <3>3 DEF MatchInv
  <2> QED  BY <2>3, <2>4
<1>7. CASE AddEntry
  <2>1. /\ control = "parsing" /\ rest # << >> /\ rest' = Tail(rest) /\ UNCHANGED <<control, file>>
        /\ ~Skipped(l) /\ ~Repeated(l) /\ Complete(l)
        /\ catalog' = Append(catalog, KEO(l))
        /\ s1' = None /\ s2' = None /\ name' = NoName
    BY <1>7 DEF AddEntry, ResetEntry
  <2>2. clean' => /\ Reading' /\ KEO(l).number = KEO(l).orbit
                  /\ KEO(l).name \in {KEO(l).number, NoName}
    BY <1>1, <1>4, <2>1, EntryRead
  <2>3. KEO(l) \in Entries /\ catalog \in Seq(Entries)
    BY <1>1, <2>1, RestOfFile, WithLine DEF ParserTypes
  <2>4. ElementsMatched'
    <3> HIDE DEF l
    <3>1. \A i \in DOMAIN catalog' : catalog'[i] = KEO(l) \/ (i \in DOMAIN catalog /\ catalog'[i] = catalog[i])
      BY <2>1, <2>3, EntriesOfGrown
    <3>2. clean' => clean
      BY <1>1
    <3>3. clean => \A i \in DOMAIN catalog :
            catalog[i].number = catalog[i].orbit /\ catalog[i].name \in {catalog[i].number, NoName}
      BY DEF MatchInv, ElementsMatched
    <3> QED  BY <2>2, <3>1, <3>2, <3>3 DEF ElementsMatched
  <2> QED  BY <1>4, <2>1, <2>2, <2>4 DEF MatchInv
<1>8. CASE RepeatedLine \/ UnreadableEntry \/ EndOfFile
  <2>1. control' \in {"down", "parsed"} /\ UNCHANGED catalog
    BY <1>8 DEF RepeatedLine, UnreadableEntry, EndOfFile, EndParse
  <2> QED  BY <1>2, <2>1 DEF MatchInv
<1>9. CASE ReplaceFile
  <2>1. control' = "down" /\ UNCHANGED catalog
    BY <1>9 DEF ReplaceFile
  <2> QED  BY <1>2, <2>1 DEF MatchInv
<1> QED  BY <1>1, <1>3, <1>5, <1>6, <1>7, <1>8, <1>9 DEF ParserNext

\* The other steps leave a catalogue that is being read alone.
LEMMA MatchUntouched ==
  ASSUME MatchInv, ~Parse, [AnswersNext]_allVars
  PROVE  MatchInv'
<1>1. ASSUME UNCHANGED <<catalog, clean>>, control' # "parsing"  PROVE MatchInv'
  BY <1>1 DEF MatchInv, ElementsMatched
<1>2. ASSUME UNCHANGED <<control, file, parserVars, catalog, clean>>  PROVE MatchInv'
  <2>1. RestAhead' <=> RestAhead
    BY <1>2 DEF RestAhead, Point, parserVars
  <2>2. ElementSets(file)' <=> ElementSets(file)
    BY <1>2 DEF ElementSets, Together, FirstLinesKept, SecondLinesLost, NamesBefore, Told, Element
  <2>3. Reading' <=> Reading
    <3>1. \A h : Holds(h)' <=> Holds(h)
      BY <1>2 DEF Holds, Point, Element, parserVars
    <3>2. \A h : PairsRead(h)' <=> PairsRead(h)
      BY <1>2 DEF PairsRead, Point, Element, parserVars
    <3>3. \A h : NameRead(h)' <=> NameRead(h)
      BY <1>2 DEF NameRead, Point, Element, parserVars
    <3>4. Point' = Point
      BY <1>2 DEF Point, parserVars
    <3> QED  BY <3>1, <3>2, <3>3, <3>4 DEF Reading
  <2> QED  BY <1>2, <2>1, <2>2, <2>3 DEF MatchInv, ElementsMatched
<1>3. CASE NoFile \/ StartFails \/ Started \/ Joined \/ CrashDamaged \/ CrashOnEmpty
  BY <1>1, <1>3 DEF NoFile, StartFails, Started, Joined, CrashDamaged, CrashOnEmpty, serverVars
<1>4. CASE Stop \/ NewProcess
  <2>1. catalog' = << >> /\ control' # "parsing"
    BY <1>4 DEF Stop, NewProcess
  <2> QED  BY <2>1 DEF MatchInv, ElementsMatched
<1>5. CASE WorkerStarts \/ BeginCopy \/ Gather \/ SetLocale \/ Format
  BY <1>2, <1>5 DEF WorkerStarts, BeginCopy, Gather, SetLocale, Format, serverVars
<1>6. CASE \/ \E a \in Areas, u \in Placeless : Ask(a, u)
           \/ AnswerUnread \/ AnswerOverrun \/ AnswerRead \/ ConnectionLost
  BY <1>2, <1>6 DEF Ask, AnswerUnread, AnswerOverrun, AnswerRead, ConnectionLost, Return, serverVars
<1>7. CASE UNCHANGED allVars
  BY <1>2, <1>7 DEF allVars, serverVars
<1> QED  BY <1>3, <1>4, <1>5, <1>6, <1>7 DEF AnswersNext

LEMMA MatchStart == AnswersInit => MatchInv
  BY DEF AnswersInit, CatalogInit, MatchInv, ElementsMatched

(* CatalogTLE::parse_keo, given any list of element sets whose second lines    *)
(* may be lost, holds at most one line, of the satellite whose line comes next *)
(* if its own other line is to come at all.                                    *)
THEOREM ParserInvariant == AnswersSpec => []MatchInv
<1>1. AnswersInv /\ MatchInv /\ [AnswersNext]_allVars => MatchInv'
  BY ReadingKept, MatchUntouched
<1> QED  BY <1>1, MatchStart, AnswersInvariant, PTL DEF AnswersSpec

(* Every element set it has put into the catalogue is made of the lines of one *)
(* satellite, under its own name or none.                                      *)
THEOREM EntriesMatched == AnswersSpec => []ElementsMatched
<1>1. MatchInv => ElementsMatched
  BY DEF MatchInv
<1> QED  BY <1>1, ParserInvariant, PTL

-----------------------------------------------------------------------------
(* The integrator *)

\* The members are those of one step.
MembersAgree == atime = xli * Step /\ dots = xli

\* t is not before the step a is at, seen from the epoch, but for the slack.
Beyond(t, a) == (a > 0 => t >= a - Slack) /\ (a < 0 => t <= a + Slack)

\* The loop goes away from the epoch, in whole steps, and not past its time.
Towards(h, distance) ==
  \/ delt[h] = Step /\ atime >= 0 /\ tsince[h] >= atime + distance
  \/ delt[h] = -Step /\ atime <= 0 /\ tsince[h] <= atime - distance

\* What a thread in _secular has found out and stored still holds.
Underway(h) ==
  /\ at[h] \in {"secular", "measure", "direct", "step", "again", "combine"} => MembersAgree
  /\ at[h] \in {"restore_xli", "restore_dots"} => atime = 0
  /\ at[h] = "restore_dots" => xli = 0
  /\ at[h] \in {"measure", "direct"} => Beyond(tsince[h], atime)
  /\ at[h] = "direct" => Abs(tsince[h] - atime) >= Step
  /\ at[h] \in {"step", "load_atime", "store_atime"} => Towards(h, Step)
  /\ at[h] \in {"load_atime", "store_atime"} => xli * Step = atime + delt[h]
  /\ at[h] = "store_atime" => sum[h] = atime + delt[h]
  /\ at[h] = "terms" => xli * Step = atime
  /\ at[h] \in {"terms", "again"} => Towards(h, 0)
  /\ at[h] = "combine" =>
       ft[h] = tsince[h] - atime /\ Abs(ft[h]) < Step /\ Beyond(tsince[h], atime)

Places ==
  {"idle", "secular", "restore_atime", "restore_xli", "restore_dots", "measure", "direct", "step",
   "load_atime", "store_atime", "terms", "again", "combine"}

IntegratorTypes ==
  /\ epoch \in KnownEpochs
  /\ atime \in Int /\ xli \in Int
  /\ at \in [Threads -> Places]
  /\ tsince \in [Threads -> -(StepBound * Step) .. StepBound * Step]
  /\ ft \in [Threads -> Int] /\ sum \in [Threads -> Int]
  /\ delt \in [Threads -> {Step, -Step}]
  /\ mixed \in BOOLEAN /\ met \in [Threads -> BOOLEAN]

\* Who is in _secular together knows of it.
Meetings ==
  /\ \A g, h \in Threads : g # h /\ at[g] # "idle" /\ at[h] # "idle" => met[g]
  /\ \A h \in Threads : met[h] => at[h] # "idle" /\ mixed

\* Until calls meet the members are those of one step between calls, and in a
\* call as far as it has come.
Unmixed ==
  ~mixed => /\ \A h \in Threads : Underway(h)
            /\ (\A h \in Threads : at[h] = "idle") => MembersAgree

IntegratorInv == IntegratorTypes /\ Meetings /\ Unmixed

LEMMA IntegratorStart == IntegratorAssumption /\ Init => IntegratorInv
<1> SUFFICES ASSUME IntegratorAssumption, Init  PROVE IntegratorInv
  OBVIOUS
<1>1. 0 \in -(StepBound * Step) .. StepBound * Step
  BY DEF IntegratorAssumption, Step
<1>2. IntegratorTypes
  <2>1. tsince \in [Threads -> -(StepBound * Step) .. StepBound * Step]
    BY <1>1 DEF Init
  <2>2. delt \in [Threads -> {Step, -Step}] /\ at \in [Threads -> Places]
    BY DEF Init, Places
  <2>3. met \in [Threads -> BOOLEAN] /\ mixed \in BOOLEAN
    BY DEF Init
  <2>4. ft \in [Threads -> Int] /\ sum \in [Threads -> Int] /\ atime \in Int /\ xli \in Int /\ epoch \in KnownEpochs
    BY DEF Init
  <2> QED  BY <2>1, <2>2, <2>3, <2>4 DEF IntegratorTypes
<1>3. Meetings /\ Unmixed
  BY DEF Init, Meetings, Unmixed, MembersAgree, Underway, DotTerms, Step
<1> QED  BY <1>2, <1>3 DEF IntegratorInv

\* A call that has met no other is the only one, before and after its step.
LEMMA OthersIdle ==
  ASSUME IntegratorInv, NEW h \in Threads, at[h] # "idle", ~met[h]
  PROVE  \A g \in Threads : g # h => at[g] = "idle" /\ ~met[g]
  BY DEF IntegratorInv, Meetings

\* A call goes on: it is enough to look at what it does while it is alone.
LEMMA CallGoesOn ==
  ASSUME IntegratorInv, NEW h \in Threads, at[h] # "idle", NEW s \in Places, s # "idle",
         at' = [at EXCEPT ![h] = s], UNCHANGED historyVars, IntegratorTypes', ~mixed => Underway(h)'
  PROVE  IntegratorInv'
<1>0. at \in [Threads -> Places] /\ at'[h] = s /\ met' = met /\ mixed' = mixed
      /\ \A g \in Threads : g # h => at'[g] = at[g]
  BY DEF IntegratorInv, IntegratorTypes, historyVars
<1>1. Meetings'
  BY <1>0 DEF IntegratorInv, Meetings
<1>2. Unmixed'
  <2> SUFFICES ASSUME ~mixed  PROVE \A g \in Threads : Underway(g)'
    BY <1>0 DEF Unmixed
  <2>1. ~met[h]
    BY DEF IntegratorInv, Meetings
  <2>2. ASSUME NEW g \in Threads, g # h  PROVE Underway(g)'
    BY <1>0, <2>1, <2>2, OthersIdle DEF Underway
  <2> QED  BY <2>2
<1> QED  BY <1>1, <1>2 DEF IntegratorInv

\* The call is over, as it was found or with the members of one step.
LEMMA CallEnds ==
  ASSUME IntegratorAssumption, IntegratorInv, NEW h \in Threads, at[h] \in {"measure", "combine"}, Leave(h),
         UNCHANGED <<epoch, cacheVars>>
  PROVE  IntegratorInv'
<1>0. /\ at \in [Threads -> Places] /\ met \in [Threads -> BOOLEAN]
      /\ at' = [at EXCEPT ![h] = "idle"] /\ met' = [met EXCEPT ![h] = FALSE]
      /\ mixed' = mixed /\ UNCHANGED <<epoch, atime, xli, dots, sum>>
      /\ tsince' = [tsince EXCEPT ![h] = 0] /\ ft' = [ft EXCEPT ![h] = 0] /\ delt' = [delt EXCEPT ![h] = Step]
  BY DEF IntegratorInv, IntegratorTypes, Leave, Goto, cacheVars
<1>1. IntegratorTypes'
  BY <1>0 DEF IntegratorInv, IntegratorTypes, Places, IntegratorAssumption, Step
<1>2. Meetings'
  BY <1>0 DEF IntegratorInv, Meetings
<1>3. Unmixed'
  <2> SUFFICES ASSUME ~mixed  PROVE (\A g \in Threads : Underway(g)') /\ MembersAgree'
    BY <1>0 DEF Unmixed
  <2>1. ~met[h] /\ MembersAgree
    BY DEF IntegratorInv, Meetings, Unmixed, Underway
  <2>2. \A g \in Threads : at'[g] = "idle"
    BY <1>0, <2>1, OthersIdle
  <2> QED  BY <1>0, <2>1, <2>2 DEF Underway, MembersAgree
<1> QED  BY <1>1, <1>2, <1>3 DEF IntegratorInv

\* Going into _secular: a restart alone begins anew.
LEMMA BeginStep == ASSUME IntegratorInv, NEW h \in Threads, Begin(h)  PROVE IntegratorInv'
<1>0. /\ at[h] = "secular" /\ at \in [Threads -> Places] /\ met \in [Threads -> BOOLEAN] /\ mixed \in BOOLEAN
      /\ UNCHANGED <<epoch, atime, xli, dots, tsince, ft, delt, sum, met>>
      /\ at' = [at EXCEPT ![h] = IF MustRestart(h) THEN "restore_atime" ELSE "measure"]
      /\ mixed' = (mixed /\ (met[h] \/ ~MustRestart(h)))
  BY DEF IntegratorInv, IntegratorTypes, Begin, Goto, cacheVars, locals
<1>1. IntegratorTypes'
  BY <1>0 DEF IntegratorInv, IntegratorTypes, Places
<1>2. ~met[h] => \A g \in Threads : g # h => at[g] = "idle" /\ ~met[g]
  BY <1>0, OthersIdle
<1>3. Meetings'
  BY <1>0, <1>2 DEF IntegratorInv, Meetings
<1>4. Unmixed'
  <2> SUFFICES ASSUME ~mixed'  PROVE \A g \in Threads : Underway(g)'
    BY <1>0 DEF Unmixed
  <2>1. ~met[h]
    BY <1>0 DEF IntegratorInv, Meetings
  <2>2. ASSUME NEW g \in Threads, g # h  PROVE Underway(g)'
    BY <1>0, <1>2, <2>1, <2>2 DEF Underway
  <2>3. CASE MustRestart(h)
    BY <1>0, <2>2, <2>3 DEF Underway
  <2>4. CASE ~MustRestart(h)
    <3>1. MembersAgree /\ tsince[h] \in Int /\ atime \in Int
      BY <1>0, <2>4 DEF IntegratorInv, IntegratorTypes, Unmixed, Underway
    <3>2. Beyond(tsince[h], atime)
      BY <2>4, <3>1 DEF MustRestart, Beyond, Slack
    <3>3. Underway(h)'
      BY <1>0, <2>4, <3>1, <3>2 DEF Underway, MembersAgree, Beyond
    <3> QED  BY <2>2, <3>3
  <2> QED  BY <2>3, <2>4
<1> QED  BY <1>1, <1>3, <1>4 DEF IntegratorInv

\* Restoring the epoch, a group of members at a time.
LEMMA RestoreStep == ASSUME IntegratorInv, NEW h \in Threads, Restore(h)  PROVE IntegratorInv'
<1> USE DEF Step, DotTerms
<1>0. IntegratorTypes /\ (~mixed => ~met[h] /\ Underway(h)) /\ tsince[h] \in Int
  BY DEF IntegratorInv, IntegratorTypes, Meetings, Unmixed
<1>1. CASE RestoreTime(h)
  <2>1. at[h] = "restore_atime" /\ at' = [at EXCEPT ![h] = "restore_xli"] /\ atime' = 0
        /\ UNCHANGED <<epoch, xli, dots, locals, historyVars>>
    BY <1>1 DEF RestoreTime, Goto
  <2>2. IntegratorTypes'
    BY <1>0, <2>1 DEF IntegratorTypes, Places, locals, historyVars
  <2>3. Underway(h)'
    BY <1>0, <2>1 DEF IntegratorTypes, Underway
  <2> QED  BY <2>1, <2>2, <2>3, CallGoesOn DEF Places
<1>2. CASE RestoreLongitude(h)
  <2>1. at[h] = "restore_xli" /\ at' = [at EXCEPT ![h] = "restore_dots"] /\ xli' = Stored(h, 0)
        /\ UNCHANGED <<epoch, atime, dots, locals, historyVars>>
    BY <1>2 DEF RestoreLongitude, Goto
  <2>2. IntegratorTypes'
    BY <1>0, <2>1, IntegratorAssumption DEF IntegratorAssumption, IntegratorTypes, Places, locals, historyVars, Stored, Torn
  <2>3. ~mixed => Underway(h)'
    BY <1>0, <2>1 DEF IntegratorTypes, Underway, Stored
  <2> QED  BY <2>1, <2>2, <2>3, CallGoesOn DEF Places
<1>3. CASE RestoreDots(h)
  <2>1. at[h] = "restore_dots" /\ at' = [at EXCEPT ![h] = "measure"] /\ dots' = Stored(h, 0)
        /\ UNCHANGED <<epoch, atime, xli, locals, historyVars>>
    BY <1>3 DEF RestoreDots, Goto
  <2>2. IntegratorTypes'
    BY <1>0, <2>1 DEF IntegratorTypes, Places, locals, historyVars
  <2>3. ~mixed => Underway(h)'
    BY <1>0, <2>1 DEF IntegratorTypes, Underway, Stored, MembersAgree, Beyond
  <2> QED  BY <2>1, <2>2, <2>3, CallGoesOn DEF Places
<1> QED  BY <1>1, <1>2, <1>3 DEF Restore

\* What is left, and which way.
LEMMA MeasureStep ==
  ASSUME IntegratorInv, NEW h \in Threads, Measure(h) \/ Direct(h)  PROVE IntegratorInv'
<1> USE DEF Step
<1>0. IntegratorTypes /\ (~mixed => Underway(h)) /\ tsince[h] \in Int /\ atime \in Int
  BY DEF IntegratorInv, IntegratorTypes, Unmixed
<1>1. CASE Measure(h)
  <2>1. at[h] = "measure" /\ LeftOver(h, "direct")
        /\ UNCHANGED <<epoch, atime, xli, dots, tsince, delt, sum, historyVars>>
    BY <1>1 DEF Measure, cacheVars
  <2>2. CASE Abs(tsince[h] - atime) >= Step
    <3>1. at' = [at EXCEPT ![h] = "direct"] /\ ft' = ft
      BY <2>1, <2>2 DEF LeftOver, Goto
    <3>2. IntegratorTypes'
      BY <1>0, <2>1, <3>1 DEF IntegratorTypes, Places, historyVars
    <3>3. ~mixed => Underway(h)'
      BY <1>0, <2>1, <2>2, <3>1 DEF IntegratorTypes, Underway, MembersAgree, Beyond
    <3> QED  BY <2>1, <3>1, <3>2, <3>3, CallGoesOn DEF Places
  <2>3. CASE ~(Abs(tsince[h] - atime) >= Step)
    <3>1. at' = [at EXCEPT ![h] = "combine"] /\ ft' = [ft EXCEPT ![h] = tsince[h] - atime]
      BY <2>1, <2>3 DEF LeftOver, Goto
    <3>2. IntegratorTypes' /\ Abs(tsince[h] - atime) < Step /\ ft'[h] = tsince[h] - atime
      BY <1>0, <2>1, <2>3, <3>1 DEF IntegratorTypes, Places, historyVars, Abs
    <3>3. ~mixed => Underway(h)'
      BY <1>0, <2>1, <3>1, <3>2 DEF IntegratorTypes, Underway, MembersAgree, Beyond
    <3> QED  BY <2>1, <3>1, <3>2, <3>3, CallGoesOn DEF Places
  <2> QED  BY <2>2, <2>3
<1>2. CASE Direct(h)
  <2>1. at[h] = "direct" /\ at' = [at EXCEPT ![h] = "step"] /\ delt' = [delt EXCEPT ![h] = Direction(h)]
        /\ UNCHANGED <<epoch, atime, xli, dots, tsince, ft, sum, historyVars>>
    BY <1>2 DEF Direct, Goto, cacheVars
  <2>2. IntegratorTypes' /\ delt'[h] = Direction(h)
    BY <1>0, <2>1 DEF IntegratorTypes, Places, historyVars, Direction
  <2>3. ASSUME ~mixed  PROVE Underway(h)'
    <3>1. MembersAgree /\ Beyond(tsince[h], atime) /\ Abs(tsince[h] - atime) >= Step
      BY <1>0, <2>1, <2>3 DEF Underway
    <3>2. Towards(h, Step)'
      BY <1>0, <2>1, <2>2, <3>1 DEF Towards, Direction, Beyond, Abs, Slack
    <3> QED  BY <1>0, <2>1, <3>1, <3>2 DEF IntegratorTypes, Underway, MembersAgree
  <2> QED  BY <2>1, <2>2, <2>3, CallGoesOn DEF Places
<1> QED  BY <1>1, <1>2

\* One step of the loop, statement by statement.
LEMMA LoopStep ==
  ASSUME IntegratorAssumption, IntegratorInv, NEW h \in Threads, OneStep(h)  PROVE IntegratorInv'
<1> USE DEF Step, DotTerms
<1>0. /\ IntegratorTypes /\ (~mixed => ~met[h] /\ Underway(h))
      /\ tsince[h] \in -(StepBound * 720) .. StepBound * 720 /\ atime \in Int /\ xli \in Int
      /\ delt[h] \in {720, -720} /\ StepBound \in Nat /\ Torn \in Int /\ sum[h] \in Int
  BY DEF IntegratorInv, IntegratorTypes, Meetings, Unmixed, IntegratorAssumption, Torn
<1>1. CASE Integrate(h)
  <2>1. at[h] = "step" /\ at' = [at EXCEPT ![h] = "load_atime"]
        /\ xli' = Stored(h, Advanced(xli, delt[h] \div 720))
        /\ UNCHANGED <<epoch, atime, dots, locals, historyVars>>
    BY <1>1 DEF Integrate, Goto
  <2>2. delt[h] \div 720 \in {1, -1} /\ (delt[h] \div 720) * 720 = delt[h]
    BY <1>0
  <2>3. xli' \in Int
    BY <1>0, <2>1, <2>2 DEF Stored, Advanced
  <2>4. IntegratorTypes'
    BY <1>0, <2>1, <2>3 DEF IntegratorTypes, Places, locals, historyVars
  <2>5. ASSUME ~mixed  PROVE Underway(h)'
    <3>1. MembersAgree /\ Towards(h, Step) /\ ~met[h]
      BY <1>0, <2>1, <2>5 DEF Underway
    <3>2. xli # Torn /\ Abs(xli + delt[h] \div 720) <= StepBound
      BY <1>0, <2>2, <3>1 DEF MembersAgree, Towards, Torn, Abs
    <3>3. xli' = xli + delt[h] \div 720
      BY <2>1, <3>1, <3>2 DEF Stored, Advanced, MembersAgree
    <3>4. xli' * Step = atime' + delt'[h] /\ Towards(h, Step)'
      BY <1>0, <2>1, <2>2, <3>1, <3>3 DEF MembersAgree, Towards, locals
    <3> QED  BY <1>0, <2>1, <3>4 DEF IntegratorTypes, Underway
  <2> QED  BY <2>1, <2>4, <2>5, CallGoesOn DEF Places
<1>2. CASE LoadTime(h)
  <2>1. /\ at[h] = "load_atime" /\ at' = [at EXCEPT ![h] = "store_atime"]
        /\ sum' = [sum EXCEPT ![h] = IF Abs(atime + delt[h]) > StepBound * Step THEN atime ELSE atime + delt[h]]
        /\ UNCHANGED <<epoch, atime, xli, dots, tsince, ft, delt, historyVars>>
    BY <1>2 DEF LoadTime, Goto, cacheVars
  <2>2. IntegratorTypes'
    BY <1>0, <2>1 DEF IntegratorTypes, Places, historyVars
  <2>3. ASSUME ~mixed  PROVE Underway(h)'
    <3>1. Towards(h, Step) /\ xli * Step = atime + delt[h]
      BY <1>0, <2>1, <2>3 DEF Underway
    <3>2. ~(Abs(atime + delt[h]) > StepBound * Step)
      BY <1>0, <3>1 DEF Towards, Abs
    <3>3. sum'[h] = atime + delt[h]
      BY <1>0, <2>1, <3>2 DEF IntegratorTypes
    <3>4. Towards(h, Step)'
      BY <2>1, <3>1 DEF Towards
    <3> QED  BY <1>0, <2>1, <3>1, <3>3, <3>4 DEF IntegratorTypes, Underway
  <2> QED  BY <2>1, <2>2, <2>3, CallGoesOn DEF Places
<1>3. CASE StoreTime(h)
  <2>1. /\ at[h] = "store_atime" /\ at' = [at EXCEPT ![h] = "terms"]
        /\ atime' = sum[h] /\ sum' = [sum EXCEPT ![h] = 0]
        /\ UNCHANGED <<epoch, xli, dots, tsince, ft, delt, historyVars>>
    BY <1>3 DEF StoreTime, Goto
  <2>2. IntegratorTypes'
    BY <1>0, <2>1 DEF IntegratorTypes, Places, historyVars
  <2>3. ASSUME ~mixed  PROVE Underway(h)'
    <3>1. Towards(h, Step) /\ xli * Step = atime + delt[h] /\ sum[h] = atime + delt[h]
      BY <1>0, <2>1, <2>3 DEF Underway
    <3>2. Towards(h, 0)' /\ xli' * Step = atime'
      BY <1>0, <2>1, <3>1 DEF Towards
    <3> QED  BY <1>0, <2>1, <3>2 DEF IntegratorTypes, Underway
  <2> QED  BY <2>1, <2>2, <2>3, CallGoesOn DEF Places
<1>4. CASE CalculateTerms(h)
  <2>1. at[h] = "terms" /\ at' = [at EXCEPT ![h] = "again"] /\ dots' = Stored(h, xli)
        /\ UNCHANGED <<epoch, atime, xli, locals, historyVars>>
    BY <1>4 DEF CalculateTerms, Goto
  <2>2. IntegratorTypes'
    BY <1>0, <2>1 DEF IntegratorTypes, Places, locals, historyVars
  <2>3. ASSUME ~mixed  PROVE Underway(h)'
    <3>1. Towards(h, 0) /\ xli * Step = atime /\ dots' = xli
      BY <1>0, <2>1, <2>3 DEF Underway, Stored
    <3>2. Towards(h, 0)' /\ MembersAgree'
      BY <2>1, <3>1 DEF Towards, MembersAgree, locals
    <3> QED  BY <1>0, <2>1, <3>2 DEF IntegratorTypes, Underway
  <2> QED  BY <2>1, <2>2, <2>3, CallGoesOn DEF Places
<1>5. CASE CloseEnough(h)
  <2>1. at[h] = "again" /\ LeftOver(h, "step")
        /\ UNCHANGED <<epoch, atime, xli, dots, tsince, delt, sum, historyVars>>
    BY <1>5 DEF CloseEnough, cacheVars
  <2>2. ~mixed => MembersAgree /\ Towards(h, 0) /\ MembersAgree'
    BY <1>0, <2>1 DEF Underway, MembersAgree
  <2>3. CASE Abs(tsince[h] - atime) >= Step
    <3>1. at' = [at EXCEPT ![h] = "step"] /\ ft' = ft
      BY <2>1, <2>3 DEF LeftOver, Goto
    <3>2. IntegratorTypes'
      BY <1>0, <2>1, <3>1 DEF IntegratorTypes, Places, historyVars
    <3>3. ~mixed => Towards(h, Step)'
      BY <1>0, <2>1, <2>2, <2>3 DEF Towards, Abs
    <3>4. ~mixed => Underway(h)'
      BY <1>0, <2>2, <3>1, <3>3 DEF IntegratorTypes, Underway
    <3> QED  BY <2>1, <3>1, <3>2, <3>4, CallGoesOn DEF Places
  <2>4. CASE ~(Abs(tsince[h] - atime) >= Step)
    <3>1. at' = [at EXCEPT ![h] = "combine"] /\ ft' = [ft EXCEPT ![h] = tsince[h] - atime]
      BY <2>1, <2>4 DEF LeftOver, Goto
    <3>2. IntegratorTypes' /\ Abs(tsince[h] - atime) < Step /\ ft'[h] = tsince[h] - atime
      BY <1>0, <2>1, <2>4, <3>1 DEF IntegratorTypes, Places, historyVars, Abs
    <3>3. ~mixed => Beyond(tsince[h], atime)
      BY <1>0, <2>2 DEF Towards, Beyond, Slack
    <3>4. ~mixed => Underway(h)'
      BY <1>0, <2>1, <2>2, <3>1, <3>2, <3>3 DEF IntegratorTypes, Underway, Beyond
    <3> QED  BY <2>1, <3>1, <3>2, <3>4, CallGoesOn DEF Places
  <2> QED  BY <2>3, <2>4
<1> QED  BY <1>1, <1>2, <1>3, <1>4, <1>5 DEF OneStep

\* A request begins, whatever the time it asks for and whoever is in _secular.
LEMMA RequestStep ==
  ASSUME TimesAssumption, IntegratorInv, NEW h \in Threads, NEW d \in Days, NEW clock \in Clocks, Request(h, d, clock)
  PROVE  IntegratorInv'
<1>0. /\ at[h] = "idle" /\ at' = [at EXCEPT ![h] = "secular"]
      /\ tsince' = [tsince EXCEPT ![h] = Elapsed(epoch, d, clock)]
      /\ UNCHANGED <<epoch, atime, xli, dots, ft, delt, sum>>
      /\ mixed' = (mixed \/ ~Alone(h))
      /\ met' = [g \in Threads |-> met[g] \/ (~Alone(h) /\ g \in Inside \cup {h})]
      /\ at \in [Threads -> Places] /\ met \in [Threads -> BOOLEAN] /\ mixed \in BOOLEAN
  BY DEF Request, Goto, cacheVars, IntegratorInv, IntegratorTypes
<1>1. Elapsed(epoch, d, clock) \in -(StepBound * Step) .. StepBound * Step
  BY TimesAssumption DEF IntegratorInv, IntegratorTypes
<1>2. met' \in [Threads -> BOOLEAN] /\ mixed' \in BOOLEAN
  BY <1>0
<1>3. IntegratorTypes'
  BY <1>0, <1>1, <1>2 DEF IntegratorInv, IntegratorTypes, Places
<1>4. Alone(h) <=> \A g \in Threads : at[g] = "idle"
  BY <1>0 DEF Alone, Inside
<1>5. \A g \in Threads : met'[g] <=> met[g] \/ (~Alone(h) /\ (at[g] # "idle" \/ g = h))
  BY <1>0 DEF Inside
<1>6. \A g \in Threads : at'[g] = IF g = h THEN "secular" ELSE at[g]
  BY <1>0
<1>7. Meetings'
  BY <1>0, <1>4, <1>5, <1>6 DEF IntegratorInv, Meetings
<1>8. Unmixed'
  <2> SUFFICES ASSUME ~mixed, Alone(h)  PROVE \A g \in Threads : Underway(g)'
    BY <1>0, <1>6 DEF Unmixed
  <2>1. MembersAgree'
    BY <1>0, <1>4 DEF IntegratorInv, Unmixed, MembersAgree
  <2> QED  BY <1>4, <1>6, <2>1 DEF Underway
<1> QED  BY <1>3, <1>7, <1>8 DEF IntegratorInv

(* However many threads are in NoradSDP4::_secular, and whatever they were     *)
(* asked before: until two of them meet, and again from the first restart of   *)
(* one that meets none, its shared members say the same number of steps, and   *)
(* the loop goes away from the epoch and never past the time asked for.        *)
THEOREM IntegratorInvariant == Spec => []IntegratorInv
<1>1. IntegratorInv /\ [Next]_vars => IntegratorInv'
  <2> SUFFICES ASSUME IntegratorInv, [Next]_vars  PROVE IntegratorInv'
    OBVIOUS
  <2>1. CASE UNCHANGED vars
    BY <2>1 DEF vars, cacheVars, locals, historyVars, IntegratorInv, IntegratorTypes, Meetings, Unmixed,
                MembersAgree, Underway, Towards, Beyond
  <2>2. ASSUME NEW h \in Threads, Secular(h)  PROVE IntegratorInv'
    <3>1. TooFar(h) \/ Combine(h) => IntegratorInv'
      BY CallEnds, IntegratorAssumption DEF TooFar, Combine
    <3> QED  BY <2>2, <3>1, BeginStep, RestoreStep, MeasureStep, LoopStep, IntegratorAssumption DEF Secular
  <2> QED  BY <2>1, <2>2, RequestStep, TimesAssumption DEF Next
<1> QED  BY <1>1, IntegratorStart, IntegratorAssumption, PTL DEF Spec

(* Every position of a call that no overlap shows in is computed from a whole  *)
(* number of steps from the epoch and at most a step, or the slack, away: no   *)
(* earlier request shows in it.  One restart alone undoes what calls that met  *)
(* have left in the members.                                                   *)
THEOREM PositionFromEpoch == Spec => []FromEpoch
<1>1. IntegratorInv => FromEpoch
  BY DEF IntegratorInv, IntegratorTypes, Unmixed, Underway, MembersAgree, Beyond, FromEpoch, Step, Slack, Abs
<1> QED  BY <1>1, IntegratorInvariant, PTL
=============================================================================
