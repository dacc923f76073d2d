--------------------------- MODULE MCTargetAnswers ---------------------------
EXTENDS TargetAnswers

L(lead, sat) == [lead |-> lead, sat |-> sat, readable |-> TRUE]
Set3(s) == <<L("other", s), L("1", s), L("2", s)>>
Whole == Set3(1) \o Set3(2)

\* A whole file; one with its lines swapped, a comment, no second name
\* and a blank line; a second line lost; a line unreadable; the first line lost.
MCFiles == {
  Whole,
  <<L("other", 1), L("2", 1), L("#", 0), L("1", 1), L("1", 2), L("2", 2), L("other", 0)>>,
  RemoveAt(Whole, 3),
  ReplaceAt(Whole, 6, [lead |-> "2", sat |-> 2, readable |-> FALSE]),
  RemoveAt(Whole, 2) }
=============================================================================
