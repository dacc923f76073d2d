---------------------------- MODULE TimelineSpec ----------------------------
(***************************************************************************)
(* What class Timeline promises, as a specification of its own: labels are *)
(* kept for the discretes they were given to until time has passed these.  *)
(***************************************************************************)
EXTENDS Timeline

VARIABLES labels, base

TimelineInit == labels = << >> /\ base = 0

Label(first, last, label) ==
  /\ labels' = LabelSectors(labels, base, << [first |-> first, last |-> last, label |-> label] >>)
  /\ UNCHANGED base

\* Time passes: what is before the present is given up.
Move ==
  /\ base' \in Nat /\ base' >= base
  /\ labels' = move_timeline(labels, base')

TimelineNext ==
  \/ \E first, last \in 0 .. timeline_depth - 1, label \in Labels : first <= last /\ Label(first, last, label)
  \/ Move

TimelinePromise == TimelineInit /\ [][TimelineNext]_<<labels, base>>
=============================================================================
