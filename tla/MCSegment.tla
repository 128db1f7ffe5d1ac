------------------------------ MODULE MCSegment ------------------------------
(* The instances of Segment that TLC checks.                                *)
EXTENDS Segment

(* A new FSM of zeros, and one whose first entry kept a full page.          *)
SomeLeftovers ==
  {[i \in Entries |-> 0], [i \in Entries |-> IF i = 0 THEN MaxStatus ELSE 0]}

(* Partitions that get full at several points, with one entry on an index   *)
(* page and with three.                                                     *)
SmallLayouts == [pages : {6, 7, 9}, entries : {1}] \cup [pages : {7}, entries : {3}]
=============================================================================
