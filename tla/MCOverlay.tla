------------------------------ MODULE MCOverlay ------------------------------
EXTENDS Overlay, Bitwise

MCXor(a, b) == a ^^ b

Joins(j, c, O, l, k) ==
  [joiner |-> j, contact |-> c, others |-> O, lossy |-> l, commands |-> k]

\* 0 has 5 and 6 in one bucket, 5 and 6 have the others in two.  In the last three
\* situations a node joins by itself: a member of two or of three, or one alone.
MCSituations ==
  {Joins(0, 5, {6}, FALSE, 1), Joins(0, 6, {5}, FALSE, 1), Joins(0, 5, {}, FALSE, 2),
   Joins(0, 5, {}, TRUE, 1), Joins(0, 5, {6}, TRUE, 0),
   Joins(0, 0, {5, 6}, TRUE, 1), Joins(0, 0, {5}, FALSE, 1), Joins(0, 0, {}, FALSE, 2)}

\* Everybody is there from the start; 0 may still join, by its peer 5.
RouteSituations == {Joins(0, 5, {0, 6}, FALSE, 2)}
=============================================================================
