--------------------------- MODULE MCGestureHistory ---------------------------
\* A line of three points at unit distance: neighbours are "near" for every
\* threshold of the .cfg, the two ends are not.
EXTENDS GestureHistory

MCPos == 0 .. 2
MCDist == [pq \in MCPos \X MCPos |-> IF pq[1] > pq[2] THEN pq[1] - pq[2] ELSE pq[2] - pq[1]]
==============================================================================
