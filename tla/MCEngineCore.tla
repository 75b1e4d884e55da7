----------------------------- MODULE MCEngineCore -----------------------------
\* The hand moves along the camera's x axis; the homography doubles distances.
EXTENDS EngineHistory

MCCoord == 0 .. 2
MCSamples == {<<0, 0>>, <<2, 0>>}
MCPos == {0, 2, 4}
MCSurface == [c \in MCCoord \X MCCoord |-> 2 * c[1]]
MCDist == [pq \in MCPos \X MCPos |-> IF pq[1] > pq[2] THEN pq[1] - pq[2] ELSE pq[2] - pq[1]]
MCShadows == {NoShadow}
==============================================================================
