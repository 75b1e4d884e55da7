----------------------------- MODULE MCGestureFsm -----------------------------
\* A line of four points at unit distance: with the thresholds of the .cfg each
\* of "within dwell_move", "within tap_move", "within drag_eps" and "beyond" is
\* a distance of its own.
EXTENDS GestureFsm

MCPos == 0 .. 3
MCDist == [pq \in MCPos \X MCPos |-> IF pq[1] > pq[2] THEN pq[1] - pq[2] ELSE pq[2] - pq[1]]
==============================================================================
