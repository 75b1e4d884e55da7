--------------------------- MODULE MCEngineService ---------------------------
\* One hand that never pinches and never moves: contact comes from the shadow.
EXTENDS EngineService

MCPoint == [pq \in {0} \X {0} |-> 0]
MCSamples == {<<0, 0>>}
MCShadows == {NoShadow, [engaged |-> TRUE, confidence |-> 1]}
==============================================================================
