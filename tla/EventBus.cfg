SPECIFICATION BusSpec
CONSTANTS
  Capacity = 2
  MaxSeq = 5
INVARIANT BusTypeOK
PROPERTIES UiSeesGrammar SequenceShowsLoss GesturesArrive
CHECK_DEADLOCK FALSE
