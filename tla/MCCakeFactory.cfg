SPECIFICATION FairSpec
CONSTANTS
  vanilla = vanilla
  chocolate = chocolate
  Flavours = {vanilla, chocolate}
  Q1Size = 2
  QSize = 2
INVARIANTS
    Accounted
    CarrierPopsWhatItSaw
    LogsInOrder
PROPERTIES
    Implements
    CakesKeepMoving
