SPECIFICATION Spec
CONSTANTS
  Followed <- OneByOne
  Slots = {1, 2, 3}
  MaxEdits = 2
  MaxItems = 1
  MaxSends = 2
  MaxVisits = 1
  Budget = 4
CHECK_DEADLOCK FALSE
INVARIANTS
  SlicesListed
  EditsLostOnlyByRace
  OneOfEach
  LoadingIsAnswered

  
