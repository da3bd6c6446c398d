SPECIFICATION Spec
INVARIANTS
  OutputInOrder
  BuffersAccounted
  
  StreamsFound
  StatusTellsSound
PROPERTIES
  Terminates
