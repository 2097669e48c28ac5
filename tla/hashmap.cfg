CONSTANTS
  Origins <- Numbers
  Images = {i1, i2}
  NoCall = NoCall
  NoAnswer = NoAnswer
  Okay = Okay
  KeyExists = KeyExists
  Absent = Absent
  Width = 3
  FirstShift = 1
  MaxLoad = 500
  Hashes <- HashesOf3
SPECIFICATION SpecSizes
INVARIANTS
  TableSound
PROPERTIES
  ImplementsMap
  Ends
