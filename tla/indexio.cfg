SPECIFICATION Spec
CONSTANTS
  IntMax = 2
  NoIndex = NoIndex
  Words = {apple, banana}
  OddWords = {Apple}
  Docs <- MCDocs
  Counts <- MCCounts
  Numbers <- MCNumbers
  Powers = {2, 4}
  MaxTotal = 3
INVARIANTS TypeOK CountsAreSums RoundTrip TornIsPart
SYMMETRY WordSymmetry
