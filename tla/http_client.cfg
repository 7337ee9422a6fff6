SPECIFICATION Spec
CONSTANTS
  MaxRedirects = 2
  MaxResponse = 1
  ReadChunk = 1
  MaxBody = 3
  MaxAddresses = 2
  MaxExchanges = 1
INVARIANT AnswersAreWhole
PROPERTIES HopsAreSafe BodiesBoundedAndFaithful RequestEnds
