\* lines that end at bytes 1, 6 and 9 of a stream, a bufio.Reader of two bytes;
\* three frames of 0, 1 or 3 bytes; 18 profiles, run twice; the other file run
\* three times; cards up to and past the blocks of 200 and the 255 MAC bytes;
\* powers in words of 64 values; thirty concatenations
CONSTANTS
  Stream = 9
  Ends = {1, 6, 9}
  Size = 2
  MaxCalls = 4
  Lengths = {0, 1, 3}
  MaxReports = 3
  FileRuns = 3
  ProfileRuns = 2
  ProfileFiles = 18
  Deltas = {0, 1, 2, 3, 4, 5}
  DataLens <- SampleLengths
  ApNums = {3, 199, 200, 201, 254, 255, 400}
  W = 64
  Exps = {0, 1, 2, 3, 6, 13, 63}
  Bases = {0, 1, 2, 3, 5, 63}
  Subtracted = {1, 3, 18, 19, 32}
  Spare = 3
  MaxN = 30
  Unused = Unused
SPECIFICATION Spec
INVARIANTS TypeOK ReadsInOrder CleansUp CardsDistinct Computes
PROPERTIES KeepsOthers Returns
