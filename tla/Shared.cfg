\* demo_sync.go: two writers of two records, two readers of two; demo_mutex.go:
\* two goroutines, two blocks of a header and one chunk; the io.Pipe with the
\* 55 bytes of the code's wBuf and two sizes a comment does not fit into;
\* sync_map.go with three programs on its dictionaries
CONSTANTS
  Writer = {w1, w2}
  Reader = {r1, r2}
  WriteNumber = 2
  ReadNumber = 2
  Goroutine = {g1, g2}
  Blocks = 2
  Chunks = 1
  Sizes = {4, 20, 55}
  NoOne = NoOne
  Nothing = Nothing
  Unused = Unused
SPECIFICATION Spec
INVARIANTS TypeOK WholeWrites AnswersCorrespond ReadsToTheEnd
PROPERTIES MainExits
