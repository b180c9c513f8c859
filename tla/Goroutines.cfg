\* demo_rwmutex.go with two of its five iterations; three goroutines of
\* test_goroutine.go and of demo2.go; two clients of an atomicValue with two
\* stores each; two readers of the stored slice
CONSTANTS
  N = 2
  SignCap = 6
  Opening = 1000
  NoOne = NoOne
  Launches = 3
  Clients = {c1, c2}
  MaxStores = 2
  Readers = {r1, r2}
  Unused = Unused
SPECIFICATION Spec
INVARIANTS TypeOK WholeUpdatesSeen LoadsWhatWasStored PrintsReached
PROPERTIES ExactUpdate MainExits
