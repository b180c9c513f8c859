\* demo_mutex2.go: two of the five pairs
CONSTANTS
  Pairs = 2
  Goroutine <- Both
  Programs <- Mutex2
  SignCap = 10
  Opening = 1000
  NoOne = NoOne
SPECIFICATION Spec
PROPERTIES MainExits
CHECK_DEADLOCK FALSE
