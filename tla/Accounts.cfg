\* every program, with three iterations of the five; demo_mutex2.go's main
\* never ends (MutexRelocked.cfg), so the system may stop before it
CONSTANTS
  Pairs = 3
  Goroutine <- Both
  Programs <- AllPrograms
  SignCap = 10
  Opening = 1000
  NoOne = NoOne
SPECIFICATION Spec
INVARIANTS TypeOK JoinBarrier SignsEarned
PROPERTIES ExactUpdate EndsInBalance
CHECK_DEADLOCK FALSE
