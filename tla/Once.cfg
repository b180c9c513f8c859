\* demo_do.go and demo_once.go, every goroutine of them
CONSTANTS
  Program <- MCProgram
  Panics = {"task 4"}
  NoCaller = "none"
SPECIFICATION Spec
INVARIANTS TypeOK
PROPERTIES ImplementsOnceAbs
