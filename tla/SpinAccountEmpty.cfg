\* demo_TryLock.go, with the constants of the code in units of 1000
CONSTANTS
  Opening = 1
  Amount = 1
  Full = 10
SPECIFICATION Spec
INVARIANTS AllWithdrawn
