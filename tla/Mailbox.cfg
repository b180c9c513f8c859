\* one receiver behind the read lock and Signal; two receivers and Broadcast;
\* six letters, the max of demo_variable_cond2.go
CONSTANTS
  Sender = {s}
  r1 = r1
  r2 = r2
  Programs <- BothPrograms
  Letters = 6
  SignCap = 3
SPECIFICATION Spec
INVARIANTS TypeOK CheckedStillReady NoLostWakeup
PROPERTIES ImplementsSlot MainExits
