\* demo_waitgroup.go; nine goroutines of demo_waitgroup2.go in its batches of
\* three; demo_TryLock.go in units of 1000; test_goroutine_order.go with all ten;
\* the three functions of demo_context.go with three deposits of 500 or 1500
\* towards a total of 3000
CONSTANTS
  Total = 9
  Stride = 3
  Opening = 1
  Amount = 1
  Full = 10
  N = 10
  Depositors = {d1, d2, d3}
  Amounts = {500, 1500}
  Needed = 3000
  Funds = 1000
  Unused = Unused
SPECIFICATION Spec
INVARIANTS TypeOK Conserved JoinedBatchComplete InOrder CancelsWhenFull
PROPERTIES MainExits
\* without a deadline main of demo_context.go really blocks for ever when the
\* random amounts do not reach the total
CHECK_DEADLOCK FALSE
