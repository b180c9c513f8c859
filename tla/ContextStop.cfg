\* WithCancelDemo: do deposits stop when the context is cancelled?
CONSTANTS
  Depositor = {d1, d2, d3}
  Amounts = {500, 1500}
  Total = 3000
  Opening = 1000
  Demos = {"WithCancelDemo"}
SPECIFICATION Spec
PROPERTIES StopsWhenCanceled
CHECK_DEADLOCK FALSE
