CONSTANTS
  None = None
  demo = demo
  live = live
  Payments = {demo, live}
  Mode <- PaymentMode
  Asked <- PaymentAsked
  Handlers = {h1, h2}
  MaxTime = 1

SPECIFICATION Spec
SYMMETRY PaymentSymmetry

INVARIANTS
  AuditTellsStatus
  AppliedOnce

PROPERTIES
  PaidTimeStands
  ImplementsStatusLog
