\* A task that waits for its turn.
CONSTANTS
  hover = hover
  link = link
  q1 = q1
  q2 = q2
  q3 = q3
  Request = {q1, q2, q3}
  NoRequest = NoRequest
  Kill = Kill
  Service <- Services
  ServiceOf <- ServiceTable
  Priority <- PriorityTable
  Unclosed = {link}
  MaxRestarts = 0
  MaxWorkers = 1
  Thread <- Threads
SPECIFICATION Spec
INVARIANT AcquireReturns
CHECK_DEADLOCK FALSE
