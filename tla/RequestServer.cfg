\* Two services, three requests, one slot, two restarts.
CONSTANTS
  hover = hover
  link = link
  q1 = q1
  q2 = q2
  q3 = q3
  Request = {q1, q2, q3}
  NoRequest = NoRequest
  Kill = Kill
  Service <- Services
  ServiceOf <- ServiceTable
  Priority <- PriorityTable
  Unclosed = {link}
  MaxRestarts = 2
  MaxWorkers = 1
  Thread <- Threads
SPECIFICATION Spec
INVARIANT TypeOK
INVARIANT SlotsExact
INVARIANT CancelledNeverRuns
INVARIANT NothingForgotten
PROPERTY EveryRequestSettled
CHECK_DEADLOCK FALSE
