\* Two channels sharing the bus lock, two connections, queues of two events
\* and up to three publishes per channel: every overflow and drain race occurs.
SPECIFICATION Spec
CONSTANTS
  Jobs = {j1, j2}
  Subscribers = {s1, s2}
  Capacity = 2
  MaxEvents = 3
  Free = Free
  NotYet = NotYet
  Closed = Closed
INVARIANTS TypeOK InOrder Accounting LosslessBelowCapacity
PROPERTIES PublishReturns QueueDrains
\* Publishes are bounded and every client may have left: the bus then idles.
CHECK_DEADLOCK FALSE
